------------------------------ MODULE StateKV ------------------------------
(***************************************************************************)
(* The key-value state of the governance chain (package statechain): which *)
(* operations and which values a state block may carry, which changes of a *)
(* value are allowed, and what a block's operations do to the state.       *)
(*                                                                         *)
(* kv maps every key to its value or None.  Key lists are sequences, so a  *)
(* key listed twice can be told apart; names of keys and prefixes are      *)
(* opaque and Under says which keys start with a prefix.                   *)
(***************************************************************************)
EXTENDS Integers, Sequences, FiniteSets

CONSTANTS
    None,
    KVKey,                      \* the keys blocks of the model touch
    SysKey,                     \* the ones that start with "sys."
    Under,                      \* prefix |-> the keys that start with it
    Genesis,                    \* kv after the operations of the genesis block
    MaxActivationFeatures,      \* bound of the code, 64
    MaxEligibleRepresentatives  \* bound of the code, 1000

DAO        == "sys.dao_keyset"
Oracle     == "sys.oracle"
Phase      == "sys.phase"
Tokenomics == "sys.tokenomics"
Activations == "sys.activations"
MinVersion == "sys.min_protocol_version"
Minter     == "sys.minter"
Timekeepers == "sys.timekeepers"
Representatives == "sys.representatives"

MinDAOThreshold == 2

Members(s) == {s[i] : i \in DOMAIN s}

Distinct(s) == \A i, j \in DOMAIN s : s[i] = s[j] => i = j

-----------------------------------------------------------------------------
(* Values of the system keys. *)

ValidKeyset(ks) ==
    /\ Distinct(ks.keys)
    /\ ks.threshold \in MinDAOThreshold..Len(ks.keys)

ValidTimekeepers(tk) == tk.threshold \in 1..Len(tk.keys)

ValidMinter(mc) == Len(mc.keys) > 0 /\ Distinct(mc.keys)

ValidOracle(oc) ==
    /\ Distinct(oc.keys)
    /\ oc.threshold \in 1..Len(oc.keys)
    /\ oc.prefix \in DOMAIN Under

ValidRepresentatives(rc) ==
    \/ rc.mode = "open" /\ rc.addresses = <<>>
    \/ /\ rc.mode = "allowlist"
       /\ Len(rc.addresses) \in 1..MaxEligibleRepresentatives
       /\ Distinct(rc.addresses)

TokenomicsRMin == 1
TokenomicsRMax == 100000

(* Rates in milli. *)
ValidTokenomics(tc) ==
    /\ tc.rInit > tc.rFloor
    /\ tc.vHalf > 0
    /\ tc.priceTier[1] < tc.priceTier[2] /\ tc.priceTier[2] < tc.priceTier[3]
    /\ tc.rPriceFloor[1] >= tc.rPriceFloor[2] /\ tc.rPriceFloor[2] >= tc.rFloor
    /\ tc.collusionFactor < 1000
    /\ 0 < tc.fdvMin /\ tc.fdvMin < tc.fdvMax
    /\ tc.capFloor < tc.capCeiling
    /\ {tc.rInit, tc.rFloor, tc.rPriceFloor[1], tc.rPriceFloor[2],
        tc.collusionFactor, tc.capCeiling, tc.capFloor}
          \subseteq TokenomicsRMin..TokenomicsRMax

(* A trigger: the state chain's index and time from which a feature is live; *)
(* 0 is no constraint.                                                       *)
ActiveAt(rec, index, ns) == index >= rec.atIndex /\ ns >= rec.notBefore

ValidActivations(a) ==
    /\ \A f \in DOMAIN a : a[f].atIndex # 0 \/ a[f].notBefore # 0
    /\ Cardinality(DOMAIN a) <= MaxActivationFeatures

(* Versions are <<major, minor, patch>>: is a before b? *)
VersionBefore(a, b) ==
    \E i \in 1..3 : a[i] < b[i] /\ \A j \in 1..(i - 1) : a[j] = b[j]

ValidSysKeyValue(key, value) ==
    /\ key = DAO             => ValidKeyset(value)
    /\ key = Timekeepers     => ValidTimekeepers(value)
    /\ key = Minter          => ValidMinter(value)
    /\ key = Oracle          => ValidOracle(value)
    /\ key = Phase           => value \in {1, 2}
    /\ key = Tokenomics      => ValidTokenomics(value)
    /\ key = Activations     => ValidActivations(value)
    /\ key = MinVersion      => Len(value) = 3
    /\ key = Representatives => ValidRepresentatives(value)

DeletesAnything(op) ==        \* mutant: system keys can be deleted
    /\ op.key \in KVKey
    /\ op.action = "set" => op.value # None /\ ValidSysKeyValue(op.key, op.value)

ValidateOp(op) ==
    /\ op.key \in KVKey
    /\ \/ op.action = "set" /\ op.value # None /\ ValidSysKeyValue(op.key, op.value)
       \/ op.action = "delete" /\ op.key \notin SysKey

-----------------------------------------------------------------------------
(* What a block of index and time [index, ts] may change.  tip is the block *)
(* before it, and kv the state that block left behind.                      *)

RequireFutureOrNow(rec, b) ==        \* mutant: off by one
    /\ rec.atIndex # 0 => rec.atIndex >= b.index
    /\ rec.notBefore # 0 => rec.notBefore >= b.ts

RequireFuture(rec, b) ==
    /\ rec.atIndex # 0 => rec.atIndex > b.index
    /\ rec.notBefore # 0 => rec.notBefore > b.ts

Features(kv) == IF kv[Activations] = None THEN {} ELSE DOMAIN kv[Activations]

ActivationsMove(kv, tip, b, next) ==        \* mutant: live triggers may move
    /\ Features(kv) \subseteq DOMAIN next
    /\ \A f \in DOMAIN next :
          \/ f \in Features(kv) /\ next[f] = kv[Activations][f]
          \/ RequireFuture(next[f], b)

ActivationsTransition(kv, tip, b, next) ==
    /\ \A f \in Features(kv) :
          /\ f \in DOMAIN next
          /\ \/ next[f] = kv[Activations][f]
             \/ /\ ~ActiveAt(kv[Activations][f], tip.index, tip.ts)
                /\ RequireFuture(next[f], b)
    /\ \A f \in DOMAIN next \ Features(kv) : RequireFuture(next[f], b)

MinVersionTransition(kv, next) ==
    kv[MinVersion] # None => ~VersionBefore(next, kv[MinVersion])

PhaseTransition(kv, next) == kv[Phase] # None => next >= kv[Phase]

NoTransitionChecks(kv, tip, b, op) ==        \* mutant
    op.action = "set" =>
        (op.key = Activations => ActivationsTransition(kv, tip, b, op.value))

ValidateTransition(kv, tip, b, op) ==
    op.action = "set" =>
        /\ op.key = Activations => ActivationsTransition(kv, tip, b, op.value)
        /\ op.key = MinVersion  => MinVersionTransition(kv, op.value)
        /\ op.key = Phase       => PhaseTransition(kv, op.value)

-----------------------------------------------------------------------------
(* Emission epochs, written by the oracle. *)

PhaseOf(kv) == IF kv[Phase] = None THEN 1 ELSE kv[Phase]

SMilliForPhase(phase) == IF phase = 2 THEN 300 ELSE 0

CollusionFactor(kv) ==
    IF kv[Tokenomics] = None THEN 950 ELSE kv[Tokenomics].collusionFactor

PayoutCapRange(kv) ==
    IF kv[Tokenomics] = None THEN 1000..2000
    ELSE kv[Tokenomics].capFloor..kv[Tokenomics].capCeiling

ExpectedRCollusion(twap, sMilli, factor) ==
    IF twap = 0 \/ sMilli >= 1000 THEN 0 ELSE (factor * (1000 - sMilli)) \div twap

ValidateEpochValue(ev, kv) ==
    LET supportive == IF ev.rPriceFloor > ev.rVolume THEN ev.rPriceFloor ELSE ev.rVolume
        capped     == ev.rCollusion # 0 /\ ev.rCollusion < supportive
    IN /\ ev.end > ev.start
       /\ ev.phase = PhaseOf(kv)
       /\ ev.payoutCap # 0 => ev.payoutCap \in PayoutCapRange(kv)
       /\ ev.sMilli = SMilliForPhase(ev.phase)
       /\ ev.rCollusion \in
             {0, ExpectedRCollusion(ev.twap, ev.sMilli, CollusionFactor(kv))}
       /\ ev.rEffective = IF capped THEN ev.rCollusion ELSE supportive
       /\ ev.rSource = IF capped THEN "collusion"
                       ELSE IF ev.rVolume = ev.rPriceFloor THEN "tied"
                       ELSE IF ev.rVolume > ev.rPriceFloor THEN "volume"
                       ELSE "price_floor"

-----------------------------------------------------------------------------
(* The last operation on a key decides its value. *)
ApplyOps(kv, ops) ==
    [k \in KVKey |->
        LET writes == {i \in DOMAIN ops : ops[i].key = k}
            last   == ops[CHOOSE i \in writes : \A j \in writes : j <= i]
        IN IF writes = {} THEN kv[k]
           ELSE IF last.action = "set" THEN last.value ELSE None]

(* The keyset in force can be loaded. *)
DAOKeyset(kv) ==
    /\ kv[DAO] # None
    /\ kv[DAO].threshold \in MinDAOThreshold..Len(kv[DAO].keys)

(* An oracle that cannot be loaded counts as none. *)
OracleConfig(kv) ==
    IF kv[Oracle] # None /\ kv[Oracle].threshold \in 1..Len(kv[Oracle].keys)
    THEN kv[Oracle] ELSE None

(* Does the oracle in force write this key? *)
Governed(kv, k) == OracleConfig(kv) # None /\ k \in Under[OracleConfig(kv).prefix]

(* What NewChain accepts as genesis. *)
ValidateGenesis ==
    /\ DAOKeyset(Genesis)
    /\ \A k \in Under["epoch."] : Genesis[k] # None => Governed(Genesis, k)

ASSUME GenesisAssumption ==
    /\ DOMAIN Genesis = KVKey
    /\ ValidateGenesis

ASSUME SysKeyAssumption ==
    /\ {DAO, Oracle, Phase, Tokenomics, Activations, MinVersion, Minter,
        Timekeepers, Representatives} \subseteq SysKey
    /\ SysKey \subseteq KVKey

(* The types of the values that checks compare, as they are parsed. *)
Parsed(key, value) ==
    /\ key \in {DAO, Oracle} =>
          DOMAIN value.keys = 1..Len(value.keys) /\ Len(value.keys) \in Nat
    /\ key = Phase => value \in Nat
    /\ key = MinVersion => value \in [1..3 -> Nat]
    /\ key = Activations =>
          \A f \in DOMAIN value : {value[f].atIndex, value[f].notBefore} \subseteq Nat

ASSUME GenesisTypeAssumption ==
    \A k \in KVKey : Genesis[k] # None => Parsed(k, Genesis[k])
=============================================================================
