---------------------------- MODULE MCStateChain ----------------------------
(* Keys as in statechain/genesis.json: a DAO of two out of three and an      *)
(* oracle with a key of its own; and the blocks they may write, valid ones   *)
(* and others.                                                               *)
EXTENDS StateChain, TLC

MCSysKey == {DAO, Oracle, Phase, Tokenomics, Activations, MinVersion, Minter,
             Timekeepers, Representatives}

MCKVKey == MCSysKey \cup {"epoch.1", "note.1"}

MCUnder == [p \in {"epoch.", "note."} |-> IF p = "epoch." THEN {"epoch.1"} ELSE {"note.1"}]

Set(k, v) == [action |-> "set", key |-> k, value |-> v]
Del(k)    == [action |-> "delete", key |-> k, value |-> None]

Keyset(keys, t) == [keys |-> keys, threshold |-> t]
OracleOf(p, k)  == [keys |-> <<k>>, threshold |-> 1, prefix |-> p]

MCGenesis ==
    [k \in MCKVKey |->
        IF k = DAO THEN Keyset(<<"k1", "k2", "k3">>, 2)
        ELSE IF k = Oracle THEN OracleOf("epoch.", "k5")
        ELSE IF k = Phase THEN 1 ELSE None]

Epoch(vol, floor, eff, source) ==
    [start |-> 0, end |-> 1, phase |-> 1, payoutCap |-> 1500, sMilli |-> 0,
     twap |-> 1000, rCollusion |-> 950, rVolume |-> vol, rPriceFloor |-> floor,
     rEffective |-> eff, rSource |-> source]

At(i, ns) == [atIndex |-> i, notBefore |-> ns]
Schedule(i, ns) == <<Set(Activations, [f \in {"noop"} |-> At(i, ns)])>>

Config(factor) ==
    [rInit |-> 2000, rFloor |-> 100, vHalf |-> 1, priceTier |-> <<500, 1010, 10000>>,
     rPriceFloor |-> <<2000, 1250>>, collusionFactor |-> factor, fdvMin |-> 1,
     fdvMax |-> 2, capCeiling |-> 1400, capFloor |-> 1120]

(* Blocks the keys of some moment sign, with either time. *)
GovernanceOps == {
    Schedule(2, 0), Schedule(0, 2),
    <<Set(Phase, 2), Set(MinVersion, <<1, 2, 0>>), Set(Phase, 1)>>,
    <<Set(MinVersion, <<1, 1, 9>>), Set(Phase, 2), Set(Activations, <<>>)>> }

Rotation ==
    <<Set(DAO, Keyset(<<"k2", "k3", "k4">>, 2)), Set(Oracle, OracleOf("note.", "k6")),
      Set(Tokenomics, Config(950)), Set(Minter, [keys |-> <<"k2">>]),
      Set(Timekeepers, Keyset(<<"k2">>, 1)),
      Set(Representatives, [mode |-> "allowlist", addresses |-> <<"k2">>])>>

FirstEpoch == <<Set("epoch.1", Epoch(100, 200, 200, "price_floor"))>>

(* Blocks that some check refuses, whoever signs them. *)
OtherOps == {
    Schedule(0, 0), <<>>, <<Del(DAO)>>,
    <<Set(DAO, Keyset(<<"k2", "k4">>, 1))>>, <<Set(DAO, Keyset(<<"k2", "k2">>, 2))>>,
    <<Set(Tokenomics, Config(1000))>>,
    <<Set("note.1", 1), Set("epoch.1", Epoch(2000, 200, 950, "collusion"))>> }

Signed(O, T, S) == {[ops |-> o, ts |-> t, sigs |-> s] : o \in O, t \in T, s \in S}

MCBodies ==
    Signed(GovernanceOps, {1, 2}, {<<"k1", "k2">>})
    \cup Signed({Schedule(2, 0), Schedule(0, 3)}, {2}, {<<"k3", "k4">>})
    \cup Signed({Rotation}, {1}, {<<"k2", "k3">>})
    \cup Signed({FirstEpoch, <<Del("epoch.1")>>,
                <<Set("epoch.1", Epoch(2000, 200, 2000, "volume"))>>}, {2}, {<<"k5">>})
    \cup Signed(OtherOps, {2}, {<<"k2", "k3">>})
    \cup Signed({FirstEpoch}, {2}, {<<"k2", "k3">>, <<"k3", "k4">>})
    \cup Signed({Schedule(2, 0)}, {2}, {<<"k3">>, <<"k3", "k3">>})

(* One block of each: a rotation of keys and an epoch record. *)
MCForkBodies ==
    Signed({Rotation}, {1}, {<<"k2", "k3">>}) \cup Signed({FirstEpoch}, {1}, {<<"k5">>})

Symmetry == Permutations(Node)
=============================================================================
