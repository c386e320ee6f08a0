------------------------------- MODULE MCSync -------------------------------
EXTENDS Sync

MCWeightOf == [S \in SUBSET Node |-> Cardinality(S)]
MCFullyValid == Block
MCSignedFor == [b \in Block |-> {None}]

(* Blocks 1 and 2 open account a; 3, of a gated type, opens b with what 2 *)
(* sends.  The client's owner submits the losing block 1.                 *)
MCAcct == <<"a", "a", "b">>
MCPrev == <<Root, Root, Root>>
MCSrc == <<None, None, 2>>
MCHeight == <<1, 1, 1>>
MCAnc == <<{}, {}, {}>>
MCBelow == <<{}, {}, {2}>>
MCHome == <<"c", "s", "s">>

(* 1 opens a multisig account, the send 2 and the update 3 both follow    *)
(* it, and 4 is signed with the keys that 3 sets.                         *)
KeysAcct == <<"a", "a", "a", "a">>
KeysPrev == <<Root, 1, 1, 3>>
KeysSrc == <<None, None, None, None>>
KeysHeight == <<1, 2, 2, 3>>
KeysAnc == <<{}, {1}, {1}, {1, 3}>>
KeysBelow == KeysAnc
KeysHome == <<"s", "c", "s", "s">>
KeysSignedFor == <<{None, 1, 3}, {1}, {1}, {3}>>
=============================================================================
