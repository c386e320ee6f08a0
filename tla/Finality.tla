------------------------------ MODULE Finality ------------------------------
(***************************************************************************)
(* The finality protocol of a network of nodes: the ledger (BlockLattice), *)
(* the vote manager and the quorum manager of every node, run by the       *)
(* handlers that node/node.go wires together, over a network that loses,   *)
(* delays, duplicates and reorders blocks and votes.                       *)
(*                                                                         *)
(* The network is the set of votes every node ever sent: a node may        *)
(* receive any of them at any time, any number of times, or never.  Any    *)
(* block may reach any node at any time: an account owner may sign         *)
(* siblings and may give them to different nodes.                          *)
(***************************************************************************)
EXTENDS VoteManager

CONSTANT
    Synchronous  \* TRUE: candidates reach all nodes within the window

ASSUME SynchronousAssumption == Synchronous \in BOOLEAN

VARIABLE node   \* node[n] \in NodeState

vars == <<node>>

Init == node = [n \in Node |-> InitNode]

Update(n, s) == node' = [node EXCEPT ![n] = s]

(* In a synchronous network the stability window is longer than it takes   *)
(* all candidates of a position to reach every node.                       *)
CandidatesEverywhere(p) ==
    \A k \in Node, b \in Block : Pos(b) = p => b \in Held(node[k])

EnvAt(p) ==
    {e \in Env :
        /\ e.io \in {"ok"} \cup Faults
        /\ e.window /\ Synchronous => CandidatesEverywhere(p)}

-----------------------------------------------------------------------------
(* A block arrives, by gossip, sync, block pull or submission. *)
AppendBlock(n, b) ==
    /\ CanAppend(node[n], b)
    /\ Update(n, Attach(node[n], b))

StageBlock(n, b) ==
    /\ CanStage(node[n], b)
    /\ Update(n, StageCandidate(node[n], b))

(* The record is saved, the body is not: a phantom candidate. *)
StageBlockFails(n, b) ==
    /\ "stage" \in Faults
    /\ CanStage(node[n], b)
    /\ Update(n, RecordConflict(node[n], b))

(* OnBlockAdded and SweepFrontiers vote with the block as seed, which adds *)
(* a candidate only if the block has no vote yet and is not on record.     *)
(* The redrive timer gives no seed, and OnConflict only what is on record. *)
VoteSeeds(s, p) ==
    {{}} \cup {{b} : b \in {c \in s.known \ CandidateSet(s, p) : Pos(c) = p}}

CastVoteOn(n, p) ==
    \E seed \in VoteSeeds(node[n], p), e \in EnvAt(p) :
        Update(n, CastVote(node[n], n, p, seed, e))

Network == UNION {node[k].sent : k \in Node}

(* A vote that finds the backoff running changes nothing that CastVoteOn   *)
(* would not, so here and in the sweep it has run out.                     *)
HandleVote(n, m) ==
    /\ m \in Network
    /\ \E e \in EnvAt(Pos(m.block)) :
         /\ e.due
         /\ Update(n, ReceiveVote(node[n], n, m, e))

AnswerVotePull(n, p) == Update(n, VotesForPosition(node[n], n, p))

(* The blocks whose votes a node without weight asks for: of every account *)
(* the lowest that is not final and the frontier.                          *)
PulledBlocks(s) ==
    {b \in s.chain \ Finalized(s) :
        LET chain == {c \in s.chain : Acct[c] = Acct[b]}
        IN  \/ \A c \in chain : Height[c] < Height[b] => IsFinalized(s, c)
            \/ \A c \in chain : Height[c] <= Height[b]}

(* pullFrontierVotes: the answers are handled like any vote, and then the  *)
(* position is tallied again.                                              *)
PullFrontierVotes(n, p) ==
    /\ ~HasVoteWeight(n)
    /\ \E b \in PulledBlocks(node[n]) : Pos(b) = p
    /\ Update(n, Retally(node[n], p))

(* The age of a record matters only when it has phantoms. *)
SweepStaleConflict(n, p) ==
    /\ node[n].conflict[p] # {}
    /\ \E age \in IF Phantoms(node[n], p) = {} THEN {"old"} ELSE ConflictAge,
          e \in EnvAt(p) :
         /\ e.due
         /\ Update(n, SweepConflict(node[n], n, p, age, e))

QuarantineExpires(n, b) ==
    /\ b \in node[n].quarantine
    /\ Update(n, [node[n] EXCEPT !.quarantine = @ \ {b}])

(* Mutants: the locks, or the final heights, are kept in memory only. *)
LoseLocks(s) ==
    [s EXCEPT !.seen = InitNode.seen, !.quarantine = {}, !.lock = InitNode.lock]

LoseFinalHeights(s) ==
    [s EXCEPT !.seen = InitNode.seen, !.quarantine = {},
              !.finalHeight = InitNode.finalHeight]

(* A process restarts: what only memory held is gone. *)
LoseMemory(s) ==
    [s EXCEPT !.seen = InitNode.seen, !.quarantine = {}]

Restart(n) ==
    /\ "restart" \in Faults
    /\ Update(n, LoseMemory(node[n]))

(* The system writes a node's store to disk when it sees fit. *)
WriteBack(n) ==
    /\ "power" \in Faults
    /\ Update(n, Sync(node[n]))

(* A machine goes down and comes back with what is on disk. *)
PowerFailure(n) ==
    /\ "power" \in Faults
    /\ Update(n, NodeOn(node[n].disk, node[n].sent, node[n].substituted))

Next ==
    \E n \in Node :
        \/ \E b \in Block : \/ AppendBlock(n, b)
                            \/ StageBlock(n, b)
                            \/ StageBlockFails(n, b)
                            \/ QuarantineExpires(n, b)
        \/ \E p \in Position : \/ CastVoteOn(n, p)
                               \/ AnswerVotePull(n, p)
                               \/ PullFrontierVotes(n, p)
                               \/ SweepStaleConflict(n, p)
        \/ \E m \in VoteMsg : HandleVote(n, m)
        \/ Restart(n)
        \/ WriteBack(n)
        \/ PowerFailure(n)

Spec == Init /\ [][Next]_vars

(* What the code keeps trying: blocks and votes are sent again until they  *)
(* arrive, and the tickers sweep frontiers and conflicts.  When a ticker   *)
(* fires the backoff is over, the window has passed if it may, and no      *)
(* write fails.                                                            *)
Ripe(p) ==
    [due |-> TRUE, window |-> Synchronous => CandidatesEverywhere(p), io |-> "ok"]

SweepFrontier(n, b) ==
    IF b \in node[n].chain \ Finalized(node[n])
    THEN CastVote(node[n], n, Pos(b), {b}, Ripe(Pos(b)))
    ELSE node[n]

SweepTick(n, p) ==
    IF node[n].conflict[p] # {}
    THEN SweepConflict(node[n], n, p, "expired", Ripe(p))
    ELSE node[n]

(* A quarantine lasts two periods of the sweep, so the sweep that comes    *)
(* before its end is one the code cannot miss.                             *)
QuarantineSweep(n, p) ==
    IF node[n].quarantine # {} THEN SweepTick(n, p) ELSE node[n]

VoteArrives(n, m) ==
    IF m \in Network
    THEN ReceiveVote(node[n], n, m, Ripe(Pos(m.block)))
    ELSE node[n]

(* Weak fairness of the step that takes node n to s, that is of            *)
(* node[n] # s /\ Update(n, s): time and again there is nothing to do, or  *)
(* it is done.                                                             *)
Fairness ==
    \A n \in Node :
        /\ \A b \in Block :
             /\ WF_vars(AppendBlock(n, b) \/ StageBlock(n, b))
             /\ \/ []<>(node[n] = SweepFrontier(n, b))
                \/ []<><<Update(n, SweepFrontier(n, b))>>_vars
        /\ \A m \in VoteMsg :
             \/ []<>(node[n] = VoteArrives(n, m))
             \/ []<><<Update(n, VoteArrives(n, m))>>_vars
        /\ \A p \in Position : WF_vars(PullFrontierVotes(n, p))
        /\ \A p \in Position :
             \/ []<>(node[n] = SweepTick(n, p))
             \/ []<><<Update(n, SweepTick(n, p))>>_vars
        /\ \A p \in Position :
             \/ <>[](node[n] = QuarantineSweep(n, p))
             \/ []<><<Update(n, QuarantineSweep(n, p))>>_vars

FairSpec == Spec /\ Fairness

-----------------------------------------------------------------------------
(* The type of every field of every node's state. *)
TypeOK == node \in [Node -> NodeState]

(* Two nodes never finalize different blocks at one position. *)
Agreement ==
    \A n, m \in Node : \A b \in Finalized(node[n]), c \in Finalized(node[m]) :
        Pos(b) = Pos(c) => b = c

(* 67% of the weight is locked on b: no sibling of b can get as much. *)
Chosen(b) == ThresholdMet({r \in Node : node[r].lock[Pos(b)] = b})

(* Whatever a node finalizes, the ancestors that confirmConflict finalizes *)
(* with its winner included, was locked by 67% of the weight.              *)
FinalizedIsChosen == \A n \in Node : \A b \in Finalized(node[n]) : Chosen(b)

(* A final vote that left a node is bound by the lock of the node that     *)
(* signed it, unless it reaffirms a block the network has chosen.          *)
FinalVotesBound ==
    \A n \in Node : \A m \in node[n].sent :
        m.final => node[m.rep].lock[Pos(m.block)] = m.block \/ Chosen(m.block)

(* After any cascade, the chains of a node are chains: every block has its *)
(* parent and its source, no position is taken twice and no send is        *)
(* received twice.                                                         *)
LatticeWellFormed ==
    \A n \in Node : \A b \in node[n].chain :
        /\ Parents(b) \subseteq node[n].chain
        /\ \A c \in node[n].chain \ {b} :
             Pos(b) # Pos(c) /\ (Src[b] = None \/ Src[b] # Src[c])

(* Where candidates spread within the stability window, no two nodes lock  *)
(* different candidates, so no position is stuck without a quorum.         *)
NoLockSplit ==
    \A n, m \in Node, p \in Position :
        None \in {node[n].lock[p], node[m].lock[p]} \/ node[n].lock[p] = node[m].lock[p]

(* In the end every node has resolved every conflict and finalized its     *)
(* whole ledger.                                                           *)
EverythingSettles ==
    <>[](\A n \in Node :
           /\ node[n].chain # {}
           /\ node[n].chain = Finalized(node[n])
           /\ \A p \in Position : node[n].conflict[p] = {})

(* A quorum of final votes does not make a block final that the ledger     *)
(* refuses: its promotion fails, and it is quarantined.                    *)
OnlyValidFinalized == \A n \in Node : Finalized(node[n]) \subseteq FullyValid

(* The block that the locks of the network have decided a position for. *)
ChosenAt(p) ==
    IF \E b \in Block : Pos(b) = p /\ Chosen(b)
    THEN CHOOSE b \in Block : Pos(b) = p /\ Chosen(b)
    ELSE None

Ancestors(b) == Anc[b]

Promise ==
    INSTANCE FinalitySpec WITH
        chosen <- [p \in Position |-> ChosenAt(p)],
        final <- [n \in Node |-> Finalized(node[n])],
        PosOf <- Pos,
        ParentsOf <- Parents,
        AncestorsOf <- Ancestors

(* Conflict detection, votes, locks and promotion implement the one-shot   *)
(* choice per position that FinalitySpec promises.                         *)
ImplementsPromise == Promise!Spec

NoSubstitution == \A n \in Node : node[n].substituted = {}

=============================================================================
