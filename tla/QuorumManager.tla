--------------------------- MODULE QuorumManager ---------------------------
(***************************************************************************)
(* core/quorum.go: the tally of final votes for a position and what        *)
(* confirming its winner does to the ledger.  Every operator maps the      *)
(* state of one node to its next state; the handlers that call them are in *)
(* VoteManager and Finality.                                               *)
(*                                                                         *)
(* Abstracted: the log lines (withheld finalization), and the clock.  What *)
(* depends on the clock (the age of a conflict, the end of a quarantine)   *)
(* is a parameter or an action of its own.                                 *)
(***************************************************************************)
EXTENDS BlockLattice

(* The hash that sorts first. *)
Lowest(S) == CHOOSE h \in S : \A g \in S : h <= g

VotersFor(s, p, b) ==
    {r \in Node : s.vote[p][r] # None /\ s.vote[p][r].block = b}

(* Mutant: the tally counts converging votes too. *)
AnyVotersFor(s, p, b) == VotersFor(s, p, b)

FinalVotersFor(s, p, b) == {r \in VotersFor(s, p, b) : s.vote[p][r].final}

VotedBlocks(s, p) ==
    {s.vote[p][r].block : r \in {q \in Node : s.vote[p][q] # None}}

(* Mutant: a third of the weight is enough. *)
ThirdMet(S) == WeightOf[S] * 100 >= WeightOf[Node] * 33

(* 67 of every 100 units of the whole delegated weight. *)
ThresholdMet(S) == WeightOf[S] * 100 >= WeightOf[Node] * 67

(* Everything the tally may call a candidate: voted for, or on record. *)
CandidateSet(s, p) == VotedBlocks(s, p) \cup s.conflict[p]

(* Can h be finalized at p as it is, or by promoting its staged body? *)
Promotable(s, h) ==
    \/ h \in s.chain
    \/ /\ h \notin s.quarantine
       /\ h \in s.staged
       /\ ValidateStagedBlock(s, h)

(* The blocks whose final votes reach the threshold, body at hand. *)
QuorumBlocks(s, p) ==
    {b \in VotedBlocks(s, p) :
        b \in Held(s) /\ Pos(b) = p /\ ThresholdMet(FinalVotersFor(s, p, b))}

PrevFinalized(s, p) == p[2] = Root \/ IsFinalized(s, p[2])

(* pickWinner: an unpromotable winner over a finalized parent gives way to *)
(* the lowest promotable candidate, if there is one.                       *)
PickWinner(s, p, h) ==
    LET others == {c \in CandidateSet(s, p) : Promotable(s, c)}
    IN  IF ~PrevFinalized(s, p) \/ Promotable(s, h) THEN h
        ELSE IF others = {} THEN None
        ELSE Lowest(others)

FinalTally(s, p) ==
    LET winners == {h \in QuorumBlocks(s, p) : PickWinner(s, p, h) # None}
    IN  IF winners = {} THEN None ELSE PickWinner(s, p, Lowest(winners))

-----------------------------------------------------------------------------
(* Mutant: the position is left without an entry for any representative. *)
ClearEntry(s, p) == [s EXCEPT !.vote[p] = [r \in {} |-> None]]

ClearVotes(s, p) == [s EXCEPT !.vote[p] = [r \in Node |-> None]]

(* cleanupResolvedConflict: bodies, votes and record of the position go. *)
CleanupResolvedConflict(s, p, w, cands) ==
    [ClearVotes(s, p) EXCEPT !.staged = @ \ ({w} \cup cands),
                             !.conflict[p] = {}]

(* The final height moves up to a winner that is on the chain, and with it *)
(* every ancestor becomes final.                                           *)
AdvanceFinalHeight(s, w) ==
    IF w \in s.chain /\ Height[w] > s.finalHeight[Acct[w]]
    THEN [s EXCEPT !.finalHeight[Acct[w]] = Height[w]]
    ELSE s

FinalizeWinner(s, p, w, cands) ==
    CleanupResolvedConflict(AdvanceFinalHeight(s, w), p, w, cands)

(* appendStagedWinner: no candidate is on the chain; the winner extends it *)
(* if it fits now and is left for later if it does not.                    *)
AppendStagedWinner(s, p, w, cands) ==
    IF FitsChain(s, s.chain, w) /\ w \in FullyValid
    THEN FinalizeWinner(Attach(s, w), p, w, cands)
    ELSE s

(* Mutant: the winner is swapped in without full validation. *)
SwapUnvalidated(s, p, l, w, cands) ==
    LET t == [s EXCEPT !.staged = @ \cup {l}]
    IN  IF CanSwap(t, l, w) THEN FinalizeWinner(Swap(t, l, w), p, w, cands) ELSE t

(* The winner displaces candidate l.  l's body is staged before the swap   *)
(* is tried; a winner that fits but is invalid is quarantined.             *)
SwapInWinner(s, p, l, w, cands) ==
    LET t == [s EXCEPT !.staged = @ \cup {l}]
    IN  IF ~CanSwap(t, l, w) THEN t
        ELSE IF w \in FullyValid THEN FinalizeWinner(Swap(t, l, w), p, w, cands)
        ELSE [t EXCEPT !.quarantine = @ \cup {w}]

(* confirmConflict *)
ConfirmConflict(s, p, w) ==
    LET cands  == CandidateSet(s, p)
        losers == (cands \ {w}) \cap ChildAt(s, p)
    IN  IF IsFinalized(s, w) THEN CleanupResolvedConflict(s, p, w, cands)
        ELSE IF w \notin s.staged \/ w \in s.chain
             THEN FinalizeWinner(s, p, w, cands)
        ELSE IF ~ValidateStagedBlock(s, w) THEN s
        ELSE IF losers = {} THEN AppendStagedWinner(s, p, w, cands)
        ELSE SwapInWinner(s, p, CHOOSE l \in losers : TRUE, w, cands)

NoteSubstitution(s, p, w) ==
    IF w \in QuorumBlocks(s, p) THEN s
    ELSE [s EXCEPT !.substituted = @ \cup {p}]

(* Retally *)
Retally(s, p) ==
    LET w == FinalTally(s, p)
    IN  IF w = None THEN s ELSE ConfirmConflict(NoteSubstitution(s, p, w), p, w)

-----------------------------------------------------------------------------
(* dropConflictIfResolved: the winner of an open record is already final. *)
DropResolved(s, p) ==
    LET w == CHOOSE c \in FinalizedChild(s, p) : TRUE
    IN  CleanupResolvedConflict(s, p, w, s.conflict[p])

(* Mutant: no record is taken for orphaned. *)
NeverOrphaned(s, p) == FALSE

(* conflictOrphanedByRollback: the position left the chain with a rollback *)
(* that took a candidate along.                                            *)
ConflictOrphaned(s, p) ==
    /\ IF p[2] = Root THEN \A c \in s.chain : Acct[c] # p[1]
                      ELSE p[2] \notin s.chain
    /\ s.conflict[p] \cap s.chain = {}
    /\ s.conflict[p] \cap Undone(s) # {}

DropOrphaned(s, p) == [ClearVotes(s, p) EXCEPT !.conflict[p] = {}]

(* evictPhantomsAndResolve: candidates without a body are dropped from the *)
(* record, unless votes name them and they may still be retrieved.         *)
Phantoms(s, p) == s.conflict[p] \ Held(s)

RetainedPhantoms(s, p, timedOut) ==
    IF timedOut /\ s.conflict[p] \cap Held(s) # {} THEN {}
    ELSE Phantoms(s, p) \cap VotedBlocks(s, p)

EvictPhantomsAndResolve(s, p, timedOut) ==
    LET real == s.conflict[p] \cap Held(s)
        kept == real \cup RetainedPhantoms(s, p, timedOut)
        t    == [s EXCEPT !.conflict[p] = kept]
    IN  IF Cardinality(real) # 1 THEN t
        ELSE IF \E b \in real : IsFinalized(s, b) THEN DropOrphaned(s, p)
        ELSE Retally(t, p)

(* The sweep goes on to vote and tally only when no phantom is left and    *)
(* the record holds a choice.                                              *)
FullyLoaded(s, p, timedOut) ==
    \/ Phantoms(s, p) = {}
    \/ /\ Cardinality(s.conflict[p] \cap Held(s)) > 1
       /\ RetainedPhantoms(s, p, timedOut) = {}
=============================================================================
