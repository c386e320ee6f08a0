---------------------------- MODULE VoteManager ----------------------------
(***************************************************************************)
(* core/vote.go and core/finalization.go: how a representative votes on a  *)
(* position.  It converges on the lowest candidate it holds, locks that    *)
(* candidate durably once 67% of the weight stands behind it and no new    *)
(* candidate has turned up for the stability window, and then sends an     *)
(* irrevocable final vote.                                                 *)
(*                                                                         *)
(* n is the node, s its state, e what clock and disk contribute:           *)
(*   e.due     the re-vote backoff of the position has run out             *)
(*   e.window  the stability window has passed since the newest candidate  *)
(*   e.io      how the writes of a final vote go: "ok"; "vote", the lock   *)
(*             is written and storing the vote fails, or the process stops *)
(*             there; "sync", both are written and the sync fails, or ...  *)
(* `age' is the age of a conflict record: "stale" (10 s), "old" (30 s, the *)
(* phantom eviction delay) or "expired" (10 min, unretrievable phantoms).  *)
(*                                                                         *)
(* Abstracted: signatures and vote timestamps (a message is genuine; one   *)
(* older than the vote window is one that was never delivered) and the     *)
(* buffer for early votes, which ValidateVote leaves unreachable.          *)
(***************************************************************************)
EXTENDS QuorumManager

CONSTANT Faults   \* the faults that may happen, a subset of FaultKind

FaultKind == {"vote",     \* storing a final vote fails after the lock
              "sync",     \* a sync fails
              "stage",    \* staging a candidate's body fails
              "restart",  \* a process restarts
              "power"}    \* a machine loses what was not synced

ASSUME FaultAssumption == Faults \subseteq FaultKind

IO == {"ok", "vote", "sync"}

Env == [due : BOOLEAN, window : BOOLEAN, io : IO]

ConflictAge == {"stale", "old", "expired"}

HasVoteWeight(n) == WeightOf[{n}] > 0

PutVote(s, p, r, b, final) ==
    [s EXCEPT !.vote[p][r] = [block |-> b, final |-> final]]

Emit(s, n, b, final) ==
    [s EXCEPT !.sent = @ \cup {[rep |-> n, block |-> b, final |-> final]}]

OwnFinal(s, n, p) == s.vote[p][n] # None /\ s.vote[p][n].final

(* Mutant: the store is one that cannot sync, and nobody notices. *)
SyncSkipped(s) == s

(* A sync puts everything written so far on disk.  Where no power failure  *)
(* can follow, what is on disk does not matter and is not kept.            *)
Sync(s) == IF "power" \in Faults THEN [s EXCEPT !.disk = Store(s)] ELSE s

-----------------------------------------------------------------------------
GatherCandidates(s, p, seed) == seed \cup VotedBlocks(s, p) \cup s.conflict[p]

(* A held candidate not seen before restarts the stability window. *)
NewCandidates(s, p, cands) == (cands \cap Held(s)) \ s.seen[p]

NoteHeldCandidates(s, p, cands) ==
    [s EXCEPT !.seen[p] = @ \cup NewCandidates(s, p, cands)]

(* PutFinalVoteIfAbsent: the lock is written once and never changed. *)
PutFinalVoteIfAbsent(s, p, b) ==
    IF s.lock[p] = None THEN [s EXCEPT !.lock[p] = b] ELSE s

(* emitFinalLocked *)
EmitFinalLocked(s, n, p, target, e) ==
    LET t == PutFinalVoteIfAbsent(s, p, target)
        b == t.lock[p]
        v == PutVote(t, p, n, b, TRUE)
    IN  IF \/ b \notin Held(t)
           \/ ~DepsFinalized(t, b)
           \/ OwnFinal(t, n, p) /\ t.vote[p][n].block = b
           \/ e.io = "vote"
        THEN t
        ELSE IF e.io = "sync" THEN v
        ELSE Emit(Retally(Sync(v), p), n, b, TRUE)

(* Mutant: the lock does not wait for the stability window. *)
LockAtOnce(s, n, p, pref, stable, e) ==
    IF ThresholdMet(VotersFor(s, p, pref))
    THEN EmitFinalLocked(s, n, p, pref, e)
    ELSE s

(* maybeLockLocked: converging and final votes count alike here. *)
MaybeLock(s, n, p, pref, stable, e) ==
    IF ThresholdMet(VotersFor(s, p, pref)) /\ stable
    THEN EmitFinalLocked(s, n, p, pref, e)
    ELSE s

(* The converging vote, repeated when it is due or the preference moved. *)
Converge(s, n, p, pref, e) ==
    IF e.due \/ s.vote[p][n] # [block |-> pref, final |-> FALSE]
    THEN Emit(Retally(PutVote(s, p, n, pref, FALSE), p), n, pref, FALSE)
    ELSE s

(* Mutant: a final vote is sent once only. *)
NeverReEmit(s, n, p, e) == s

(* A final vote on file is sent again, once it is known to be on disk. *)
ReEmitFinal(s, n, p, e) ==
    IF e.due /\ e.io # "sync" THEN Emit(Sync(s), n, s.vote[p][n].block, TRUE) ELSE s

(* The vote of a node that is bound by no lock yet. *)
VoteFreely(s, n, p, seed, e) ==
    LET cands    == GatherCandidates(s, p, seed)
        t        == NoteHeldCandidates(s, p, cands)
        stable   == e.window /\ NewCandidates(s, p, cands) = {}
        eligible == cands \cap (Held(s) \cup s.conflict[p])
        pref     == Lowest(eligible)
    IN  IF eligible = {} \/ pref \notin Held(s) \/ ~DepsFinalized(s, pref)
        THEN t
        ELSE MaybeLock(Converge(t, n, p, pref, e), n, p, pref, stable, e)

(* castVoteLocked *)
CastVote(s, n, p, seed, e) ==
    IF ~HasVoteWeight(n) \/ PositionResolved(s, p) THEN s
    ELSE IF OwnFinal(s, n, p) THEN ReEmitFinal(s, n, p, e)
    ELSE IF s.lock[p] # None THEN EmitFinalLocked(s, n, p, s.lock[p], e)
    ELSE VoteFreely(s, n, p, seed, e)

-----------------------------------------------------------------------------
(* reaffirmFromState: a resolved position is answered with a final vote    *)
(* for the block this node finalized there, whatever it had locked.        *)
ReaffirmFromState(s, n, p, due) ==
    IF HasVoteWeight(n) /\ due /\ FinalizedChild(s, p) # {}
    THEN Emit(s, n, CHOOSE c \in FinalizedChild(s, p) : TRUE, TRUE)
    ELSE s

(* receiveVoteInner: a final vote on file is kept, any other replaced. *)
ReceiveVoteInner(s, m) ==
    LET p == Pos(m.block)
    IN  IF OwnFinal(s, m.rep, p) THEN s
        ELSE Retally(PutVote(s, p, m.rep, m.block, m.final), p)

(* ReceiveVote: storing a vote also clears the re-vote backoff. *)
ReceiveVote(s, n, m, e) ==
    LET p == Pos(m.block)
        d == [e EXCEPT !.due = @ \/ ~OwnFinal(s, m.rep, p)]
    IN  IF PositionResolved(s, p) THEN ReaffirmFromState(s, n, p, e.due)
        ELSE CastVote(ReceiveVoteInner(s, m), n, p, {}, d)

(* VotesForPosition, the answer to a vote pull: the votes on file (those   *)
(* of others were sent by them before), and for a finalized position a     *)
(* fresh final vote of this node.                                          *)
VotesForPosition(s, n, p) ==
    LET own   == IF s.vote[p][n] = None THEN s
                 ELSE Emit(s, n, s.vote[p][n].block, s.vote[p][n].final)
    IN  IF FinalizedChild(s, p) # {} /\ ~OwnFinal(s, n, p)
        THEN ReaffirmFromState(own, n, p, TRUE)
        ELSE own

(* sweepStaleConflicts, for one record: clean it up, or rid it of phantoms *)
(* (once it is old enough), vote again and tally.                          *)
SweepConflict(s, n, p, age, e) ==
    LET evict == age # "stale" /\ Phantoms(s, p) # {}
        late  == age = "expired"
        t     == IF evict THEN EvictPhantomsAndResolve(s, p, late) ELSE s
    IN  IF FinalizedChild(s, p) # {} THEN DropResolved(s, p)
        ELSE IF ConflictOrphaned(s, p) THEN DropOrphaned(s, p)
        ELSE IF evict /\ ~FullyLoaded(s, p, late) THEN t
        ELSE Retally(CastVote(t, n, p, {}, e), p)
=============================================================================
