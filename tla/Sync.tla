-------------------------------- MODULE Sync --------------------------------
(***************************************************************************)
(* How a node catches up with its peers (net/sync.go): it sends a peer the *)
(* frontier of every account, the peer answers with the blocks above them, *)
(* and the node adds those, trying again what may become valid and keeping *)
(* a list of what never will.  A tracker decides when to ask again.        *)
(*                                                                         *)
(* The ledger of a node is the one of BlockLattice.  Which siblings are    *)
(* final is decided by votes (Finality); here Winner names them and        *)
(* Finalize lets a node learn it.                                          *)
(***************************************************************************)
EXTENDS BlockLattice, SequencesExt

CONSTANTS
    Client,           \* nodes whose sync loop is modelled; the others serve
    Home,             \* Home[b]: the node that b is submitted to
    Winner,           \* one block per position: the one that votes finalize
    Gated,            \* blocks of a type that needs an activated feature
    Unstageable,      \* blocks of a type that ValidateStagedBlock has no case for
    Mints,            \* mint blocks: only keys under sys.minter may issue them
    Rotates,          \* multisig_open and multisig_update blocks: they set a keyset
    SignedFor,        \* SignedFor[b]: the keysets b is signed for, each named by the
                      \* block that sets it, and None for the account's own key;
                      \* a multisig_open brings its keyset and names them all
    PageSize,         \* blocks per page, 64
    MaxServerBlocks,  \* blocks per answer, 10000
    DropThreshold,    \* rejections before an account's frontier is left out
    MaxRetries,       \* passes over the blocks of one answer, 10
    MaxQuarantine,    \* entries of the quarantine, 8192
    Slot,             \* bound: requests to one peer that are under way at a time
    MaxFaults         \* bound: streams, connections and processes that fail, and
                      \* rounds that overtake a request

ASSUME SyncAssumption ==
    /\ Client \subseteq Node
    /\ Home \in [Block -> Node]
    /\ Winner \subseteq FullyValid
    /\ \A b, c \in Winner : Pos(b) = Pos(c) => b = c
    /\ Gated \subseteq Unstageable /\ Unstageable \subseteq Block
    /\ Mints \subseteq Block /\ Mints \cap Gated = {}
    /\ Rotates \subseteq Block
    /\ SignedFor \in [Block -> SUBSET (Rotates \cup {None})]
    /\ IsFiniteSet(Slot) /\ Slot # {}
    /\ {PageSize, MaxServerBlocks, DropThreshold, MaxRetries, MaxQuarantine}
          \subseteq Nat \ {0}

VARIABLES
    node,        \* node[n]: what sync reads and changes of a NodeState
    active,      \* nodes whose state chain has the feature's activation and the minter
    sent,        \* blocks that were published
    linked,      \* nodes a client is connected to, per client
    tracker,     \* per client: syncTracker and the two rate limiters
    quarantine,  \* per client: blockQuarantine
    session,     \* per client, peer and slot: a requestSync that is under way
    faults       \* failures so far

vars == <<node, active, sent, linked, tracker, quarantine, session, faults>>

-----------------------------------------------------------------------------
(* The ledger as sync sees it. *)

EmptyLedger ==
    [chain |-> {}, known |-> {}, staged |-> {},
     conflict |-> InitDisk.conflict, finalHeight |-> InitDisk.finalHeight]

ChainOf(s, a) == {b \in s.chain : Acct[b] = a}

(* An account's blocks in order. *)
GetChain(s, a) ==
    [h \in 1..Cardinality(ChainOf(s, a)) |-> CHOOSE b \in ChainOf(s, a) : Height[b] = h]

Frontiers(s) ==
    [a \in {Acct[b] : b \in s.chain} |->
        CHOOSE b \in ChainOf(s, a) : \A c \in ChainOf(s, a) : Height[c] <= Height[b]]

HasConflict(s, a) == \E p \in Position : p[1] = a /\ s.conflict[p] # {}

(* The keyset of a chain: the one that its highest open or update sets. *)
KeysetOf(chain) ==
    IF chain \cap Rotates = {} THEN None
    ELSE CHOOSE b \in chain \cap Rotates : \A c \in chain \cap Rotates : Height[c] <= Height[b]

(* verifyBlockCredential: without a chain neither the keyset nor the key   *)
(* of the account is known, except that a first block names its own key.   *)
Unopened(s, b) ==
    ChainOf(s, Acct[b]) = {} /\ (Prev[b] # Root \/ None \notin SignedFor[b])

BadCredential(s, b) ==
    LET chain == ChainOf(s, Acct[b]) IN chain # {} /\ KeysetOf(chain) \notin SignedFor[b]

Credible(s, b) == ~Unopened(s, b) /\ ~BadCredential(s, b)

(* FeatureActive and isMinter, for the blocks that need them. *)
GateOpen(n, b) == b \in Gated => n \in active
IsMinter(n, b) == b \in Mints => n \in active

(* addBlock, its conflict branch: the sibling's body is staged. *)
Stages(n, s, b) ==
    CanStage(s, b) /\ Credible(s, b) /\ b \notin Unstageable /\ IsMinter(n, b)

(* addBlock, the append. *)
Appends(n, s, b) == CanAppend(s, b) /\ Credible(s, b) /\ GateOpen(n, b) /\ IsMinter(n, b)

(* addBlock says nil: the block is known, staged or on its chain. *)
Accepts(n, s, b) == b \in s.known \/ Stages(n, s, b) \/ Appends(n, s, b)

(* Errors that are not on the list of IsRetryableError, in the order in    *)
(* which addBlock meets them: the signatures are not those of the keyset   *)
(* the account has now; the position is final or no case stages the block; *)
(* the account is not a minter; the content is not valid.                  *)
Hopeless(n, s, b) ==
    /\ ~Unopened(s, b)
    /\ \/ BadCredential(s, b)
       \/ /\ ChildAt(s, Pos(b)) # {}
          /\ FinalizedChild(s, Pos(b)) # {} \/ b \in Unstageable \/ ~IsMinter(n, b)
       \/ /\ ChildAt(s, Pos(b)) = {} /\ ~HasConflict(s, Acct[b])
          /\ \/ ~IsMinter(n, b)
             \/ GateOpen(n, b) /\ FitsChain(s, s.chain, b) /\ b \notin FullyValid

GatedTerminal(n, s, b) ==        \* mutant: "not yet activated" is not on the list
    b \notin s.known /\ (Hopeless(n, s, b) \/ ~GateOpen(n, b))

Terminal(n, s, b) == b \notin s.known /\ Hopeless(n, s, b)

AddSyncedBlock(n, s, b) ==
    IF b \in s.known \/ ~Accepts(n, s, b) THEN s
    ELSE IF Stages(n, s, b) THEN StageCandidate(s, b)
    ELSE Attach(s, b)

(* Votes decide a position (Finality): the winner goes final where its     *)
(* parents are, appended to the chain or in place of its sibling there if  *)
(* need be.                                                                *)
Decided(s, w) ==
    LET losers == ChildAt(s, Pos(w)) \ {w}
        t == IF losers = {} THEN Attach(s, w)
             ELSE Swap(s, CHOOSE l \in losers : TRUE, w)
    IN [t EXCEPT !.finalHeight[Acct[w]] = Height[w],
                 !.conflict[Pos(w)] = {},
                 !.staged = @ \ s.conflict[Pos(w)]]

-----------------------------------------------------------------------------
(* syncTracker *)

NoRejections == [m \in Node |-> [a \in Account |-> 0]]

NewTracker ==
    [dirty      |-> TRUE,
     due        |-> TRUE,     \* fullResyncInterval since lastFullResync is over
     ticking    |-> FALSE,    \* a round has asked peers and not yet cleared dirty
     last       |-> [m \in Node |-> None],    \* lastFrontiers
     rejections |-> NoRejections,
     incapable  |-> {},       \* syncIncapable
     cooling    |-> {}]       \* outbound limiter: peers asked on connecting

MarkDirty(t) == [t EXCEPT !.dirty = TRUE]

NoFullResync(t, m, frontiers) ==    \* mutant
    m \notin t.incapable /\ (t.dirty \/ t.last[m] # frontiers)

ShouldSync(t, m, frontiers) ==
    /\ m \notin t.incapable
    /\ t.due \/ t.dirty \/ t.last[m] # frontiers

ClearDirty(t) == [t EXCEPT !.dirty = FALSE, !.due = FALSE, !.ticking = FALSE]

RecordSync(t, m, frontiers) == [t EXCEPT !.last[m] = frontiers]

RemovePeer(t, m) ==
    [t EXCEPT !.last[m] = None, !.rejections[m] = NoRejections[m],
              !.incapable = @ \ {m}]

(* The recovery path: a frontier that the peer keeps rejecting is left out, *)
(* and the peer sends the whole chain.                                      *)
NeverDrops(t, m, frontiers) == frontiers    \* mutant

FilterFrontiers(t, m, frontiers) ==
    [a \in {x \in DOMAIN frontiers : t.rejections[m][x] < DropThreshold} |-> frontiers[a]]

RecordRejections(t, m, rejected) ==
    [t EXCEPT !.rejections[m] =
        [a \in Account |-> IF a \in rejected THEN @[a] + 1 ELSE 0]]

(* blockQuarantine.add: the oldest entry makes room. *)
AddQuarantine(q, b) ==
    IF b \in ToSet(q) THEN q
    ELSE IF Len(q) >= MaxQuarantine THEN Append(Tail(q), b) ELSE Append(q, b)

-----------------------------------------------------------------------------
(* The server: findMissingBlocksPaginated *)

Unrecognized(s, frontiers, a) ==
    a \in DOMAIN frontiers /\ frontiers[a] \notin ChainOf(s, a)

Missing(s, frontiers, a) ==
    LET chain == GetChain(s, a)
    IN IF a \notin DOMAIN frontiers THEN chain
       ELSE IF Unrecognized(s, frontiers, a) THEN <<>>
       ELSE SelectSeq(chain, LAMBDA b : Height[b] > Height[frontiers[a]])

(* The accounts come in the order of a map, that is in any order. *)
Served(s, frontiers, order) ==
    LET parts   == [i \in DOMAIN order |-> Missing(s, frontiers, order[i])]
        all     == FlattenSeq(parts)
        before(i) == Len(FlattenSeq(SubSeq(parts, 1, i - 1)))
        blocks  == SubSeq(all, 1, IF Len(all) < MaxServerBlocks THEN Len(all)
                                  ELSE MaxServerBlocks)
        rejected == {order[i] : i \in {j \in DOMAIN order :
                        before(j) < MaxServerBlocks /\ Unrecognized(s, frontiers, order[j])}}
    IN [blocks |-> blocks, rejected |-> rejected,
        terminal |-> Len(blocks) % PageSize # 0 \/ rejected # {}]

(* frontiersWhereServerIsBehind *)
ServerIsBehind(s, frontiers) ==
    \E a \in DOMAIN frontiers : ChainOf(s, a) # {} /\ frontiers[a] \notin ChainOf(s, a)
-----------------------------------------------------------------------------
(* A request that is under way. *)

Idle == [phase |-> "idle", frontiers |-> <<>>, pending |-> <<>>,
         retryable |-> <<>>, size |-> 0, round |-> 0]

Spawned == [Idle EXCEPT !.phase = "spawned"]

Call == Node \X Slot
Calls(n) == {c \in Call : c[1] # n}

(* A round or a new connection starts a request, in a slot that is free. *)
Free(n, m) == {k \in Slot : session[n][<<m, k>>] = Idle}
NewCall(n, m) == <<m, CHOOSE k \in Free(n, m) : TRUE>>

(* One pass over `blocks`; the last pass puts nothing aside. *)
Pass(phase, blocks, round) ==
    [Idle EXCEPT !.phase = phase, !.pending = blocks, !.size = Len(blocks),
                 !.round = round]

Init ==
    /\ node = [n \in Node |-> EmptyLedger]
    /\ active = Node \ Client    \* clients have yet to read the activation
    /\ sent = {}
    /\ linked = [n \in Client |-> {}]
    /\ tracker = [n \in Node |-> NewTracker]
    /\ quarantine = [n \in Client |-> <<>>]
    /\ session = [n \in Client |-> [c \in Call |-> Idle]]
    /\ faults = 0

-----------------------------------------------------------------------------
(* What the rest of the node does to the ledger. *)

AddBlock(n, b) ==
    /\ Accepts(n, node[n], b)
    /\ node' = [node EXCEPT ![n] = AddSyncedBlock(n, @, b)]
    /\ tracker' = [tracker EXCEPT ![n] = MarkDirty(@)]

(* SubmitBlock: the block is committed, then published. *)
SubmitBlock(n, b) ==
    /\ Home[b] = n /\ b \notin sent
    /\ AddBlock(n, b)
    /\ sent' = sent \cup {b}
    /\ UNCHANGED <<active, linked, quarantine, session, faults>>

(* handleIncoming: gossip delivers a block, late, again or never. *)
HandleIncoming(n, b) ==
    /\ b \in sent /\ Home[b] # n
    /\ AddBlock(n, b)
    /\ UNCHANGED <<active, sent, linked, quarantine, session, faults>>

(* pullPhantomBlocks: a vote named b, and a peer that holds it sends it. *)
PullPhantomBlock(n, m, b) ==
    /\ m \in linked[n] /\ b \in Held(node[m]) \ Held(node[n])
    /\ AddBlock(n, b)
    /\ UNCHANGED <<active, sent, linked, quarantine, session, faults>>

(* The votes for b reach their quorum at n (module Finality). *)
CanFinalize(n, b) ==
    LET s == node[n] IN
    /\ b \in Winner /\ b \in s.chain \cup s.staged
    /\ ~IsFinalized(s, b) /\ DepsFinalized(s, b)
    /\ b \in s.chain \/ IsMinter(n, b)
    /\ ChildAt(s, Pos(b)) = {} => FitsChain(s, s.chain, b)
    /\ \A l \in ChildAt(s, Pos(b)) \ {b} : CanSwap(s, l, b)

Finalize(n, b) ==
    /\ CanFinalize(n, b)
    /\ node' = [node EXCEPT ![n] = Decided(node[n], b)]
    /\ UNCHANGED <<active, sent, linked, tracker, quarantine, session, faults>>

(* The state chain of n reaches the activation (module StateChain). *)
Activate(n) ==
    /\ n \notin active
    /\ active' = active \cup {n}
    /\ UNCHANGED <<node, sent, linked, tracker, quarantine, session, faults>>

-----------------------------------------------------------------------------
(* When a node asks. *)

Fault == faults < MaxFaults /\ faults' = faults + 1

(* The periodic round: the limiter's token is taken before the tracker is  *)
(* asked.  The round's period exceeds syncCooldown, so only a token taken  *)
(* on connecting may still be out (held).  A request may outlast the       *)
(* period, so that the peer is asked again meanwhile: such rounds count    *)
(* among the faults, which bounds them.                                    *)
Tick(n, held) ==
    LET t     == tracker[n]
        asked == {m \in linked[n] \ held : ShouldSync(t, m, Frontiers(node[n]))}
        calls == {NewCall(n, m) : m \in asked}
    IN  /\ ~t.ticking
        /\ \A m \in asked : Free(n, m) # {}
        /\ IF \A m \in asked : Free(n, m) = Slot THEN UNCHANGED faults ELSE Fault
        /\ tracker' = [tracker EXCEPT ![n].cooling = {},
                                      ![n].ticking = (asked # {})]
        /\ session' = [session EXCEPT ![n] =
                         [c \in Call |-> IF c \in calls THEN Spawned ELSE @[c]]]
        /\ UNCHANGED <<node, active, sent, linked, quarantine>>

(* The round ends with clearDirty: what was marked meanwhile is forgotten. *)
TickEnds(n) ==
    /\ tracker[n].ticking
    /\ tracker' = [tracker EXCEPT ![n] = ClearDirty(@)]
    /\ UNCHANGED <<node, active, sent, linked, quarantine, session, faults>>

(* ConnectedF: asks without the tracker, unless the limiter remembers a    *)
(* request to the peer over an earlier connection.                         *)
Connect(n, m, allowed) ==
    /\ m \notin linked[n]
    /\ allowed \/ faults > 0
    /\ linked' = [linked EXCEPT ![n] = @ \cup {m}]
    /\ IF ~allowed THEN UNCHANGED <<tracker, session>>
       ELSE /\ Free(n, m) # {}
            /\ tracker' = [tracker EXCEPT ![n].cooling = @ \cup {m}]
            /\ session' = [session EXCEPT ![n][NewCall(n, m)] = Spawned]
    /\ UNCHANGED <<node, active, sent, quarantine, faults>>

(* fullResyncInterval and syncReprobeInterval run out. *)
FullResyncDue(n) ==
    /\ ~tracker[n].due
    /\ tracker' = [tracker EXCEPT ![n].due = TRUE]
    /\ UNCHANGED <<node, active, sent, linked, quarantine, session, faults>>

ReprobeDue(n, m) ==
    /\ m \in tracker[n].incapable
    /\ tracker' = [tracker EXCEPT ![n].incapable = @ \ {m}]
    /\ UNCHANGED <<node, active, sent, linked, quarantine, session, faults>>

-----------------------------------------------------------------------------
(* requestSync, one call of it. *)

Ask(n, c) ==
    /\ session[n][c].phase = "spawned"
    /\ session' = [session EXCEPT ![n][c].phase = "asked",
            ![n][c].frontiers = FilterFrontiers(tracker[n], c[1], Frontiers(node[n]))]
    /\ UNCHANGED <<node, active, sent, linked, tracker, quarantine, faults>>

(* handleSyncStream at c's peer, and what n does with the pages. *)
Serve(n, c, order) ==
    LET m         == c[1]
        frontiers == session[n][c].frontiers
        answer    == Served(node[m], frontiers, order)
        fresh     == SelectSeq(answer.blocks, LAMBDA b : b \notin ToSet(quarantine[n]))
        client(t) == IF answer.terminal THEN RecordRejections(t, m, answer.rejected) ELSE t
        server(t) == IF ServerIsBehind(node[m], frontiers) THEN MarkDirty(t) ELSE t
    IN  /\ session[n][c].phase = "asked"
        /\ tracker' = [tracker EXCEPT ![n] = client(@), ![m] = server(@)]
        /\ session' = [session EXCEPT ![n][c] = Pass("adding", fresh, 1)]
        /\ UNCHANGED <<node, active, sent, linked, quarantine, faults>>

AddNext(n, c) ==
    LET e == session[n][c]
        b == Head(e.pending)
        retry == /\ e.phase = "adding" /\ ~Accepts(n, node[n], b)
                 /\ ~Terminal(n, node[n], b)
    IN  /\ e.phase \in {"adding", "last"} /\ e.pending # <<>>
        /\ node' = [node EXCEPT ![n] = AddSyncedBlock(n, @, b)]
        /\ quarantine' = IF e.phase = "adding" /\ Terminal(n, node[n], b)
                         THEN [quarantine EXCEPT ![n] = AddQuarantine(@, b)]
                         ELSE quarantine
        /\ session' = [session EXCEPT
               ![n][c].pending = Tail(@),
               ![n][c].retryable = IF retry THEN Append(@, b) ELSE @]
        /\ UNCHANGED <<active, sent, linked, tracker, faults>>

(* The pass is over: again while it helps, at most maxRetries times, and   *)
(* once more for what is left.                                             *)
NextPass(n, c) ==
    LET e == session[n][c]
        again == Len(e.retryable) < e.size /\ e.round < MaxRetries
    IN  /\ e.phase = "adding" /\ e.pending = <<>> /\ e.retryable # <<>>
        /\ session' = [session EXCEPT ![n][c] =
              IF again THEN Pass("adding", e.retryable, e.round + 1)
              ELSE Pass("last", e.retryable, 0)]
        /\ UNCHANGED <<node, active, sent, linked, tracker, quarantine, faults>>

Finish(n, c) ==
    LET e == session[n][c] IN
    /\ e.phase \in {"adding", "last"} /\ e.pending = <<>> /\ e.retryable = <<>>
    /\ session' = [session EXCEPT ![n][c] = Idle]
    /\ tracker' = [tracker EXCEPT ![n] = RecordSync(@, c[1], Frontiers(node[n]))]
    /\ UNCHANGED <<node, active, sent, linked, quarantine, faults>>

-----------------------------------------------------------------------------
(* What goes wrong. *)

Waiting(n, c) == session[n][c].phase \in {"spawned", "asked"}

(* A stream breaks or times out. *)
StreamFails(n, c) ==
    /\ Fault /\ Waiting(n, c)
    /\ session' = [session EXCEPT ![n][c] = Idle]
    /\ UNCHANGED <<node, active, sent, linked, tracker, quarantine>>

(* The peer's limiter refuses: it closes the stream, which reads as an     *)
(* answer without blocks, and the request counts as done.                  *)
Refused(n, c) ==
    /\ Fault /\ session[n][c].phase = "asked"
    /\ session' = [session EXCEPT ![n][c] = Pass("adding", <<>>, 1)]
    /\ UNCHANGED <<node, active, sent, linked, tracker, quarantine>>

(* The peer does not serve the protocol, not yet or not now. *)
NotSupported(n, c) ==
    /\ Fault /\ session[n][c].phase = "spawned"
    /\ session' = [session EXCEPT ![n][c] = Idle]
    /\ tracker' = [tracker EXCEPT ![n].incapable = @ \cup {c[1]}]
    /\ UNCHANGED <<node, active, sent, linked, quarantine>>

Disconnect(n, m) ==
    /\ Fault /\ m \in linked[n]
    /\ linked' = [linked EXCEPT ![n] = @ \ {m}]
    /\ tracker' = [tracker EXCEPT ![n] = RemovePeer(@, m)]
    /\ session' = [session EXCEPT ![n] =
         [c \in Call |-> IF c[1] = m /\ Waiting(n, c) THEN Idle ELSE @[c]]]
    /\ UNCHANGED <<node, active, sent, quarantine>>

(* Everything but the store is lost with the process. *)
Restart(n) ==
    /\ Fault
    /\ tracker' = [tracker EXCEPT ![n] = NewTracker]
    /\ linked' = [linked EXCEPT ![n] = {}]
    /\ quarantine' = [quarantine EXCEPT ![n] = <<>>]
    /\ session' = [session EXCEPT ![n] = [c \in Call |-> Idle]]
    /\ UNCHANGED <<node, active, sent>>

-----------------------------------------------------------------------------
(* The accounts of m's ledger in the orders a map may list them. *)
Orders(m) == SetToSeqs(DOMAIN Frontiers(node[m]))

Request(n, c) ==
    \/ Ask(n, c)
    \/ \E order \in Orders(c[1]) : Serve(n, c, order)
    \/ AddNext(n, c) \/ NextPass(n, c) \/ Finish(n, c)

Round(n) == \E held \in {{}, tracker[n].cooling} : Tick(n, held)

Next ==
    \/ \E n \in Node, b \in Block :
          SubmitBlock(n, b) \/ HandleIncoming(n, b) \/ Finalize(n, b)
    \/ \E n \in Node : Activate(n)
    \/ \E n \in Client : Round(n) \/ TickEnds(n) \/ FullResyncDue(n) \/ Restart(n)
    \/ \E n \in Client : \E m \in Node \ {n} :
          \/ \E allowed \in BOOLEAN : Connect(n, m, allowed)
          \/ ReprobeDue(n, m) \/ Disconnect(n, m)
          \/ \E b \in Block : PullPhantomBlock(n, m, b)
    \/ \E n \in Client : \E c \in Calls(n) :
          Request(n, c) \/ StreamFails(n, c) \/ Refused(n, c) \/ NotSupported(n, c)

(* A round would change nothing, or waits for a request within the bounds. *)
Settled(n) ==
    LET t     == tracker[n]
        asked == {m \in linked[n] : ShouldSync(t, m, Frontiers(node[n]))}
    IN  \/ t.ticking
        \/ asked = {} /\ t.cooling = {}
        \/ \E m \in asked : Free(n, m) # Slot /\ (Free(n, m) = {} \/ faults = MaxFaults)

(* Goroutines run, timers expire, the bootstrap watchdog reconnects,       *)
(* votes and the state chain arrive.  Gossip and pulls may all be lost.    *)
(* Weak fairness of Activate, Finalize, Round, TickEnds, FullResyncDue,    *)
(* Connect, ReprobeDue and Request, written out: what an action would      *)
(* change is changed time and again.                                       *)
Fairness ==
    /\ \A n \in Node : []<>(n \in active)
    /\ \A n \in Node, b \in Block : []<>~CanFinalize(n, b)
    /\ \A n \in Client :
         []<>Settled(n) /\ []<>~tracker[n].ticking /\ []<>tracker[n].due
    /\ \A n \in Client : \A m \in Node \ {n} :
         /\ []<>(m \in linked[n] \/ (Free(n, m) = {} /\ faults = 0))
         /\ []<>(m \notin tracker[n].incapable)
    /\ \A n \in Client : \A c \in Calls(n) : []<>(session[n][c] = Idle)

Spec == Init /\ [][Next]_vars

FairSpec == Spec /\ Fairness

-----------------------------------------------------------------------------
(* A block that no state of a node refuses for good, unless its position   *)
(* is lost: its signatures satisfy every keyset its account can have, no   *)
(* minter is asked for, and it can be staged if there is a sibling.        *)
Keysets(a) ==
    {b \in Rotates : Acct[b] = a} \cup
    (IF \A b \in Block : Acct[b] = a /\ Prev[b] = Root => b \in Rotates THEN {} ELSE {None})

Steady(b) ==
    /\ Keysets(Acct[b]) \subseteq SignedFor[b]
    /\ b \notin Mints
    /\ b \in Unstageable => \A c \in Block : Pos(c) = Pos(b) => c = b

(* The types, with the bounds the code keeps: an account that a peer keeps *)
(* rejecting is left out of requests once its count is at the threshold    *)
(* (filterFrontiers), so only the requests that were then under way take   *)
(* it further, and the quarantine does not outgrow its limit.              *)
SyncTypeOK ==
    /\ \A n \in Node :
         /\ node[n].chain \subseteq node[n].known
         /\ tracker[n].rejections \in
                 [Node -> [Account -> 0..(DropThreshold - 1 + Cardinality(Slot))]]
         /\ \A m \in Node : tracker[n].last[m] \in
                 {None} \cup UNION {[A -> Block] : A \in SUBSET Account}
    /\ \A n \in Client :
         /\ Len(quarantine[n]) <= MaxQuarantine
         /\ \A c \in Call : session[n][c].round <= MaxRetries

(* What a node has put on its block list (requestSync) it never needs, if  *)
(* the block is steady: no such block that the network makes final is ever *)
(* there, whatever the node had or lacked when the block came.             *)
QuarantineSound ==
    \A n \in Client : \A b \in ToSet(quarantine[n]) \cap Winner : ~Steady(b)

(* docs/api.md on the retryable flag: a dependency that has not been       *)
(* synced on this node makes a refusal transient.  Then no block is listed *)
(* that the network makes final.                                           *)
TransientNotListed == \A n \in Client : ToSet(quarantine[n]) \cap Winner = {}

(* Every node that is connected catches up, by sync alone, time and again: *)
(* it has on its chain each block that is final anywhere, if the block and *)
(* what it rests on are steady; also when the node holds a sibling of it,  *)
(* did not know the feature when it came, or lost requests and memory.     *)
(* What is final stays so: each such block leads to its arrival.           *)
CaughtUp ==
    \A b \in Winner :
        /\ \A d \in Below[b] \cup {b} : Steady(d)
        /\ \E m \in Node : IsFinalized(node[m], b)
        => \A n \in Client : b \in node[n].chain

CatchesUp == []<>CaughtUp
=============================================================================
