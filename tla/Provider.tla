------------------------------ MODULE Provider ------------------------------
(***************************************************************************)
(* A provider node's side of its leases (node/node.go, node/vm.go, vm/):   *)
(* the marketplace offers, the goroutines that accept a lease, the retry   *)
(* schedule, the manager of the virtual machines, the settle loop, the     *)
(* tunnels, and the process that may stop in between.  The ledger is its   *)
(* record of each lease; Lease models the blocks behind it.  An accept     *)
(* locks no stake: LeaseStakeDivisor is 0, LeaseStake returns 0, and the   *)
(* checks of the stake never refuse.                                       *)
(***************************************************************************)
EXTENDS Naturals, FiniteSets, FiniteSetsExt

CONSTANTS
    Leases,         \* leases offered to this provider
    Workers,        \* goroutines that run autoAcceptLease at one time
    Size,           \* Size[l]: resources of the lease, in one unit
    Capacity,       \* providerVCPUs, providerMemoryMB, providerDiskGB
    Slots,          \* machines the manager runs: one for QEMU, any for Lima
    MaxConcurrent,  \* LeaseAcceptPolicy.MaxConcurrent, 0 for none
    MaxLives,       \* bound on restarts
    MaxUndos,       \* bound on accepts undone by a swap
    Habits,         \* sets of what may befall the leases of a run
    None

ASSUME ProviderAssumption ==
    /\ IsFiniteSet(Leases) /\ IsFiniteSet(Workers) /\ None \notin Workers
    /\ Size \in [Leases -> Nat \ {0}]
    /\ {Capacity, Slots, MaxConcurrent, MaxLives, MaxUndos} \subseteq Nat
    /\ Habits \subseteq SUBSET {"several", "slow", "tunnel", "cancel", "renew",
                                "undo", "restart"}

VARIABLES
    offers,     \* pendingOffers of the consumer
    lease,      \* state of each lease in the provider's store
    phase,      \* where the lease's time stands
    renewed,    \* leases that were extended
    vms,        \* the manager's map of machines
    reserved,   \* reservedRes
    manager,    \* who holds the manager's lock over a boot
    create,     \* who holds blockCreateMu
    inFlight,   \* acceptInFlight
    sched,      \* acceptSched
    run,        \* the goroutines of autoAcceptLease
    loop,       \* the settle loop
    tunnel,     \* the tunnel handler of each lease
    lives,      \* times the process was started
    undos,      \* accepts undone so far
    habit       \* what may befall the leases of this run

market   == <<offers>>
ledger   == <<lease, phase, renewed, undos>>
machines == <<vms, manager>>
accepts  == <<reserved, inFlight, sched, run>>
rest     == <<lives, habit>>
vars == <<offers, lease, phase, renewed, vms, reserved, manager, create,
          inFlight, sched, run, loop, tunnel, lives, undos, habit>>

-----------------------------------------------------------------------------
States == {"none", "created", "accepted", "settled", "cancelled",
           "unfulfilled", "expired"}

Terminal(state) == state \in {"settled", "cancelled", "unfulfilled", "expired"}

(* An escrow is pending from the lease block to the end of the lease.      *)
Pending(l) == lease[l] \in {"created", "accepted"}

(* The times a lease passes through: it runs, the provider may settle, the *)
(* consumer may claim, any node may archive.  Lease has the gaps between.  *)
Running == 0
Settling == 1
Stale == 2
Archivable == 3

IdleRun  == [at |-> "idle", of |-> None, retry |-> FALSE]
IdleLoop == [at |-> "idle", todo |-> {}, of |-> None, seen |-> {}]

Used(S) == MapThenSumSet(LAMBDA l : Size[l], S)

Init ==
    /\ offers = {} /\ lease = [l \in Leases |-> "none"]
    /\ phase = [l \in Leases |-> Running] /\ renewed = {}
    /\ undos = 0 /\ vms = {} /\ manager = None /\ create = None
    /\ reserved = 0 /\ inFlight = {} /\ sched = [l \in Leases |-> "new"]
    /\ run = [w \in Workers |-> IdleRun] /\ loop = IdleLoop
    /\ tunnel = [l \in Leases |-> "none"] /\ lives = 1
    /\ habit \in Habits

-----------------------------------------------------------------------------
(* The marketplace.  A request is answered when what machines and          *)
(* reservations leave is enough; nothing is held back for the offer.       *)
SatSub(a, b) == IF b > a THEN 0 ELSE a - b

HandleRequest(l) ==
    /\ lease[l] = "none" /\ l \notin offers
    /\ "several" \in habit \/ \A k \in Leases : lease[k] = "none" /\ offers = {}
    /\ manager = None
    /\ Size[l] <= SatSub(SatSub(Capacity, Used(vms)), reserved)
    /\ offers' = offers \cup {l}
    /\ UNCHANGED <<ledger, machines, accepts, create, loop, tunnel, rest>>

(* The consumer polls for the offer and creates the lease block, or gives  *)
(* up after thirty seconds; an offer that nobody takes is pruned.          *)
RequestAndCreateLease(l) ==
    /\ l \in offers
    /\ offers' = offers \ {l}
    /\ lease' = [lease EXCEPT ![l] = "created"]
    /\ UNCHANGED <<phase, renewed, undos, machines, accepts, create, loop,
                   tunnel, rest>>

RequestLeaseTimesOut(l) ==
    /\ l \in offers
    /\ offers' = offers \ {l}
    /\ UNCHANGED <<ledger, machines, accepts, create, loop, tunnel, rest>>

-----------------------------------------------------------------------------
(* The accept schedule and the watch that starts the goroutines.           *)

(* Mutant: a lease that was tried once is not due again.                   *)
DueOnce(l) == sched[l] = "new"

Due(l) == sched[l] \in {"new", "due"}

(* A lease that was given up stays given up.                               *)
Recorded(l, retry) == IF retry /\ sched[l] # "done" THEN "wait" ELSE "done"

LeaseAlreadyAccepted(l) == lease[l] \notin {"none", "created"}

(* A tick over the pending sends; what is no longer pending is pruned.     *)
LeaseWatchTick(l) ==
    LET Pruned == [k \in Leases |-> IF Pending(k) THEN sched[k] ELSE "new"]
    IN
    /\ Pending(l) /\ Due(l) /\ l \notin inFlight
    /\ "slow" \in habit \/ \A w \in Workers : run[w].of # l
    /\ \/ /\ LeaseAlreadyAccepted(l)
          /\ sched' = [Pruned EXCEPT ![l] = "done"]
          /\ UNCHANGED run
       \/ /\ ~LeaseAlreadyAccepted(l)
          /\ \E w \in Workers : run[w].at = "idle"
          /\ LET w == CHOOSE w \in Workers : run[w].at = "idle" IN
             run' = [run EXCEPT ![w] = [IdleRun EXCEPT !.at = "begin", !.of = l]]
          /\ sched' = Pruned
    /\ UNCHANGED <<market, ledger, machines, reserved, inFlight, create, loop,
                   tunnel, rest>>

(* The delay of the retry passes; it grows to a maximum.                   *)
RetryDelayPasses(l) ==
    /\ sched[l] = "wait"
    /\ sched' = [sched EXCEPT ![l] = "due"]
    /\ UNCHANGED <<market, ledger, machines, reserved, inFlight, run, create, loop,
                   tunnel, rest>>

-----------------------------------------------------------------------------
(* autoAcceptLease, from one lock or wait to the next.                     *)
At(w, step) == run[w].at = step

Goto(w, step) == run' = [run EXCEPT ![w].at = step]

Stop(w, retry) == run' = [run EXCEPT ![w].at = "end", ![w].retry = retry]

Allow(l) == MaxConcurrent = 0 \/ Cardinality(vms) < MaxConcurrent

Hopeless(l) ==
    LeaseAlreadyAccepted(l) \/ l \in vms \/ ~Allow(l)

(* Mutant: the goroutine goes on when another one is at the lease.         *)
BeginAcceptTwice(w) ==
    LET l == run[w].of IN
    /\ At(w, "begin") /\ manager = None
    /\ inFlight' = inFlight \cup {l}
    /\ IF Hopeless(l) THEN Stop(w, FALSE) ELSE Goto(w, "attest")
    /\ UNCHANGED <<market, ledger, machines, reserved, sched, create, loop,
                   tunnel, rest>>

(* One attempt per lease at a time; then the checks that need no waiting.  *)
BeginAccept(w) ==
    LET l == run[w].of IN
    /\ At(w, "begin")
    /\ \/ /\ l \in inFlight
          /\ run' = [run EXCEPT ![w] = IdleRun]
          /\ UNCHANGED inFlight
       \/ /\ l \notin inFlight /\ manager = None
          /\ inFlight' = inFlight \cup {l}
          /\ IF Hopeless(l) THEN Stop(w, FALSE) ELSE Goto(w, "attest")
    /\ UNCHANGED <<market, ledger, machines, reserved, sched, create, loop,
                   tunnel, rest>>

(* The timekeepers answer, enough of them or not; a certificate that has   *)
(* run out ends the attempt for good.                                      *)
GatherAttestations(w) ==
    /\ At(w, "attest")
    /\ Goto(w, "lock") \/ Stop(w, TRUE) \/ Stop(w, FALSE)
    /\ UNCHANGED <<market, ledger, machines, reserved, inFlight, sched, create,
                   loop, tunnel, rest>>

LockCreate(w) ==
    /\ At(w, "lock") /\ create = None
    /\ create' = w
    /\ Goto(w, "fit")
    /\ UNCHANGED <<market, ledger, machines, reserved, inFlight, sched, loop,
                   tunnel, rest>>

(* Mutant: what is being booted does not count.                            *)
ExceedsMachines(l) == Used(vms) + Size[l] > Capacity

ExceedsCapacity(l) == Used(vms) + reserved + Size[l] > Capacity

(* Mutant: the lock is kept on the way out.                                *)
ReserveKeepsLock(w) ==
    LET l == run[w].of IN
    /\ At(w, "fit") /\ manager = None
    /\ IF ExceedsCapacity(l)
       THEN Stop(w, FALSE) /\ UNCHANGED <<reserved, create>>
       ELSE Goto(w, "provision") /\ reserved' = reserved + Size[l] /\ create' = None
    /\ UNCHANGED <<market, ledger, machines, inFlight, sched, loop, tunnel, rest>>

(* The machines are listed and the reservation read one after the other,   *)
(* with no wait in between; a boot does not fit there.                     *)
Reserve(w) ==
    LET l == run[w].of IN
    /\ At(w, "fit") /\ manager = None
    /\ IF ExceedsCapacity(l)
       THEN Stop(w, FALSE) /\ UNCHANGED reserved
       ELSE Goto(w, "provision") /\ reserved' = reserved + Size[l]
    /\ create' = None
    /\ UNCHANGED <<market, ledger, machines, inFlight, sched, loop, tunnel, rest>>

(* Provision holds the manager's lock for the whole boot; it refuses a     *)
(* second machine of the lease, and one beyond the manager's slots.        *)
Provision(w) ==
    /\ At(w, "provision") /\ manager = None
    /\ manager' = w
    /\ Goto(w, "boot")
    /\ UNCHANGED <<market, ledger, vms, reserved, inFlight, sched, create, loop,
                   tunnel, rest>>

Booted(w) ==
    LET l == run[w].of IN
    /\ At(w, "boot")
    /\ manager' = None
    /\ \/ UNCHANGED vms
       \/ /\ l \notin vms /\ Cardinality(vms) < Slots
          /\ vms' = vms \cup {l}
    /\ Goto(w, "verify")
    /\ UNCHANGED <<market, ledger, reserved, inFlight, sched, create, loop,
                   tunnel, rest>>

VerifyMachine(w) ==
    /\ At(w, "verify") /\ manager = None
    /\ reserved' = reserved - Size[run[w].of]
    /\ IF run[w].of \in vms THEN Goto(w, "add") ELSE Stop(w, FALSE)
    /\ UNCHANGED <<market, ledger, machines, inFlight, sched, create, loop,
                   tunnel, rest>>

ShouldTeardownOnAcceptFailure(l) == ~LeaseAlreadyAccepted(l)

(* The accept block: the ledger takes it or refuses it (attestations grown *)
(* old over the boot, a block of the account in between, a lease that      *)
(* ended), and with or without the block sent, the attempt is over.        *)
AddAccept(w) ==
    LET l == run[w].of IN
    /\ At(w, "add") /\ create = None
    /\ \/ /\ lease[l] = "created"
          /\ lease' = [lease EXCEPT ![l] = "accepted"]
          /\ Stop(w, FALSE)
       \/ /\ \E retry \in BOOLEAN :
                run' = [run EXCEPT ![w].at =
                            IF ShouldTeardownOnAcceptFailure(l) THEN "teardown"
                            ELSE "end",
                        ![w].retry = retry /\ ShouldTeardownOnAcceptFailure(l)]
          /\ UNCHANGED lease
    /\ UNCHANGED <<market, phase, renewed, undos, machines, reserved, inFlight,
                   sched, create, loop, tunnel, rest>>

TeardownVM(w) ==
    /\ At(w, "teardown") /\ manager = None
    /\ vms' = vms \ {run[w].of}
    /\ Goto(w, "end")
    /\ UNCHANGED <<market, ledger, manager, reserved, inFlight, sched, create,
                   loop, tunnel, rest>>

(* The deferred calls: the schedule is written before the lease is let go. *)
EndAccept(w) ==
    LET l == run[w].of IN
    /\ At(w, "end")
    /\ sched' = [sched EXCEPT ![l] = Recorded(l, run[w].retry)]
    /\ inFlight' = inFlight \ {l}
    /\ run' = [run EXCEPT ![w] = IdleRun]
    /\ UNCHANGED <<market, ledger, machines, reserved, create, loop, tunnel, rest>>

AutoAcceptLease(w) ==
    \/ BeginAccept(w) \/ GatherAttestations(w) \/ LockCreate(w) \/ Reserve(w)
    \/ Provision(w) \/ Booted(w) \/ VerifyMachine(w) \/ AddAccept(w)
    \/ TeardownVM(w) \/ EndAccept(w)

-----------------------------------------------------------------------------
(* The settle loop: one thread settles, archives and cleans in turn, from  *)
(* leases it read at the start of each part.                               *)
Expired == {l \in Leases : lease[l] = "accepted" /\ phase[l] = Settling}

TrySettleExpiredLeases ==
    /\ loop.at = "idle" /\ Expired # {}
    /\ loop' = [IdleLoop EXCEPT !.at = "settle", !.todo = Expired, !.seen = renewed]
    /\ UNCHANGED <<market, ledger, machines, accepts, create, tunnel, rest>>

NextLease(l) == [loop EXCEPT !.at = "settle", !.todo = @ \ {l}, !.of = None]

SettleLease(l) ==
    /\ loop.at = "settle" /\ l \in loop.todo
    /\ \/ loop' = NextLease(l)
       \/ loop' = [loop EXCEPT !.at = "add", !.of = l]
    /\ UNCHANGED <<market, ledger, machines, accepts, create, tunnel, rest>>

(* The amount was computed from the lease as it was read: the ledger       *)
(* refuses it for a lease extended since, as it does one out of its window.*)
AddSettle ==
    LET l == loop.of IN
    /\ loop.at = "add" /\ create = None
    /\ \/ /\ lease[l] = "accepted" /\ phase[l] = Settling
          /\ l \in loop.seen <=> l \in renewed
          /\ lease' = [lease EXCEPT ![l] = "settled"]
          /\ loop' = [loop EXCEPT !.at = "finish"]
       \/ loop' = NextLease(l) /\ UNCHANGED lease
    /\ UNCHANGED <<market, phase, renewed, undos, machines, accepts, create,
                   tunnel, rest>>

(* A block that cannot be published leaves tunnels and machine alone.      *)
FinishSettle ==
    LET l == loop.of IN
    /\ loop.at = "finish"
    /\ \/ loop' = NextLease(l) /\ UNCHANGED tunnel
       \/ /\ loop' = [loop EXCEPT !.at = "teardown"]
          /\ tunnel' = [tunnel EXCEPT ![l] = IF @ = "open" THEN "none" ELSE @]
    /\ UNCHANGED <<market, ledger, machines, accepts, create, rest>>

TeardownSettled ==
    /\ loop.at = "teardown" /\ manager = None
    /\ vms' = vms \ {loop.of}
    /\ loop' = NextLease(loop.of)
    /\ UNCHANGED <<market, ledger, manager, accepts, create, tunnel, rest>>

(* Mutant: an extended lease is left to the parties.                       *)
ArchivesUnextended(l) ==
    lease[l] = "accepted" /\ phase[l] = Archivable /\ l \notin renewed

ShouldArchiveExpiredLease(l) == lease[l] = "accepted" /\ phase[l] = Archivable

SettleDone == loop.at = "idle" \/ (loop.at = "settle" /\ loop.todo = {})

TryArchiveExpiredLeases ==
    /\ SettleDone
    /\ \E l \in Leases : ShouldArchiveExpiredLease(l)
    /\ lease' = [l \in Leases |->
                    IF ShouldArchiveExpiredLease(l) THEN "expired" ELSE lease[l]]
    /\ UNCHANGED <<market, phase, renewed, undos, machines, accepts, create,
                   loop, tunnel, rest>>

(* Mutant: only the machines of settled leases are looked for.             *)
OrphanSettled(l) == lease[l] = "settled"

Orphan(l) == Terminal(lease[l])

CleanupOrphanedVMs ==
    /\ SettleDone /\ manager = None
    /\ vms' = {l \in vms : ~Orphan(l)}
    /\ loop' = IdleLoop
    /\ UNCHANGED <<market, ledger, manager, accepts, create, tunnel, rest>>

SettleLoop ==
    \/ TrySettleExpiredLeases \/ \E l \in Leases : SettleLease(l)
    \/ AddSettle \/ FinishSettle \/ TeardownSettled
    \/ TryArchiveExpiredLeases \/ CleanupOrphanedVMs

-----------------------------------------------------------------------------
(* Tunnels: the handler validates the lease, dials the machine, and only   *)
(* then registers.                                                         *)
ValidateTunnelLease(l) ==
    /\ "tunnel" \in habit
    /\ tunnel[l] = "none" /\ lease[l] = "accepted"
    /\ tunnel' = [tunnel EXCEPT ![l] = "valid"]
    /\ UNCHANGED <<market, ledger, machines, accepts, create, loop, rest>>

DialSSH(l) ==
    /\ tunnel[l] = "valid" /\ manager = None
    /\ tunnel' = [tunnel EXCEPT ![l] = IF l \in vms THEN "open" ELSE "none"]
    /\ UNCHANGED <<market, ledger, machines, accepts, create, loop, rest>>

(* The machine is gone, or the client hangs up.                            *)
TunnelEnds(l) ==
    /\ tunnel[l] = "open"
    /\ tunnel' = [tunnel EXCEPT ![l] = "none"]
    /\ UNCHANGED <<market, ledger, machines, accepts, create, loop, rest>>

-----------------------------------------------------------------------------
(* The consumer's node, a swap, and time.                                  *)
ConsumerCancels(l) ==
    /\ "cancel" \in habit
    /\ lease[l] = "created"
    /\ lease' = [lease EXCEPT ![l] = "cancelled"]
    /\ UNCHANGED <<market, phase, renewed, undos, machines, accepts, create,
                   loop, tunnel, rest>>

(* By a clock behind the provider's, also when its window has just begun.  *)
RenewLease(l) ==
    /\ "renew" \in habit
    /\ lease[l] = "accepted" /\ phase[l] <= Settling /\ l \notin renewed
    /\ renewed' = renewed \cup {l}
    /\ phase' = [phase EXCEPT ![l] = Running]
    /\ UNCHANGED <<market, lease, undos, machines, accepts, create, loop,
                   tunnel, rest>>

(* The consumer's loop claims the base cost: the ledger refuses that for   *)
(* an extended lease, whose whole escrow is to be claimed.                 *)
ForceSettleLease(l) ==
    /\ lease[l] = "accepted" /\ phase[l] = Stale /\ l \notin renewed
    /\ lease' = [lease EXCEPT ![l] = "unfulfilled"]
    /\ UNCHANGED <<market, phase, renewed, undos, machines, accepts, create,
                   loop, tunnel, rest>>

(* A swap undoes an accept that is not yet final.                          *)
UndoAccept(l) ==
    /\ "undo" \in habit
    /\ lease[l] = "accepted" /\ phase[l] = Running /\ l \notin renewed
    /\ undos < MaxUndos
    /\ lease' = [lease EXCEPT ![l] = "created"]
    /\ undos' = undos + 1
    /\ UNCHANGED <<market, phase, renewed, machines, accepts, create, loop, tunnel,
                   rest>>

TimePasses(l) ==
    /\ lease[l] = "accepted" /\ phase[l] < Archivable
    /\ phase' = [phase EXCEPT ![l] = @ + 1]
    /\ UNCHANGED <<market, lease, renewed, undos, machines, accepts, create,
                   loop, tunnel, rest>>

(* The process starts again: only the store is left, and the manager kills *)
(* the machines it finds.                                                  *)
Restart ==
    /\ "restart" \in habit /\ lives < MaxLives
    /\ lives' = lives + 1
    /\ vms' = {} /\ manager' = None /\ create' = None
    /\ reserved' = 0 /\ inFlight' = {} /\ sched' = [l \in Leases |-> "new"]
    /\ run' = [w \in Workers |-> IdleRun] /\ loop' = IdleLoop
    /\ tunnel' = [l \in Leases |-> "none"]
    /\ UNCHANGED <<market, ledger, habit>>

Next ==
    \/ \E l \in Leases :
          \/ HandleRequest(l) \/ RequestAndCreateLease(l) \/ RequestLeaseTimesOut(l)
          \/ LeaseWatchTick(l) \/ RetryDelayPasses(l)
          \/ ValidateTunnelLease(l) \/ DialSSH(l) \/ TunnelEnds(l)
          \/ ConsumerCancels(l) \/ RenewLease(l) \/ ForceSettleLease(l)
          \/ UndoAccept(l) \/ TimePasses(l)
    \/ \E w \in Workers : AutoAcceptLease(w)
    \/ SettleLoop \/ Restart

Spec == Init /\ [][Next]_vars

(* The goroutines and the loop go on, and get a mutex in the end however   *)
(* often it is taken before them (Go hands one that starves to the waiter  *)
(* in front); clocks go on, and a connection to a machine that is gone     *)
(* breaks.  For the watch there is always a goroutine: Workers only bounds *)
(* the model.                                                              *)
Fairness ==
    /\ \A w \in Workers : SF_vars(AutoAcceptLease(w))
    /\ SF_vars(SettleLoop)
    /\ \A l \in Leases :
          /\ SF_vars(LeaseWatchTick(l))
          /\ WF_vars(RetryDelayPasses(l))
          /\ WF_vars(TimePasses(l))
          /\ SF_vars(DialSSH(l))
          /\ WF_vars(l \notin vms /\ TunnelEnds(l))

FairSpec == Spec /\ Fairness

-----------------------------------------------------------------------------
(* Every variable has its type; at most one goroutine holds blockCreateMu. *)
ProviderTypeOK ==
    /\ offers \subseteq Leases /\ renewed \subseteq Leases /\ vms \subseteq Leases
    /\ inFlight \subseteq Leases
    /\ lease \in [Leases -> States] /\ phase \in [Leases -> Running..Archivable]
    /\ reserved \in 0..Capacity
    /\ manager \in Workers \cup {None} /\ create \in Workers \cup {None}
    /\ sched \in [Leases -> {"new", "wait", "due", "done"}]
    /\ tunnel \in [Leases -> {"none", "valid", "open"}]
    /\ \A w \in Workers : create = w <=> At(w, "fit")
    /\ \A w \in Workers : manager = w <=> At(w, "boot")

(* The leases whose machines are being booted. *)
Booting == {run[w].of : w \in {v \in Workers : run[v].at \in {"provision", "boot", "verify"}}}

(* The machines that run and the ones being booted fit the provider's      *)
(* capacity however many leases are accepted at once, and what is reserved *)
(* is what is being booted (autoAcceptLease's check, reservation and       *)
(* release, with the minutes of provisioning in between).                  *)
NoOversubscription ==
    /\ Used(vms \cup Booting) <= Capacity
    /\ reserved = Used(Booting)

(* While a lease stays accepted nothing takes its machine away: not the    *)
(* goroutine that fails to accept it a second time, not the cleanup.       *)
MachineStaysWhileAccepted ==
    [][\A l \in Leases :
          /\ lease[l] = "accepted" /\ lease'[l] = "accepted" /\ l \in vms
          /\ lives' = lives
          => l \in vms']_vars

(* A lease that is over is left without machine and without tunnel,        *)
(* whatever failed on the way: a settlement that was not published, a      *)
(* cancellation during the boot, a claim by the consumer.                  *)
EndedLeasesFreeTheirMachine ==
    \A l \in Leases :
        <>[]Terminal(lease[l]) => <>[](l \notin vms /\ tunnel[l] # "open")

(* An attempt that failed for want of attestations, or for a block that    *)
(* may fit later, is made again until the lease is no longer waiting.      *)
FailedAcceptsAreRetried ==
    \A l \in Leases :
        sched[l] = "wait" ~> (l \in inFlight \/ lease[l] # "created")

(* Every accepted lease is over in the end, extended or not, with the      *)
(* consumer's node gone and settlements failing (or its accept is undone). *)
AcceptedLeasesEnd ==
    \A l \in Leases : lease[l] = "accepted" ~> lease[l] # "accepted"

(* No attempt waits for ever: blockCreateMu is held while the machines are *)
(* listed, which waits for a boot, which waits for nothing.                *)
AttemptsEnd == \A w \in Workers : ~At(w, "idle") ~> At(w, "idle")
=============================================================================
