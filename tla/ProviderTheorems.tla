-------------------------- MODULE ProviderTheorems --------------------------
(***************************************************************************)
(* Theorems about Provider, for every set of leases and every capacity.    *)
(*                                                                         *)
(* The inductive invariant ProviderInv has a part per resource: RunTypes   *)
(* and OneAttempt for the runs of AutoAcceptLease, Locks for the mutexes   *)
(* of VMManager and Provider, LoopInv for the settle loop's pass, and the  *)
(* capacity: the reservation counts exactly the machines being booted, and *)
(* these and the ones that run fit the host.                               *)
(***************************************************************************)
EXTENDS Provider, FiniteInduction

-----------------------------------------------------------------------------
(* What machines use. *)

(* What a set of leases uses is a sum.                                     *)
LEMMA UsedIsSum == ASSUME NEW S PROVE Used(S) = SumOver(Size, S)
BY DEF Used, SumOver

(* Sets of leases are finite.                                              *)
LEMMA SubsetsFinite == \A S \in SUBSET Leases : IsFiniteSet(S)
BY ProviderAssumption, FS_Subset

(* What a set of leases uses is a natural number.                          *)
LEMMA UsedType == \A S \in SUBSET Leases : Used(S) \in Nat
<1> SUFFICES ASSUME NEW S \in SUBSET Leases PROVE SumOver(Size, S) \in Nat
  BY UsedIsSum
<1>1. IsFiniteSet(S) /\ \A x \in S : Size[x] \in Nat /\ Size[x] \in Int
  BY SubsetsFinite, ProviderAssumption
<1> QED BY <1>1, SumType

(* No lease uses nothing.                                                  *)
LEMMA UsedEmpty == Used({}) = 0
BY UsedIsSum, SumEmpty

(* One more lease adds its size.                                           *)
LEMMA UsedAdd ==
    ASSUME NEW S \in SUBSET Leases, NEW l \in Leases, l \notin S
    PROVE  Used(S \cup {l}) = Used(S) + Size[l]
<1>1. IsFiniteSet(S) /\ Size[l] \in Int /\ \A x \in S : Size[x] \in Int
  BY SubsetsFinite, ProviderAssumption
<1>2. SumOver(Size, S \cup {l}) = SumOver(Size, S) + IF l \in S THEN 0 ELSE Size[l]
  BY <1>1, SumAdd
<1> QED BY <1>2, UsedIsSum

(* One lease less frees its size.                                          *)
LEMMA UsedRemove ==
    ASSUME NEW S \in SUBSET Leases, NEW l \in S
    PROVE  Used(S \ {l}) = Used(S) - Size[l]
<1>1. IsFiniteSet(S) /\ Size[l] \in Int /\ \A x \in S : Size[x] \in Int
  BY SubsetsFinite, ProviderAssumption
<1>2. SumOver(Size, S) = Size[l] + SumOver(Size, S \ {l})
  BY <1>1, SumMember
<1>3. Used(S) \in Int /\ Used(S \ {l}) \in Int
  BY UsedType
<1> QED BY <1>1, <1>2, <1>3, UsedIsSum

(* Two sets use at most what they use apart.                               *)
LEMMA UsedUnion ==
    ASSUME NEW S \in SUBSET Leases, NEW R \in SUBSET Leases
    PROVE  Used(S \cup R) <= Used(S) + Used(R) /\ Used(S) <= Used(S \cup R)
<1>1. IsFiniteSet(S) /\ IsFiniteSet(R) /\ \A x \in S \cup R : Size[x] \in Nat
  BY SubsetsFinite, ProviderAssumption
<1> QED BY <1>1, SumUnion, UsedIsSum

(* More leases use no less.                                                *)
LEMMA UsedMonotone ==
    ASSUME NEW S \in SUBSET Leases, NEW R \in SUBSET S
    PROVE  Used(R) <= Used(S)
<1>1. R \cup S = S /\ R \in SUBSET Leases
  OBVIOUS
<1> QED BY <1>1, UsedUnion

-----------------------------------------------------------------------------
(* The invariant. *)

Steps == {"idle", "begin", "attest", "lock", "fit", "provision", "boot", "verify",
          "add", "teardown", "end"}

(* A goroutine that beginAccept let through, and one that may still accept. *)
Held(w) == run[w].at \notin {"idle", "begin"}
Trying(w) == run[w].at \notin {"idle", "begin", "end"}

Values ==
    /\ offers \subseteq Leases /\ renewed \subseteq Leases /\ vms \subseteq Leases
    /\ inFlight \subseteq Leases
    /\ \A l \in offers : lease[l] = "none"
    /\ lease \in [Leases -> States] /\ phase \in [Leases -> Running..Archivable]
    /\ sched \in [Leases -> {"new", "wait", "due", "done"}]
    /\ tunnel \in [Leases -> {"none", "valid", "open"}]
    /\ lives \in Nat

RunTypes ==
    /\ run \in [Workers -> [at : Steps, of : Leases \cup {None}, retry : BOOLEAN]]
    /\ \A w \in Workers : run[w].at # "idle" => run[w].of \in Leases

(* One attempt per lease, and none for a lease that is accepted. *)
OneAttempt ==
    /\ \A w \in Workers : Held(w) => run[w].of \in inFlight
    /\ \A v, w \in Workers : Held(v) /\ Held(w) /\ run[v].of = run[w].of => v = w
    /\ \A w \in Workers : Trying(w) => lease[run[w].of] # "accepted"

(* Both mutexes are held where the code holds them. *)
Locks ==
    /\ manager \in Workers \cup {None} /\ create \in Workers \cup {None}
    /\ \A w \in Workers : create = w <=> At(w, "fit")
    /\ \A w \in Workers : manager = w <=> At(w, "boot")

(* What the settle loop is at. *)
LoopInv ==
    /\ loop \in [at : {"idle", "settle", "add", "finish", "teardown"},
                 todo : SUBSET Leases, of : Leases \cup {None}, seen : SUBSET Leases]
    /\ loop.at \in {"add", "finish", "teardown"} => loop.of \in Leases
    /\ loop.at \in {"finish", "teardown"} => lease[loop.of] = "settled"

ProviderInv ==
    Values /\ RunTypes /\ OneAttempt /\ Locks /\ LoopInv /\ NoOversubscription

(* The invariant holds at first.                                           *)
LEMMA InitInv == Init => ProviderInv
<1> SUFFICES ASSUME Init PROVE ProviderInv
  OBVIOUS
<1>1. Values /\ RunTypes /\ OneAttempt /\ Locks /\ LoopInv
  BY ProviderAssumption DEF Init, Values, RunTypes, OneAttempt, Locks, LoopInv, Held,
     Trying, IdleRun, IdleLoop, States, Steps, Running, Archivable, At
<1>3. NoOversubscription
  <2>1. Booting = {}
    BY DEF Init, Booting, IdleRun
  <2> QED BY <2>1, UsedEmpty, ProviderAssumption DEF Init, NoOversubscription
<1> QED BY <1>1, <1>3 DEF ProviderInv

-----------------------------------------------------------------------------
(* What each part of the invariant depends on. *)

(* Lease by lease: no lease becomes accepted, none stops being settled. *)
NoAccept == \A l \in Leases : lease'[l] = "accepted" => lease[l] = "accepted"
KeepsSettled == \A l \in Leases : lease[l] = "settled" => lease'[l] = "settled"

(* The runs' part is kept by a step that touches none and accepts nothing. *)
LEMMA RunFrame ==
    ASSUME ProviderInv, UNCHANGED <<run, inFlight>>, NoAccept
    PROVE  RunTypes' /\ OneAttempt'
<1>1. RunTypes'
  BY DEF ProviderInv, RunTypes
<1>2. ASSUME NEW w \in Workers, Trying(w)' PROVE lease'[run'[w].of] # "accepted"
  <2>1. Trying(w) /\ run'[w].of = run[w].of /\ run[w].of \in Leases
    BY <1>2 DEF Trying, ProviderInv, RunTypes
  <2> QED BY <2>1 DEF ProviderInv, OneAttempt, NoAccept, KeepsSettled
<1> QED BY <1>1, <1>2 DEF ProviderInv, OneAttempt, Held

(* The locks' part is kept by a step that touches no lock.                 *)
LEMMA LockFrame == ASSUME Locks, UNCHANGED <<run, create, manager>> PROVE Locks'
BY DEF Locks, At

(* The settle loop's part is kept while what is settled stays so.          *)
LEMMA LoopFrame == ASSUME LoopInv, UNCHANGED loop, KeepsSettled PROVE LoopInv'
BY DEF LoopInv, KeepsSettled

(* The leases being booted are leases.                                     *)
LEMMA BootingType == ASSUME RunTypes PROVE Booting \in SUBSET Leases
BY DEF RunTypes, Booting

(* Fewer machines, and the same ones on their way. *)
LEMMA FitFrame ==
    ASSUME ProviderInv, vms' \subseteq vms, Booting' = Booting, UNCHANGED reserved
    PROVE  NoOversubscription'
<1>1. vms \in SUBSET Leases /\ Booting \in SUBSET Leases
  BY BootingType DEF ProviderInv, Values
<1>2. vms' \cup Booting \in SUBSET (vms \cup Booting) /\ vms \cup Booting \in SUBSET Leases
  BY <1>1
<1> DEFINE A == vms \cup Booting
           B == vms' \cup Booting
<1>3. Used(B) <= Used(A) /\ Used(A) \in Nat /\ Used(B) \in Nat
  <2> HIDE DEF A, B
  <2>1. A \in SUBSET Leases /\ B \in SUBSET A /\ B \in SUBSET Leases
    BY <1>2 DEF A, B
  <2> QED BY <2>1, UsedMonotone, UsedType
<1>4. Used(A) <= Capacity /\ reserved = Used(Booting)
  BY DEF ProviderInv, NoOversubscription
<1>5. Used(vms' \cup Booting') = Used(B) /\ Used(Booting') = Used(Booting)
  OBVIOUS
<1> HIDE DEF A, B
<1> QED BY <1>3, <1>4, <1>5, ProviderAssumption DEF NoOversubscription

-----------------------------------------------------------------------------
(* Steps of the market, the ledger, tunnels and clocks. *)

Outside(l) ==
    \/ HandleRequest(l) \/ RequestAndCreateLease(l) \/ RequestLeaseTimesOut(l)
    \/ RetryDelayPasses(l) \/ ValidateTunnelLease(l) \/ DialSSH(l) \/ TunnelEnds(l)
    \/ ConsumerCancels(l) \/ RenewLease(l) \/ ForceSettleLease(l) \/ TimePasses(l)

(* Steps outside the provider keep the invariant.                          *)
LEMMA OutsideInv ==
    ASSUME ProviderInv, NEW l \in Leases, Outside(l)
    PROVE  ProviderInv'
<1> USE DEF market, ledger, machines, accepts, rest
<1>1. UNCHANGED <<run, inFlight, create, manager, loop, vms, reserved>>
  BY DEF Outside, HandleRequest, RequestAndCreateLease, RequestLeaseTimesOut,
     RetryDelayPasses, ValidateTunnelLease, DialSSH, TunnelEnds, ConsumerCancels,
     RenewLease, ForceSettleLease, TimePasses
<1>2. NoAccept /\ KeepsSettled
  BY DEF ProviderInv, Values, NoAccept, KeepsSettled,
     Outside, HandleRequest, RequestAndCreateLease, RequestLeaseTimesOut,
     RetryDelayPasses, ValidateTunnelLease, DialSSH, TunnelEnds, ConsumerCancels,
     RenewLease, ForceSettleLease, TimePasses
<1>3. Values'
  BY DEF ProviderInv, Values, States, Running, Archivable,
     Outside, HandleRequest, RequestAndCreateLease, RequestLeaseTimesOut,
     RetryDelayPasses, ValidateTunnelLease, DialSSH, TunnelEnds, ConsumerCancels,
     RenewLease, ForceSettleLease, TimePasses
<1>4. RunTypes' /\ OneAttempt' /\ Locks' /\ LoopInv'
  BY <1>1, <1>2, RunFrame, LockFrame, LoopFrame DEF ProviderInv
<1>6. Booting' = Booting
  BY <1>1 DEF Booting
<1>7. NoOversubscription'
  BY <1>1, <1>6, FitFrame
<1> QED BY <1>3, <1>4, <1>7 DEF ProviderInv

(* The undo of an accept keeps the invariant.                              *)
LEMMA UndoInv == ASSUME ProviderInv, NEW l \in Leases, UndoAccept(l) PROVE ProviderInv'
<1> USE DEF market, ledger, machines, accepts, rest
<1>1. /\ UNCHANGED <<run, inFlight, create, manager, loop, vms, reserved>>
      /\ NoAccept /\ KeepsSettled
      /\ lease[l] = "accepted" /\ lease' = [lease EXCEPT ![l] = "created"]
  BY DEF UndoAccept, ProviderInv, Values, NoAccept, KeepsSettled
<1>2. Values'
  BY DEF UndoAccept, ProviderInv, Values, States
<1>3. RunTypes' /\ OneAttempt' /\ Locks' /\ LoopInv'
  BY <1>1, RunFrame, LockFrame, LoopFrame DEF ProviderInv
<1>5. Booting' = Booting
  BY <1>1 DEF Booting
<1>6. NoOversubscription'
  BY <1>1, <1>5, FitFrame
<1> QED BY <1>2, <1>3, <1>6 DEF ProviderInv

-----------------------------------------------------------------------------
(* Steps of a goroutine. *)

BootSteps == {"provision", "boot", "verify"}

(* w goes on to a step with the lease it has. *)
Moves(w, step) ==
    /\ run' \in [Workers -> [at : Steps, of : Leases \cup {None}, retry : BOOLEAN]]
    /\ run'[w].at = step /\ run'[w].of = run[w].of
    /\ \A v \in Workers \ {w} : run'[v] = run[v]

(* A run that goes on to its next step.                                    *)
LEMMA GotoMoves ==
    ASSUME RunTypes, NEW w \in Workers, NEW step \in Steps, Goto(w, step)
    PROVE  Moves(w, step)
BY DEF RunTypes, Goto, Moves

(* A run that ends.                                                        *)
LEMMA StopMoves ==
    ASSUME RunTypes, NEW w \in Workers, NEW retry \in BOOLEAN, Stop(w, retry)
    PROVE  Moves(w, "end")
BY DEF RunTypes, Stop, Moves, Steps

(* An attempt that goes on is still the only one for its lease. *)
LEMMA MoveOneAttempt ==
    ASSUME ProviderInv, NEW w \in Workers, NEW step \in Steps \ {"idle", "begin"},
           Trying(w), Moves(w, step), UNCHANGED inFlight,
           \A l \in Leases \ {run[w].of} : lease'[l] = "accepted" => lease[l] = "accepted",
           step # "end" => lease'[run[w].of] # "accepted"
    PROVE  RunTypes' /\ OneAttempt'
<1>1. \A v \in Workers : Trying(v) => Held(v)
  BY DEF Trying, Held
<1>2. \A v \in Workers : run'[v].of = run[v].of /\ (v # w => run'[v].at = run[v].at)
  BY DEF Moves
<1>3. RunTypes'
  BY <1>2 DEF Moves, RunTypes, ProviderInv, Trying
<1>4. \A v \in Workers : Held(v)' => Held(v)
  BY <1>1, <1>2 DEF Held
<1>5. ASSUME NEW v \in Workers, Trying(v)' PROVE lease'[run'[v].of] # "accepted"
  <2>1. CASE v = w
    BY <2>1, <1>2, <1>5 DEF Trying, Moves
  <2>2. CASE v # w
    <3>1. Trying(v)
      BY <1>2, <1>5, <2>2 DEF Trying
    <3>2. run[v].of # run[w].of
      BY <1>1, <2>2, <3>1 DEF ProviderInv, OneAttempt
    <3>3. run[v].of \in Leases /\ lease[run[v].of] # "accepted"
      BY <3>1 DEF ProviderInv, OneAttempt, RunTypes, Trying
    <3> QED BY <1>2, <3>2, <3>3
  <2> QED BY <2>1, <2>2
<1>6. OneAttempt'
  BY <1>2, <1>4, <1>5 DEF ProviderInv, OneAttempt
<1> QED BY <1>3, <1>6

(* What is being booted, as an attempt goes on. *)
LEMMA MoveBooting ==
    ASSUME ProviderInv, NEW w \in Workers, NEW step \in Steps, Moves(w, step)
    PROVE  /\ run[w].at \in BootSteps <=> step \in BootSteps => Booting' = Booting
           /\ Held(w) /\ run[w].at \notin BootSteps =>
                 /\ run[w].of \notin Booting
                 /\ step \in BootSteps => Booting' = Booting \cup {run[w].of}
           /\ run[w].at \in BootSteps =>
                 /\ run[w].of \in Booting
                 /\ step \notin BootSteps => Booting' = Booting \ {run[w].of}
<1>1. Booting = {run[v].of : v \in {u \in Workers : run[u].at \in BootSteps}}
  BY DEF Booting, BootSteps
<1>2. Booting' = {run'[v].of : v \in {u \in Workers : run'[u].at \in BootSteps}}
  BY DEF Booting, BootSteps
<1>3. \A v \in Workers : run'[v].of = run[v].of /\ (v # w => run'[v].at = run[v].at)
  BY DEF Moves
<1>4. run'[w].at = step
  BY DEF Moves
<1>5. \A v \in Workers : run[v].at \in BootSteps => Held(v)
  BY DEF Held, BootSteps
<1>6. \A v \in Workers : Held(v) /\ Held(w) /\ run[v].of = run[w].of => v = w
  BY DEF ProviderInv, OneAttempt
<1>7. run[w].at \in BootSteps <=> step \in BootSteps => Booting' = Booting
  BY <1>1, <1>2, <1>3, <1>4
<1>8. Held(w) /\ run[w].at \notin BootSteps =>
         /\ run[w].of \notin Booting
         /\ step \in BootSteps => Booting' = Booting \cup {run[w].of}
  BY <1>1, <1>2, <1>3, <1>4, <1>5, <1>6
<1>9. run[w].at \in BootSteps =>
         /\ run[w].of \in Booting
         /\ step \notin BootSteps => Booting' = Booting \ {run[w].of}
  BY <1>1, <1>2, <1>3, <1>4, <1>5, <1>6
<1> QED BY <1>7, <1>8, <1>9

(* The mutexes, when neither changes hands. *)
LEMMA MoveLocks ==
    ASSUME ProviderInv, NEW w \in Workers, NEW step \in Steps \ {"fit", "boot"},
           Moves(w, step), run[w].at \notin {"fit", "boot"}, UNCHANGED <<create, manager>>
    PROVE  Locks'
<1>1. \A v \in Workers : v # w => run'[v].at = run[v].at
  BY DEF Moves
<1>2. run'[w].at = step
  BY DEF Moves
<1> QED BY <1>1, <1>2 DEF ProviderInv, Locks, At

(* A lease that nobody is at is taken; an attempt that is not let through ends. *)
LEMMA BeginInv == ASSUME ProviderInv, NEW w \in Workers, BeginAccept(w) PROVE ProviderInv'
<1> USE DEF market, ledger, machines, accepts, rest
<1> DEFINE l == run[w].of
<1>0. run[w].at = "begin" /\ l \in Leases
  BY DEF BeginAccept, At, ProviderInv, RunTypes
<1>1. UNCHANGED <<lease, create, manager, loop, vms, reserved>>
  BY DEF BeginAccept
<1>2. Values'
  BY <1>0 DEF BeginAccept, ProviderInv, Values
<1>3. LoopInv'
  BY <1>1, LoopFrame DEF ProviderInv, NoAccept, KeepsSettled
<1>4. CASE l \in inFlight /\ run' = [run EXCEPT ![w] = IdleRun] /\ UNCHANGED inFlight
  <2>1. /\ run'[w].at = "idle" /\ \A v \in Workers \ {w} : run'[v] = run[v]
        /\ RunTypes'
    BY <1>4 DEF ProviderInv, RunTypes, IdleRun, Steps
  <2>2. \A v \in Workers : /\ Held(v)' => v # w /\ Held(v)
                           /\ Trying(v)' => v # w /\ Trying(v)
    BY <2>1 DEF Held, Trying
  <2>3. OneAttempt'
    BY <1>1, <1>4, <2>1, <2>2 DEF ProviderInv, OneAttempt
  <2>4. Locks'
    BY <1>0, <1>1, <2>1 DEF ProviderInv, Locks, At
  <2>5. Booting' = Booting
    BY <1>0, <2>1 DEF Booting
  <2>6. NoOversubscription'
    BY <1>1, <2>5, FitFrame
  <2> QED BY <1>2, <1>3, <2>1, <2>3, <2>4, <2>6 DEF ProviderInv
<1>5. ASSUME l \notin inFlight, inFlight' = inFlight \cup {l},
             NEW step \in {"attest", "end"}, Moves(w, step),
             step = "attest" => lease[l] # "accepted"
      PROVE  ProviderInv'
  <2>1. RunTypes'
    BY <1>0, <1>5 DEF Moves, RunTypes, ProviderInv
  <2>2. \A v \in Workers \ {w} : run'[v] = run[v] /\ (Held(v) => run[v].of # l)
    BY <1>5 DEF Moves, ProviderInv, OneAttempt
  <2>3. run'[w].of = l /\ run'[w].at = step
    BY <1>5 DEF Moves
  <2>4. OneAttempt'
    BY <1>1, <1>5, <2>2, <2>3 DEF ProviderInv, OneAttempt, Held, Trying
  <2>5. step \in Steps \ {"fit", "boot"}
    BY DEF Steps
  <2>6. Locks'
    BY <1>0, <1>1, <1>5, <2>5, MoveLocks
  <2>7. Booting' = Booting
    BY <1>0, <1>5, <2>5, MoveBooting DEF BootSteps
  <2>8. NoOversubscription'
    BY <1>1, <2>7, FitFrame
  <2> QED BY <1>2, <1>3, <2>1, <2>4, <2>6, <2>8 DEF ProviderInv
<1>6. CASE /\ l \notin inFlight /\ inFlight' = inFlight \cup {l}
           /\ IF Hopeless(l) THEN Stop(w, FALSE) ELSE Goto(w, "attest")
  <2>1. CASE Hopeless(l)
    <3>1. Moves(w, "end")
      BY <1>6, <2>1, StopMoves DEF ProviderInv
    <3> QED BY <1>5, <1>6, <3>1
  <2>2. CASE ~Hopeless(l)
    <3>1. Moves(w, "attest")
      BY <1>6, <2>2, GotoMoves DEF ProviderInv, Steps
    <3>2. lease[l] # "accepted"
      BY <2>2 DEF Hopeless, LeaseAlreadyAccepted
    <3> QED BY <1>5, <1>6, <3>1, <3>2
  <2> QED BY <2>1, <2>2
<1> QED BY <1>4, <1>6 DEF BeginAccept

(* Steps that change neither locks, machines nor reservations. *)
LEMMA AttestInv ==
    ASSUME ProviderInv, NEW w \in Workers, GatherAttestations(w) PROVE ProviderInv'
<1> USE DEF market, ledger, machines, accepts, rest
<1>0. run[w].at = "attest" /\ Trying(w)
  BY DEF GatherAttestations, At, Trying
<1>1. UNCHANGED <<lease, create, manager, loop, vms, reserved, inFlight>>
  BY DEF GatherAttestations
<1>2. Values'
  BY DEF GatherAttestations, ProviderInv, Values
<1>3. LoopInv'
  BY <1>1, LoopFrame DEF ProviderInv, NoAccept, KeepsSettled
<1>4. PICK step \in {"lock", "end"} : Moves(w, step)
  BY GotoMoves, StopMoves DEF GatherAttestations, ProviderInv, Steps
<1>5. step \in Steps \ {"fit", "boot"} /\ step \in Steps \ {"idle", "begin"}
  BY DEF Steps
<1>6. RunTypes' /\ OneAttempt'
  <2>1. lease[run[w].of] # "accepted"
    BY <1>0 DEF ProviderInv, OneAttempt
  <2> QED BY <1>0, <1>1, <1>4, <1>5, <2>1, MoveOneAttempt
<1>7. Locks'
  BY <1>0, <1>1, <1>4, <1>5, MoveLocks
<1>8. Booting' = Booting
  BY <1>0, <1>4, <1>5, MoveBooting DEF BootSteps
<1>9. NoOversubscription'
  BY <1>1, <1>8, FitFrame
<1> QED BY <1>2, <1>3, <1>6, <1>7, <1>9 DEF ProviderInv

(* Taking the creation lock keeps the invariant.                           *)
LEMMA LockCreateInv ==
    ASSUME ProviderInv, NEW w \in Workers, LockCreate(w) PROVE ProviderInv'
<1> USE DEF market, ledger, machines, accepts, rest
<1>0. run[w].at = "lock" /\ Trying(w) /\ create = None /\ create' = w
  BY DEF LockCreate, At, Trying
<1>1. UNCHANGED <<lease, manager, loop, vms, reserved, inFlight>>
  BY DEF LockCreate
<1>2. Values'
  BY DEF LockCreate, ProviderInv, Values
<1>3. LoopInv'
  BY <1>1, LoopFrame DEF ProviderInv, NoAccept, KeepsSettled
<1>4. "fit" \in Steps \ {"idle", "begin"}
  BY DEF Steps
<1>5. Moves(w, "fit")
  BY <1>4, GotoMoves DEF LockCreate, ProviderInv
<1>6. RunTypes' /\ OneAttempt'
  <2>1. lease[run[w].of] # "accepted"
    BY <1>0 DEF ProviderInv, OneAttempt
  <2> QED BY <1>0, <1>1, <1>4, <1>5, <2>1, MoveOneAttempt
<1>7. Locks'
  <2>1. \A v \in Workers : v # w => run'[v].at = run[v].at
    BY <1>5 DEF Moves
  <2>2. run'[w].at = "fit"
    BY <1>5 DEF Moves
  <2>3. None \notin Workers
    BY ProviderAssumption
  <2> QED BY <1>0, <1>1, <2>1, <2>2, <2>3 DEF ProviderInv, Locks, At
<1>8. Booting' = Booting
  BY <1>0, <1>4, <1>5, MoveBooting DEF BootSteps
<1>9. NoOversubscription'
  BY <1>1, <1>8, FitFrame
<1> QED BY <1>2, <1>3, <1>6, <1>7, <1>9 DEF ProviderInv

(* The check under blockCreateMu counts what runs and what is on its way. *)
LEMMA ReserveInv ==
    ASSUME ProviderInv, NEW w \in Workers, Reserve(w) PROVE ProviderInv'
<1> USE DEF market, ledger, machines, accepts, rest
<1> DEFINE l == run[w].of
<1>0. run[w].at = "fit" /\ Trying(w) /\ Held(w) /\ create' = None /\ l \in Leases
  BY DEF Reserve, At, Trying, Held, ProviderInv, RunTypes
<1>1. UNCHANGED <<lease, manager, loop, vms, inFlight>>
  BY DEF Reserve
<1>2. Values'
  BY DEF Reserve, ProviderInv, Values
<1>3. LoopInv'
  BY <1>1, LoopFrame DEF ProviderInv, NoAccept, KeepsSettled
<1>4. ASSUME NEW step \in {"end", "provision"}, Moves(w, step)
      PROVE  RunTypes' /\ OneAttempt' /\ Locks'
  <2>1. step \in Steps \ {"idle", "begin"}
    BY DEF Steps
  <2>2. RunTypes' /\ OneAttempt'
    <3>1. lease[run[w].of] # "accepted"
      BY <1>0 DEF ProviderInv, OneAttempt
    <3> QED BY <1>0, <1>1, <1>4, <2>1, <3>1, MoveOneAttempt
  <2>3. Locks'
    <3>1. \A v \in Workers : v # w => run'[v].at = run[v].at
      BY <1>4 DEF Moves
    <3>2. run'[w].at = step
      BY <1>4 DEF Moves
    <3>3. None \notin Workers
      BY ProviderAssumption
    <3>4. create = w
      BY <1>0 DEF ProviderInv, Locks, At
    <3> QED BY <1>0, <1>1, <3>1, <3>2, <3>3, <3>4 DEF ProviderInv, Locks, At
  <2> QED BY <2>2, <2>3
<1>5. CASE Stop(w, FALSE) /\ UNCHANGED reserved
  <2>1. Moves(w, "end")
    BY <1>5, StopMoves DEF ProviderInv
  <2>2. Booting' = Booting
    <3>1. "end" \in Steps
      BY DEF Steps
    <3> QED BY <1>0, <2>1, <3>1, MoveBooting DEF BootSteps
  <2>3. NoOversubscription'
    BY <1>1, <1>5, <2>2, FitFrame
  <2> QED BY <1>2, <1>3, <1>4, <2>1, <2>3 DEF ProviderInv
<1>6. CASE ~ExceedsCapacity(l) /\ Goto(w, "provision") /\ reserved' = reserved + Size[l]
  <2>0. "provision" \in Steps
    BY DEF Steps
  <2>1. Moves(w, "provision")
    BY <1>6, <2>0, GotoMoves DEF ProviderInv
  <2>2. l \notin Booting /\ Booting' = Booting \cup {l}
    BY <1>0, <2>0, <2>1, MoveBooting DEF BootSteps
  <2>3. vms \in SUBSET Leases /\ Booting \in SUBSET Leases
    BY BootingType DEF ProviderInv, Values
  <2> DEFINE B == Booting
             C == Booting \cup {l}
  <2>4. Used(C) = Used(B) + Size[l]
    BY <1>0, <2>2, <2>3, UsedAdd
  <2>5. Used(vms \cup C) <= Used(vms) + Used(C)
    <3>1. C \in SUBSET Leases
      BY <1>0, <2>3
    <3> HIDE DEF C
    <3> QED BY <2>3, <3>1, UsedUnion
  <2>6. reserved = Used(B) /\ Used(vms) + reserved + Size[l] <= Capacity
    <3>1. Used(vms) \in Nat /\ Used(B) \in Nat /\ Size[l] \in Nat /\ Capacity \in Nat
      BY <1>0, <2>3, UsedType, ProviderAssumption
    <3>2. reserved = Used(B)
      BY DEF ProviderInv, NoOversubscription
    <3> QED BY <1>6, <3>1, <3>2 DEF ExceedsCapacity
  <2>7. /\ Used(vms) \in Nat /\ Used(B) \in Nat /\ Size[l] \in Nat /\ Capacity \in Nat
        /\ Used(vms \cup C) \in Nat
    BY <1>0, <2>3, UsedType, ProviderAssumption
  <2>8. Used(vms' \cup Booting') = Used(vms \cup C) /\ Used(Booting') = Used(C)
    BY <1>1, <2>2
  <2> HIDE DEF B, C, l
  <2>9. NoOversubscription'
    BY <1>6, <2>4, <2>5, <2>6, <2>7, <2>8 DEF NoOversubscription
  <2> QED BY <1>2, <1>3, <1>4, <2>1, <2>9 DEF ProviderInv
<1> QED BY <1>5, <1>6 DEF Reserve

(* The manager's lock is taken for the boot. *)
LEMMA ProvisionInv ==
    ASSUME ProviderInv, NEW w \in Workers, Provision(w) PROVE ProviderInv'
<1> USE DEF market, ledger, machines, accepts, rest
<1>0. run[w].at = "provision" /\ Trying(w) /\ manager = None /\ manager' = w
  BY DEF Provision, At, Trying
<1>1. UNCHANGED <<lease, create, loop, vms, reserved, inFlight>>
  BY DEF Provision
<1>2. Values'
  BY DEF Provision, ProviderInv, Values
<1>3. LoopInv'
  BY <1>1, LoopFrame DEF ProviderInv, NoAccept, KeepsSettled
<1>4. "boot" \in Steps \ {"idle", "begin"}
  BY DEF Steps
<1>5. Moves(w, "boot")
  BY <1>4, GotoMoves DEF Provision, ProviderInv
<1>6. RunTypes' /\ OneAttempt'
  <2>1. lease[run[w].of] # "accepted"
    BY <1>0 DEF ProviderInv, OneAttempt
  <2> QED BY <1>0, <1>1, <1>4, <1>5, <2>1, MoveOneAttempt
<1>7. Locks'
  <2>1. \A v \in Workers : v # w => run'[v].at = run[v].at
    BY <1>5 DEF Moves
  <2>2. run'[w].at = "boot"
    BY <1>5 DEF Moves
  <2>3. None \notin Workers
    BY ProviderAssumption
  <2> QED BY <1>0, <1>1, <2>1, <2>2, <2>3 DEF ProviderInv, Locks, At
<1>8. Booting' = Booting
  BY <1>0, <1>4, <1>5, MoveBooting DEF BootSteps
<1>9. NoOversubscription'
  BY <1>1, <1>8, FitFrame
<1> QED BY <1>2, <1>3, <1>6, <1>7, <1>9 DEF ProviderInv

(* A machine that is up was on its way before. *)
LEMMA BootedInv ==
    ASSUME ProviderInv, NEW w \in Workers, Booted(w) PROVE ProviderInv'
<1> USE DEF market, ledger, machines, accepts, rest
<1> DEFINE l == run[w].of
<1>0. run[w].at = "boot" /\ Trying(w) /\ manager' = None /\ l \in Leases
  BY DEF Booted, At, Trying, ProviderInv, RunTypes
<1>1. UNCHANGED <<lease, create, loop, reserved, inFlight>>
  BY DEF Booted
<1>a. vms' = vms \/ vms' = vms \cup {l}
  BY DEF Booted
<1>2. Values'
  BY <1>0, <1>a DEF Booted, ProviderInv, Values
<1>3. LoopInv'
  BY <1>1, LoopFrame DEF ProviderInv, NoAccept, KeepsSettled
<1>4. "verify" \in Steps \ {"idle", "begin"}
  BY DEF Steps
<1>5. Moves(w, "verify")
  BY <1>4, GotoMoves DEF Booted, ProviderInv
<1>6. RunTypes' /\ OneAttempt'
  <2>1. lease[run[w].of] # "accepted"
    BY <1>0 DEF ProviderInv, OneAttempt
  <2> QED BY <1>0, <1>1, <1>4, <1>5, <2>1, MoveOneAttempt
<1>7. Locks'
  <2>1. \A v \in Workers : v # w => run'[v].at = run[v].at
    BY <1>5 DEF Moves
  <2>2. run'[w].at = "verify"
    BY <1>5 DEF Moves
  <2>3. None \notin Workers /\ manager = w
    BY <1>0, ProviderAssumption DEF ProviderInv, Locks, At
  <2> QED BY <1>0, <1>1, <2>1, <2>2, <2>3 DEF ProviderInv, Locks, At
<1>8. l \in Booting /\ Booting' = Booting
  BY <1>0, <1>4, <1>5, MoveBooting DEF BootSteps
<1>9. NoOversubscription'
  <2>1. vms' \cup Booting' = vms \cup Booting
    BY <1>a, <1>8
  <2>2. Used(vms' \cup Booting') = Used(vms \cup Booting) /\ Used(Booting') = Used(Booting)
    BY <1>8, <2>1
  <2> QED BY <1>1, <2>2 DEF ProviderInv, NoOversubscription
<1> QED BY <1>2, <1>3, <1>6, <1>7, <1>9 DEF ProviderInv

(* The reservation ends with the boot. *)
LEMMA VerifyInv ==
    ASSUME ProviderInv, NEW w \in Workers, VerifyMachine(w) PROVE ProviderInv'
<1> USE DEF market, ledger, machines, accepts, rest
<1> DEFINE l == run[w].of
<1>0. run[w].at = "verify" /\ Trying(w) /\ reserved' = reserved - Size[l] /\ l \in Leases
  BY DEF VerifyMachine, At, Trying, ProviderInv, RunTypes
<1>1. UNCHANGED <<lease, create, manager, loop, vms, inFlight>>
  BY DEF VerifyMachine
<1>2. Values'
  BY DEF VerifyMachine, ProviderInv, Values
<1>3. LoopInv'
  BY <1>1, LoopFrame DEF ProviderInv, NoAccept, KeepsSettled
<1>4. PICK step \in {"add", "end"} : Moves(w, step)
  BY GotoMoves, StopMoves DEF VerifyMachine, ProviderInv, Steps
<1>5. step \in Steps \ {"fit", "boot"} /\ step \in Steps \ {"idle", "begin"}
  BY DEF Steps
<1>6. RunTypes' /\ OneAttempt'
  <2>1. lease[run[w].of] # "accepted"
    BY <1>0 DEF ProviderInv, OneAttempt
  <2> QED BY <1>0, <1>1, <1>4, <1>5, <2>1, MoveOneAttempt
<1>7. Locks'
  BY <1>0, <1>1, <1>4, <1>5, MoveLocks
<1>8. l \in Booting /\ Booting' = Booting \ {l}
  BY <1>0, <1>4, <1>5, MoveBooting DEF BootSteps
<1>9. NoOversubscription'
  <2>1. vms \in SUBSET Leases /\ Booting \in SUBSET Leases
    BY BootingType DEF ProviderInv, Values
  <2> DEFINE B == Booting
             C == Booting \ {l}
  <2>2. Used(C) = Used(B) - Size[l]
    BY <1>8, <2>1, UsedRemove
  <2>3. Used(vms \cup C) <= Used(vms \cup B)
    <3>1. vms \cup C \in SUBSET (vms \cup B) /\ vms \cup B \in SUBSET Leases
      BY <2>1
    <3> HIDE DEF B, C
    <3> QED BY <3>1, UsedMonotone
  <2>4. Used(vms' \cup Booting') = Used(vms \cup C) /\ Used(Booting') = Used(C)
    BY <1>1, <1>8
  <2>5. Used(vms \cup B) \in Nat /\ Used(vms \cup C) \in Nat /\ Capacity \in Nat
    BY <2>1, UsedType, ProviderAssumption
  <2>6. Used(vms \cup B) <= Capacity /\ reserved = Used(B)
    BY DEF ProviderInv, NoOversubscription
  <2> HIDE DEF B, C, l
  <2> QED BY <1>0, <2>2, <2>3, <2>4, <2>5, <2>6 DEF NoOversubscription
<1> QED BY <1>2, <1>3, <1>6, <1>7, <1>9 DEF ProviderInv

(* The accept block is added, or the attempt is over without it. *)
LEMMA AddAcceptInv ==
    ASSUME ProviderInv, NEW w \in Workers, AddAccept(w) PROVE ProviderInv'
<1> USE DEF market, ledger, machines, accepts, rest
<1> DEFINE l == run[w].of
<1>0. run[w].at = "add" /\ Trying(w) /\ l \in Leases
  BY DEF AddAccept, At, Trying, ProviderInv, RunTypes
<1>1. UNCHANGED <<create, manager, loop, vms, reserved, inFlight>>
  BY DEF AddAccept
<1>2. CASE /\ lease[l] = "created"
           /\ lease' = [lease EXCEPT ![l] = "accepted"]
           /\ Stop(w, FALSE)
  <2>1. Values'
    BY <1>0, <1>2 DEF AddAccept, ProviderInv, Values, States
  <2>2. LoopInv'
    <3>1. KeepsSettled
      BY <1>2 DEF KeepsSettled, ProviderInv, Values
    <3> QED BY <1>1, <3>1, LoopFrame DEF ProviderInv
  <2>3. Moves(w, "end") /\ "end" \in Steps \ {"idle", "begin"} /\ "end" \in Steps \ {"fit", "boot"}
    BY <1>2, StopMoves DEF ProviderInv, Steps
  <2>4. RunTypes' /\ OneAttempt'
    <3>1. \A k \in Leases \ {l} : lease'[k] = "accepted" => lease[k] = "accepted"
      BY <1>2 DEF ProviderInv, Values
    <3> QED BY <1>0, <1>1, <2>3, <3>1, MoveOneAttempt
  <2>5. Locks' /\ Booting' = Booting
    BY <1>0, <1>1, <2>3, MoveLocks, MoveBooting DEF BootSteps
  <2>6. NoOversubscription'
    BY <1>1, <2>5, FitFrame
  <2> QED BY <2>1, <2>2, <2>4, <2>5, <2>6 DEF ProviderInv
<1>3. CASE /\ UNCHANGED lease
           /\ \E step \in {"teardown", "end"}, retry \in BOOLEAN :
                 run' = [run EXCEPT ![w].at = step, ![w].retry = retry]
  <2>1. Values'
    BY <1>3 DEF AddAccept, ProviderInv, Values
  <2>a. NoAccept /\ KeepsSettled
    BY <1>3 DEF NoAccept, KeepsSettled
  <2>2. LoopInv'
    BY <1>1, <2>a, LoopFrame DEF ProviderInv
  <2>3. PICK step \in {"teardown", "end"} : Moves(w, step)
    <3>1. PICK step \in {"teardown", "end"}, retry \in BOOLEAN :
             run' = [run EXCEPT ![w].at = step, ![w].retry = retry]
      BY <1>3
    <3>2. run \in [Workers -> [at : Steps, of : Leases \cup {None}, retry : BOOLEAN]]
      BY DEF ProviderInv, RunTypes
    <3>3. step \in Steps
      BY DEF Steps
    <3> HIDE DEF l
    <3> QED BY <3>1, <3>2, <3>3 DEF Moves
  <2>4. step \in Steps \ {"fit", "boot"} /\ step \in Steps \ {"idle", "begin"}
    BY DEF Steps
  <2>5. RunTypes' /\ OneAttempt'
    <3>1. lease[run[w].of] # "accepted"
      BY <1>0 DEF ProviderInv, OneAttempt
    <3> QED BY <1>0, <1>1, <1>3, <2>3, <2>4, <3>1, MoveOneAttempt
  <2>6. Locks' /\ Booting' = Booting
    BY <1>0, <1>1, <2>3, <2>4, MoveLocks, MoveBooting DEF BootSteps
  <2>7. NoOversubscription'
    BY <1>1, <2>6, FitFrame
  <2> QED BY <2>1, <2>2, <2>5, <2>6, <2>7 DEF ProviderInv
<1>5. \/ /\ lease[l] = "created"
         /\ lease' = [lease EXCEPT ![l] = "accepted"]
         /\ Stop(w, FALSE)
      \/ /\ UNCHANGED lease
         /\ \E step \in {"teardown", "end"}, retry \in BOOLEAN :
               run' = [run EXCEPT ![w].at = step, ![w].retry = retry]
  BY DEF AddAccept
<1> QED BY <1>2, <1>3, <1>5

(* A goroutine that failed removes the machine of a lease it did not accept. *)
LEMMA TeardownInv ==
    ASSUME ProviderInv, NEW w \in Workers, TeardownVM(w) PROVE ProviderInv'
<1> USE DEF market, ledger, machines, accepts, rest
<1>0. run[w].at = "teardown" /\ Trying(w) /\ vms' \subseteq vms
  BY DEF TeardownVM, At, Trying
<1>1. UNCHANGED <<lease, create, manager, loop, reserved, inFlight>>
  BY DEF TeardownVM
<1>2. Values'
  BY DEF TeardownVM, ProviderInv, Values
<1>3. LoopInv'
  BY <1>1, LoopFrame DEF ProviderInv, NoAccept, KeepsSettled
<1>4. "end" \in Steps \ {"idle", "begin"} /\ "end" \in Steps \ {"fit", "boot"}
  BY DEF Steps
<1>5. Moves(w, "end")
  BY <1>4, GotoMoves DEF TeardownVM, ProviderInv
<1>6. RunTypes' /\ OneAttempt'
  <2>1. lease[run[w].of] # "accepted"
    BY <1>0 DEF ProviderInv, OneAttempt
  <2> QED BY <1>0, <1>1, <1>4, <1>5, <2>1, MoveOneAttempt
<1>7. Locks' /\ Booting' = Booting
  BY <1>0, <1>1, <1>4, <1>5, MoveLocks, MoveBooting DEF BootSteps
<1>8. NoOversubscription'
  BY <1>0, <1>1, <1>7, FitFrame
<1> QED BY <1>2, <1>3, <1>6, <1>7, <1>8 DEF ProviderInv

(* The attempt lets its lease go; no other attempt was at it. *)
LEMMA EndInv ==
    ASSUME ProviderInv, NEW w \in Workers, EndAccept(w) PROVE ProviderInv'
<1> USE DEF market, ledger, machines, accepts, rest
<1> DEFINE l == run[w].of
<1>0. run[w].at = "end" /\ Held(w) /\ l \in Leases
  BY DEF EndAccept, At, Held, ProviderInv, RunTypes
<1>1. UNCHANGED <<lease, create, manager, loop, vms, reserved>>
  BY DEF EndAccept
<1>2. Values'
  <2>1. Recorded(l, run[w].retry) \in {"wait", "done"}
    BY DEF Recorded
  <2> QED BY <1>0, <2>1 DEF EndAccept, ProviderInv, Values
<1>3. LoopInv'
  BY <1>1, LoopFrame DEF ProviderInv, NoAccept, KeepsSettled
<1>4. /\ run'[w].at = "idle" /\ \A v \in Workers \ {w} : run'[v] = run[v]
      /\ RunTypes' /\ inFlight' = inFlight \ {l}
  BY DEF EndAccept, ProviderInv, RunTypes, IdleRun, Steps
<1>5. \A v \in Workers : /\ Held(v)' => v # w /\ Held(v)
                         /\ Trying(v)' => v # w /\ Trying(v)
  BY <1>4 DEF Held, Trying
<1>6. \A v \in Workers : Held(v) /\ v # w => run[v].of # l
  BY <1>0 DEF ProviderInv, OneAttempt
<1>7. OneAttempt'
  BY <1>1, <1>4, <1>5, <1>6 DEF ProviderInv, OneAttempt
<1>8. Locks'
  BY <1>0, <1>1, <1>4 DEF ProviderInv, Locks, At
<1>9. Booting' = Booting
  BY <1>0, <1>4 DEF Booting
<1>10. NoOversubscription'
  BY <1>1, <1>9, FitFrame
<1> QED BY <1>2, <1>3, <1>4, <1>7, <1>8, <1>10 DEF ProviderInv

(* The watch starts a goroutine, which has yet to be let through. *)
LEMMA WatchInv ==
    ASSUME ProviderInv, NEW l \in Leases, LeaseWatchTick(l) PROVE ProviderInv'
<1> USE DEF market, ledger, machines, accepts, rest
<1>1. UNCHANGED <<lease, create, manager, loop, vms, reserved, inFlight>>
  BY DEF LeaseWatchTick
<1>2. Values'
  BY DEF LeaseWatchTick, ProviderInv, Values
<1>3. LoopInv'
  BY <1>1, LoopFrame DEF ProviderInv, NoAccept, KeepsSettled
<1>4. CASE UNCHANGED run
  <2>1. RunTypes' /\ OneAttempt' /\ Locks' /\ Booting' = Booting
    BY <1>1, <1>4, RunFrame, LockFrame DEF ProviderInv, NoAccept, Booting
  <2>2. NoOversubscription'
    BY <1>1, <2>1, FitFrame
  <2> QED BY <1>2, <1>3, <2>1, <2>2 DEF ProviderInv
<1>5. CASE \E w \in Workers :
              /\ run[w].at = "idle"
              /\ run' = [run EXCEPT ![w] = [IdleRun EXCEPT !.at = "begin", !.of = l]]
  <2>1. PICK w \in Workers :
              /\ run[w].at = "idle"
              /\ run' = [run EXCEPT ![w] = [IdleRun EXCEPT !.at = "begin", !.of = l]]
    BY <1>5
  <2>2. /\ run'[w].at = "begin" /\ run'[w].of = l
        /\ \A v \in Workers \ {w} : run'[v] = run[v]
        /\ RunTypes'
    BY <2>1 DEF ProviderInv, RunTypes, IdleRun, Steps
  <2>3. \A v \in Workers : /\ Held(v)' => v # w /\ Held(v)
                           /\ Trying(v)' => v # w /\ Trying(v)
    BY <2>2 DEF Held, Trying
  <2>4. OneAttempt'
    BY <1>1, <2>2, <2>3 DEF ProviderInv, OneAttempt
  <2>5. Locks'
    BY <1>1, <2>1, <2>2 DEF ProviderInv, Locks, At
  <2>6. Booting' = Booting
    BY <2>1, <2>2 DEF Booting
  <2>7. NoOversubscription'
    BY <1>1, <2>6, FitFrame
  <2> QED BY <1>2, <1>3, <2>2, <2>4, <2>5, <2>7 DEF ProviderInv
<1>6. UNCHANGED run \/ \E w \in Workers :
              /\ run[w].at = "idle"
              /\ run' = [run EXCEPT ![w] = [IdleRun EXCEPT !.at = "begin", !.of = l]]
  BY DEF LeaseWatchTick
<1> QED BY <1>4, <1>5, <1>6

(* Every step of an attempt to accept a lease keeps the invariant.         *)
LEMMA AttemptInv ==
    ASSUME ProviderInv, NEW w \in Workers, AutoAcceptLease(w) PROVE ProviderInv'
BY BeginInv, AttestInv, LockCreateInv, ReserveInv, ProvisionInv, BootedInv, VerifyInv,
   AddAcceptInv, TeardownInv, EndInv DEF AutoAcceptLease

-----------------------------------------------------------------------------
(* Steps of the settle loop, of which only some take machines away. *)
LEMMA SettleLoopInv == ASSUME ProviderInv, SettleLoop PROVE ProviderInv'
<1> USE DEF market, ledger, machines, accepts, rest
<1>1. UNCHANGED <<offers, phase, renewed, sched, run, inFlight, create, manager,
                  reserved, lives>> /\ vms' \subseteq vms
  BY DEF SettleLoop, TrySettleExpiredLeases, SettleLease, AddSettle, FinishSettle,
     TeardownSettled, TryArchiveExpiredLeases, CleanupOrphanedVMs
<1>2. /\ NoAccept /\ KeepsSettled /\ lease' \in [Leases -> States]
      /\ \A l \in offers : lease'[l] = "none"
  <2>1. lease \in [Leases -> States] /\ \A l \in offers : lease[l] = "none"
    BY DEF ProviderInv, Values
  <2>2. CASE UNCHANGED lease
    BY <2>1, <2>2 DEF NoAccept, KeepsSettled
  <2>3. CASE AddSettle
    <3>1. loop.of \in Leases
      BY <2>3 DEF AddSettle, ProviderInv, LoopInv
    <3>2. \/ UNCHANGED lease
          \/ lease[loop.of] = "accepted" /\ lease' = [lease EXCEPT ![loop.of] = "settled"]
      BY <2>3 DEF AddSettle
    <3>3. CASE UNCHANGED lease
      BY <2>1, <3>3 DEF NoAccept, KeepsSettled
    <3>4. CASE lease[loop.of] = "accepted" /\ lease' = [lease EXCEPT ![loop.of] = "settled"]
      <4>1. lease'[loop.of] = "settled" /\ \A k \in Leases \ {loop.of} : lease'[k] = lease[k]
        BY <2>1, <3>1, <3>4
      <4>2. lease' \in [Leases -> States]
        BY <2>1, <3>4 DEF States
      <4>3. \A k \in offers : k \in Leases /\ k # loop.of
        BY <2>1, <3>4 DEF ProviderInv, Values
      <4> QED BY <2>1, <4>1, <4>2, <4>3 DEF NoAccept, KeepsSettled
    <3> QED BY <3>2, <3>3, <3>4
  <2>4. CASE TryArchiveExpiredLeases
    <3>1. \A k \in Leases : \/ lease'[k] = lease[k]
                            \/ lease[k] = "accepted" /\ lease'[k] = "expired"
      <4>1. lease' = [k \in Leases |->
                        IF ShouldArchiveExpiredLease(k) THEN "expired" ELSE lease[k]]
        BY <2>4 DEF TryArchiveExpiredLeases
      <4>2. \A k \in Leases : ShouldArchiveExpiredLease(k) => lease[k] = "accepted"
        BY DEF ShouldArchiveExpiredLease
      <4> QED BY <4>1, <4>2
    <3>2. lease' \in [Leases -> States]
      BY <2>1, <2>4 DEF TryArchiveExpiredLeases, States
    <3>3. offers \subseteq Leases
      BY DEF ProviderInv, Values
    <3> QED BY <2>1, <3>1, <3>2, <3>3 DEF NoAccept, KeepsSettled
  <2>5. AddSettle \/ TryArchiveExpiredLeases \/ UNCHANGED lease
    BY DEF SettleLoop, TrySettleExpiredLeases, SettleLease, FinishSettle,
       TeardownSettled, CleanupOrphanedVMs
  <2> QED BY <2>2, <2>3, <2>4, <2>5
<1>3. tunnel' \in [Leases -> {"none", "valid", "open"}]
  BY DEF ProviderInv, Values,
     SettleLoop, TrySettleExpiredLeases, SettleLease, AddSettle, FinishSettle,
     TeardownSettled, TryArchiveExpiredLeases, CleanupOrphanedVMs
<1>4. Values'
  BY <1>1, <1>2, <1>3 DEF ProviderInv, Values
<1>5. LoopInv'
  <2>1. CASE UNCHANGED loop
    BY <1>2, <2>1, LoopFrame DEF ProviderInv
  <2>2. CASE TrySettleExpiredLeases
    <3>1. Expired \subseteq Leases /\ renewed \subseteq Leases
      BY DEF Expired, ProviderInv, Values
    <3>2. loop' = [at |-> "settle", todo |-> Expired, of |-> None, seen |-> renewed]
      BY <2>2 DEF TrySettleExpiredLeases, IdleLoop
    <3> QED BY <3>1, <3>2 DEF LoopInv
  <2>3. CASE \E l \in Leases : SettleLease(l)
    <3>1. PICK l \in Leases : \/ loop' = [loop EXCEPT !.at = "settle", !.todo = @ \ {l}, !.of = None]
                              \/ loop' = [loop EXCEPT !.at = "add", !.of = l]
      BY <2>3 DEF SettleLease, NextLease
    <3>2. loop \in [at : {"idle", "settle", "add", "finish", "teardown"},
                    todo : SUBSET Leases, of : Leases \cup {None}, seen : SUBSET Leases]
      BY DEF ProviderInv, LoopInv
    <3> QED BY <3>1, <3>2 DEF LoopInv
  <2>4. CASE AddSettle
    <3>1. loop.at = "add" /\ loop.of \in Leases
      BY <2>4 DEF AddSettle, ProviderInv, LoopInv
    <3>2. CASE loop' = NextLease(loop.of)
      BY <3>2 DEF NextLease, ProviderInv, LoopInv
    <3>3. CASE /\ lease' = [lease EXCEPT ![loop.of] = "settled"]
               /\ loop' = [loop EXCEPT !.at = "finish"]
      <4>1. lease'[loop.of] = "settled"
        BY <3>1, <3>3 DEF ProviderInv, Values
      <4>2. loop'.at = "finish" /\ loop'.of = loop.of
        BY <3>3 DEF ProviderInv, LoopInv
      <4> QED BY <3>1, <3>3, <4>1, <4>2 DEF ProviderInv, LoopInv
    <3> QED BY <2>4, <3>2, <3>3 DEF AddSettle
  <2>5. CASE FinishSettle
    BY <2>5 DEF FinishSettle, NextLease, ProviderInv, LoopInv
  <2>6. CASE TeardownSettled
    BY <2>6 DEF TeardownSettled, NextLease, ProviderInv, LoopInv
  <2>7. CASE CleanupOrphanedVMs
    BY <2>7 DEF CleanupOrphanedVMs, LoopInv, IdleLoop
  <2>8. CASE TryArchiveExpiredLeases
    BY <2>1, <2>8 DEF TryArchiveExpiredLeases
  <2> QED BY <2>2, <2>3, <2>4, <2>5, <2>6, <2>7, <2>8 DEF SettleLoop
<1>6. RunTypes' /\ OneAttempt' /\ Locks'
  BY <1>1, <1>2, RunFrame, LockFrame DEF ProviderInv
<1>8. Booting' = Booting
  BY <1>1 DEF Booting
<1>9. NoOversubscription'
  BY <1>1, <1>8, FitFrame
<1> QED BY <1>4, <1>5, <1>6, <1>9 DEF ProviderInv

(* A restart forgets every attempt, machine and reservation. *)
LEMMA RestartInv == ASSUME ProviderInv, Restart PROVE ProviderInv'
<1> USE DEF market, ledger
<1>1. Values'
  BY DEF Restart, ProviderInv, Values
<1>2. RunTypes' /\ OneAttempt' /\ Locks' /\ LoopInv'
  BY ProviderAssumption DEF Restart, RunTypes, OneAttempt, Locks, LoopInv, Held,
     Trying, IdleRun, IdleLoop, Steps, At
<1>4. NoOversubscription'
  <2>1. Booting' = {} /\ vms' = {} /\ reserved' = 0
    BY DEF Restart, Booting, IdleRun
  <2>2. Used(vms' \cup Booting') = 0 /\ Used(Booting') = 0
    BY <2>1, UsedEmpty
  <2> QED BY <2>1, <2>2, ProviderAssumption DEF NoOversubscription
<1> QED BY <1>1, <1>2, <1>4 DEF ProviderInv

(* Stuttering keeps the invariant.                                         *)
LEMMA StutterInv == ASSUME ProviderInv, UNCHANGED vars PROVE ProviderInv'
<1>1. UNCHANGED <<offers, lease, phase, renewed, vms, reserved, manager, create,
                  inFlight, sched, run, loop, tunnel, lives>>
  BY DEF vars
<1>2. Values' /\ RunTypes' /\ OneAttempt' /\ Locks' /\ LoopInv'
  BY <1>1, RunFrame, LockFrame, LoopFrame
     DEF ProviderInv, Values, NoAccept, KeepsSettled
<1>3. Booting' = Booting
  BY <1>1 DEF Booting
<1>4. NoOversubscription'
  BY <1>1, <1>3, FitFrame
<1> QED BY <1>2, <1>4 DEF ProviderInv

(* Every step keeps the invariant.                                         *)
LEMMA NextInv == ASSUME ProviderInv, [Next]_vars PROVE ProviderInv'
<1>1. CASE \E l \in Leases : Outside(l) \/ LeaseWatchTick(l) \/ UndoAccept(l)
  BY <1>1, OutsideInv, WatchInv, UndoInv
<1>2. CASE \E w \in Workers : AutoAcceptLease(w)
  BY <1>2, AttemptInv
<1>3. CASE SettleLoop \/ Restart \/ UNCHANGED vars
  BY <1>3, SettleLoopInv, RestartInv, StutterInv
<1> QED BY <1>1, <1>2, <1>3 DEF Next, Outside

(* The inductive invariant of the provider's services holds: types, the    *)
(* locks of VMManager and Provider, and the reservation that covers        *)
(* exactly the machines being booted.                                      *)
THEOREM ProviderInvariant == Spec => []ProviderInv
BY InitInv, NextInv, PTL DEF Spec

-----------------------------------------------------------------------------
(* Machines that run and machines being booted fit the provider's capacity,*)
(* and the reservation is what is being booted, for any leases, sizes,     *)
(* goroutines and restarts.                                                *)
THEOREM CapacityHolds == Spec => []NoOversubscription
<1>1. ProviderInv => NoOversubscription
  BY DEF ProviderInv
<1> QED BY <1>1, ProviderInvariant, PTL

(* The provider's variables keep their types: what is reserved is within   *)
(* the capacity, and each mutex is held exactly where the code holds it.   *)
THEOREM ProviderTypes == Spec => []ProviderTypeOK
<1>1. ASSUME ProviderInv PROVE ProviderTypeOK
  <2>2. reserved \in 0..Capacity
    <3>1. vms \in SUBSET Leases /\ Booting \in SUBSET Leases
      BY <1>1, BootingType DEF ProviderInv, Values
    <3>2. PICK B : B = Booting
      OBVIOUS
    <3>3. B \in SUBSET Leases /\ Used(B) \in Nat
      BY <3>1, <3>2, UsedType
    <3>4. B \cup vms \in SUBSET Leases /\ B \in SUBSET (B \cup vms)
      BY <3>1, <3>3
    <3>5. Used(B) <= Used(B \cup vms) /\ Used(B \cup vms) \in Nat
      BY <3>4, UsedMonotone, UsedType
    <3>6. B \cup vms = vms \cup Booting
      BY <3>2
    <3>7. Used(B \cup vms) <= Capacity /\ reserved = Used(B)
      BY <1>1, <3>2, <3>6 DEF ProviderInv, NoOversubscription
    <3> QED BY <3>3, <3>5, <3>7, ProviderAssumption
  <2> QED BY <1>1, <2>2 DEF ProviderTypeOK, ProviderInv, Values, Locks
<1> QED BY <1>1, ProviderInvariant, PTL

(* While a lease stays accepted nothing takes its machine away: neither a  *)
(* goroutine that failed, nor the settle loop, nor the cleanup.            *)
THEOREM MachinesStay == Spec => MachineStaysWhileAccepted
<1> DEFINE Stays ==
        \A l \in Leases :
          /\ lease[l] = "accepted" /\ lease'[l] = "accepted" /\ l \in vms
          /\ lives' = lives
          => l \in vms'
<1>1. ASSUME ProviderInv, [Next]_vars PROVE Stays
  <2> USE DEF market, ledger, machines, accepts, rest
  <2>1. CASE UNCHANGED vms
    BY <2>1
  <2>2. CASE \E w \in Workers : Booted(w)
    BY <2>2 DEF Booted
  <2>3. ASSUME NEW w \in Workers, TeardownVM(w) PROVE Stays
    <3>1. vms' = vms \ {run[w].of} /\ lease[run[w].of] # "accepted"
      BY <1>1, <2>3 DEF TeardownVM, At, ProviderInv, OneAttempt, Trying
    <3> QED BY <3>1
  <2>4. CASE TeardownSettled
    <3>1. vms' = vms \ {loop.of} /\ lease[loop.of] = "settled"
      BY <1>1, <2>4 DEF TeardownSettled, ProviderInv, LoopInv
    <3> QED BY <3>1
  <2>5. CASE CleanupOrphanedVMs
    BY <2>5 DEF CleanupOrphanedVMs, Orphan, Terminal
  <2>6. CASE Restart
    <3>1. lives' # lives
      BY <1>1, <2>6 DEF Restart, ProviderInv, Values
    <3> QED BY <3>1
  <2>7. \/ UNCHANGED vms \/ (\E w \in Workers : Booted(w) \/ TeardownVM(w))
        \/ TeardownSettled \/ CleanupOrphanedVMs \/ Restart
    <3>1. CASE \E l \in Leases :
                 \/ HandleRequest(l) \/ RequestAndCreateLease(l)
                 \/ RequestLeaseTimesOut(l) \/ LeaseWatchTick(l)
                 \/ RetryDelayPasses(l) \/ ValidateTunnelLease(l) \/ DialSSH(l)
                 \/ TunnelEnds(l) \/ ConsumerCancels(l) \/ RenewLease(l)
                 \/ ForceSettleLease(l) \/ UndoAccept(l) \/ TimePasses(l)
      BY <3>1 DEF HandleRequest, RequestAndCreateLease, RequestLeaseTimesOut,
         LeaseWatchTick, RetryDelayPasses, ValidateTunnelLease, DialSSH, TunnelEnds,
         ConsumerCancels, RenewLease, ForceSettleLease, UndoAccept, TimePasses
    <3>2. CASE \E w \in Workers : AutoAcceptLease(w)
      BY <3>2 DEF AutoAcceptLease, BeginAccept, GatherAttestations, LockCreate, Reserve,
         Provision, VerifyMachine, AddAccept, EndAccept
    <3>3. CASE SettleLoop
      BY <3>3 DEF SettleLoop, TrySettleExpiredLeases, SettleLease, AddSettle,
         FinishSettle, TryArchiveExpiredLeases
    <3>4. CASE UNCHANGED vars
      BY <3>4 DEF vars
    <3> QED BY <1>1, <3>1, <3>2, <3>3, <3>4 DEF Next
  <2> QED BY <2>1, <2>2, <2>3, <2>4, <2>5, <2>6, <2>7
<1>2. ASSUME ProviderInv, [Next]_vars PROVE [Stays]_vars
  BY <1>1, <1>2
<1> QED BY <1>2, ProviderInvariant, PTL DEF Spec, MachineStaysWhileAccepted
=============================================================================
