---------------------------- MODULE LifecycleProofs ----------------------------
(***************************************************************************)
(* Theorems about Lifecycle, for any finite set of pods, any number of     *)
(* attempts to bind and any number of changes.                             *)
(*                                                                         *)
(* What shutdown promises is about goroutines that may be anywhere when it *)
(* cancels them.  The invariant says what each of them may hold where it   *)
(* is: the port only while serving, a republish of discover's only between *)
(* the wait and the end, and one of the handler's only while the informer  *)
(* runs, which discover outlives.                                          *)
(***************************************************************************)
EXTENDS Lifecycle, FiniteSetTheorems, TLAPS

\* Before start and after shutdown there are no goroutines.
LifeOK ==
  /\ life = "off" => listenPc = "off" /\ discoverPc = "off"
  /\ life = "down" => listenPc \in {"off", "left", "done"} /\ discoverPc \in {"off", "done"}

\* Only a serving listener, or one that left its conn open, has the port; one
\* that will try has attempts left.
ListenOK ==
  /\ port = "us" => listenPc \in {"serving", "left"}
  /\ listenPc \in {"off", "bind", "delay"} => attempts < bindAttempts

\* discover outlives the informer, and each publisher's owner its republish.
PublishOK ==
  /\ informer = "running" => discoverPc \in {"sync", "republish"}
  /\ pub["discover"] # "idle" => discoverPc = "republish"
  /\ pub["handler"] # "idle" => informer = "running"

IInv == TypeOK /\ LifeOK /\ ListenOK /\ PublishOK

-------------------------------------------------------------------------------
\* Siblings counts a finite set, so the gauge is a number (discovery.go, 120).
LEMMA GaugeIsNumber ==
  ASSUME NEW S \in SUBSET Pods
  PROVE  Cardinality(S) \in Nat
BY PodsAssumption, FS_Subset, FS_CardinalityType

\* A replica that has not started holds no port and publishes nothing.
LEMMA InitInv == Init => IInv
<1> SUFFICES ASSUME Init PROVE IInv
  OBVIOUS
<1>1. TypeOK
  <2>1. attempts \in 0..bindAttempts /\ changes \in 0..MaxChanges /\ peersTotal \in Nat
    BY BindAssumption, ChangesAssumption DEF Init
  <2>2. port \in {"nobody", "predecessor", "us"}
    BY DEF Init
  <2>3. cache \in [Pods -> PodStates] /\ pods \in [Pods -> PodStates]
    BY DEF Init, PodStates
  <2>4. /\ pub \in [Publishers -> {"idle", "list", "store", "gauge"}]
        /\ listed \in [Publishers -> SUBSET Pods] /\ peers \in SUBSET Pods
    BY DEF Init
  <2>5. predecessor \in BOOLEAN /\ cancelled \in BOOLEAN /\ synced \in BOOLEAN /\ notified \in BOOLEAN
    BY Zenon DEF Init
  <2>6. /\ life \in {"off", "running", "stopping", "down"}
        /\ listenPc \in {"off", "bind", "delay", "serving", "left", "closed", "done"}
        /\ discoverPc \in {"off", "setup", "sync", "republish", "done"}
        /\ informer \in {"off", "running", "stopped"}
    BY DEF Init
  <2> QED
    BY <2>1, <2>2, <2>3, <2>4, <2>5, <2>6, Zenon DEF TypeOK
<1>2. LifeOK /\ ListenOK /\ PublishOK
  BY BindAssumption DEF Init, LifeOK, ListenOK, PublishOK, Publishers
<1> QED
  BY <1>1, <1>2 DEF IInv

-------------------------------------------------------------------------------
(***************************************************************************)
(* The predecessor, start and shutdown.                                    *)
(***************************************************************************)
\* The predecessor takes the port from nobody and sets a gauge only.
LEMMA PredecessorInv ==
  ASSUME IInv, PredecessorPublishes \/ PredecessorEnds
  PROVE  IInv'
<1> USE DEF IInv, LifeOK, ListenOK, PublishOK, lifeVars, listenVars, informerVars, publishVars, apiVars
<1>1. CASE PredecessorPublishes
  <2>1. PICK n \in 0..Cardinality(Pods) : peersTotal' = n
    BY <1>1 DEF PredecessorPublishes
  <2>2. peersTotal' \in Nat
    BY <2>1, GaugeIsNumber
  <2> QED
    BY <1>1, <2>2 DEF PredecessorPublishes, TypeOK
<1>2. CASE PredecessorReleases
  BY <1>2 DEF PredecessorReleases, TypeOK
<1>3. CASE PredecessorDown
  <2>1. predecessor' \in BOOLEAN
    BY <1>3, Zenon DEF PredecessorDown
  <2> QED
    BY <1>3, <2>1 DEF PredecessorDown, TypeOK
<1> QED
  BY <1>1, <1>2, <1>3 DEF PredecessorEnds

\* start finds no goroutines, shutdown's return waits for both (setup.go, 96-123).
LEMMA LifeInv ==
  ASSUME IInv, Start \/ StartWithoutIP \/ ShutdownUnstarted \/ Shutdown \/ ShutdownReturns
  PROVE  IInv'
<1> USE DEF IInv, LifeOK, ListenOK, PublishOK, TypeOK, lifeVars, listenVars, informerVars, publishVars, apiVars
<1>1. CASE Start
  BY <1>1 DEF Start
<1>2. CASE StartWithoutIP
  BY <1>2 DEF StartWithoutIP
<1>3. CASE Shutdown
  BY <1>3 DEF Shutdown
<1>4. CASE ShutdownReturns
  BY <1>4 DEF ShutdownReturns
<1>5. CASE ShutdownUnstarted
  BY <1>5 DEF ShutdownUnstarted
<1> QED
  BY <1>1, <1>2, <1>3, <1>4, <1>5

-------------------------------------------------------------------------------
(***************************************************************************)
(* The listener goroutine.                                                 *)
(***************************************************************************)
\* The port is taken with the step to serving and given up with the step from it.
LEMMA ListenInv ==
  ASSUME IInv, ListenStep \/ ServeFails \/ NeverServes
  PROVE  IInv'
<1> USE DEF IInv, LifeOK, ListenOK, PublishOK, TypeOK, notListening,
            lifeVars, informerVars, publishVars, apiVars
<1>1. CASE Bind
  BY <1>1 DEF Bind
<1>2. CASE BindFails
  <2>1. attempts' \in 0..bindAttempts
    BY <1>2, BindAssumption DEF BindFails
  <2>2. listenPc' = "delay" => attempts' < bindAttempts
    BY <1>2, <2>1, BindAssumption DEF BindFails
  <2> QED
    BY <1>2, <2>1, <2>2 DEF BindFails
<1>3. CASE DelayOver
  BY <1>3 DEF DelayOver
<1>4. CASE DelayCancelled
  BY <1>4 DEF DelayCancelled
<1>5. CASE CloseConn
  BY <1>5 DEF CloseConn
<1>6. CASE ServeReturns
  BY <1>6 DEF ServeReturns
<1>7. CASE ServeFails
  BY <1>7 DEF ServeFails
<1>8. CASE NeverServes
  BY <1>8 DEF NeverServes
<1> QED
  BY <1>1, <1>2, <1>3, <1>4, <1>5, <1>6, <1>7, <1>8 DEF ListenStep

-------------------------------------------------------------------------------
(***************************************************************************)
(* discover, the informer and republish.                                   *)
(***************************************************************************)
\* discover ends with no republish of its own and after the informer.
LEMMA DiscoverInv ==
  ASSUME IInv, DiscoverStep
  PROVE  IInv'
<1> USE DEF IInv, LifeOK, ListenOK, PublishOK, TypeOK, lifeVars, listenVars, informerVars, publishVars, apiVars
<1>1. CASE SetupFails
  BY <1>1 DEF SetupFails
<1>2. CASE StartFactory
  BY <1>2 DEF StartFactory
<1>3. CASE WaitForCacheSync
  BY <1>3 DEF WaitForCacheSync, Publishers
<1>4. CASE DiscoverEnds
  BY <1>4 DEF DiscoverEnds
<1> QED
  BY <1>1, <1>2, <1>3, <1>4 DEF DiscoverStep

\* The informer starts no handler once it has stopped.
LEMMA InformerInv ==
  ASSUME IInv,
         \/ \E p \in Pods : PodChanges(p)
         \/ InformerStep \/ Resync \/ InformerStops \/ Handle
  PROVE  IInv'
<1> USE DEF IInv, LifeOK, ListenOK, PublishOK, TypeOK, lifeVars, listenVars, informerVars, publishVars, apiVars
<1>1. ASSUME NEW p \in Pods, PodChanges(p) PROVE IInv'
  <2>1. changes' \in 0..MaxChanges
    BY <1>1, ChangesAssumption DEF PodChanges
  <2>2. pods' \in [Pods -> PodStates]
    BY <1>1 DEF PodChanges
  <2> QED
    BY <1>1, <2>1, <2>2 DEF PodChanges
<1>2. ASSUME NEW p \in Pods, Learn(p) PROVE IInv'
  BY <1>2 DEF Learn
<1>3. CASE Synced
  BY <1>3 DEF Synced
<1>4. CASE Resync
  BY <1>4 DEF Resync
<1>5. CASE InformerStops
  BY <1>5 DEF InformerStops
<1>6. CASE Handle
  BY <1>6 DEF Handle, Publishers
<1> QED
  BY <1>1, <1>2, <1>3, <1>4, <1>5, <1>6 DEF InformerStep

\* A publisher at work is not idle, so its owner is there; the gauge gets a count.
LEMMA RepublishInv ==
  ASSUME IInv, NEW t \in Publishers, Republish(t)
  PROVE  IInv'
<1> USE DEF IInv, LifeOK, ListenOK, PublishOK, lifeVars, listenVars, informerVars, publishVars, apiVars
<1>1. CASE List(t)
  <2>1. Siblings(cache) \in SUBSET Pods
    BY DEF Siblings
  <2>2. TypeOK'
    BY <1>1, <2>1 DEF List, TypeOK
  <2>3. PublishOK'
    BY <1>1 DEF List, TypeOK, Publishers
  <2> QED
    BY <1>1, <2>2, <2>3 DEF List
<1>2. CASE Store(t)
  <2>1. TypeOK'
    BY <1>2 DEF Store, TypeOK
  <2>2. PublishOK'
    BY <1>2 DEF Store, TypeOK, Publishers
  <2> QED
    BY <1>2, <2>1, <2>2 DEF Store
<1>3. CASE SetGauge(t)
  <2>1. peersTotal' \in Nat
    BY <1>3, GaugeIsNumber DEF SetGauge, TypeOK
  <2>2. TypeOK'
    BY <1>3, <2>1 DEF SetGauge, TypeOK
  <2>3. PublishOK'
    BY <1>3 DEF SetGauge, TypeOK, Publishers
  <2> QED
    BY <1>3, <2>2, <2>3 DEF SetGauge
<1> QED
  BY <1>1, <1>2, <1>3 DEF Republish

-------------------------------------------------------------------------------
\* IInv is inductive.
LEMMA NextInv == IInv /\ [Next]_vars => IInv'
<1> SUFFICES ASSUME IInv, [Next]_vars PROVE IInv'
  OBVIOUS
<1>1. CASE PredecessorPublishes \/ PredecessorEnds
  BY <1>1, PredecessorInv
<1>2. CASE Start \/ StartWithoutIP \/ ShutdownUnstarted \/ Shutdown \/ ShutdownReturns
  BY <1>2, LifeInv
<1>3. CASE ListenStep \/ ServeFails \/ NeverServes
  BY <1>3, ListenInv
<1>4. CASE DiscoverStep
  BY <1>4, DiscoverInv
<1>5. CASE (\E p \in Pods : PodChanges(p)) \/ InformerStep \/ Resync \/ InformerStops \/ Handle
  BY <1>5, InformerInv
<1>6. CASE \E t \in Publishers : Republish(t)
  BY <1>6, RepublishInv
<1>7. CASE UNCHANGED vars
  BY <1>7 DEF vars, lifeVars, listenVars, informerVars, publishVars, apiVars,
              IInv, TypeOK, LifeOK, ListenOK, PublishOK
<1> QED
  BY <1>1, <1>2, <1>3, <1>4, <1>5, <1>6, <1>7 DEF Next

\* The invariant holds of every behaviour.
LEMMA Invariance == Spec => []IInv
<1>1. Init => IInv
  BY InitInv
<1>2. IInv /\ [Next]_vars => IInv'
  BY NextInv
<1> QED
  BY <1>1, <1>2, PTL DEF Spec

-------------------------------------------------------------------------------
(***************************************************************************)
(* Every variable keeps its type; in particular bind never makes more than *)
(* bindAttempts attempts (listener.go, 62).                                *)
(***************************************************************************)
THEOREM TypeCorrect == Spec => []TypeOK
<1>1. IInv => TypeOK
  BY DEF IInv
<1> QED
  BY <1>1, Invariance, PTL

(***************************************************************************)
(* When shutdown has returned, this generation does not hold the port,     *)
(* wherever its listener was in bind or serve, unless it never served the  *)
(* conn it had bound (setup.go, 120-121).                                  *)
(***************************************************************************)
THEOREM PortIsFreed == Spec => []PortFreeAfterShutdown
<1>1. IInv => PortFreeAfterShutdown
  BY DEF IInv, LifeOK, ListenOK, PortFreeAfterShutdown
<1> QED
  BY <1>1, Invariance, PTL

(***************************************************************************)
(* When shutdown has returned, neither goroutine is in republish and the   *)
(* informer starts none: the gauge is the next generation's alone          *)
(* (discovery.go, 88-89).                                                  *)
(***************************************************************************)
THEOREM GoesQuiet == Spec => []QuietAfterShutdown
<1>1. IInv => QuietAfterShutdown
  BY DEF IInv, LifeOK, PublishOK, QuietAfterShutdown, Publishers
<1> QED
  BY <1>1, Invariance, PTL
===============================================================================
