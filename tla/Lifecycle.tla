------------------------------- MODULE Lifecycle -------------------------------
(***************************************************************************)
(* The life of the peercache plugin on one replica: start and shutdown     *)
(* (setup.go), the probe listener's socket (listener.go) and the peer set  *)
(* kept by an informer (discovery.go).                                     *)
(*                                                                         *)
(* A Corefile change makes caddy start a new generation of the plugin and  *)
(* only then shut the old one down.  The module follows one generation.    *)
(* Of its predecessor, the same code, it assumes what it shows of this     *)
(* one: it may set the gauge until its shutdown returns and hold the port, *)
(* but shutdown returns and the port is released (QuietAfterShutdown,      *)
(* ShutdownEnds, PortReleased).                                            *)
(*                                                                         *)
(* The peer set is published by two goroutines, discover and the           *)
(* informer's handler, in three steps that interleave: list the informer's *)
(* cache, store the peer set, set the gauge.                               *)
(***************************************************************************)
EXTENDS Naturals, FiniteSets

CONSTANTS
  Pods,           \* the other pods that may match the selector
  bindAttempts,   \* how often bind tries
  MaxChanges      \* bound on the changes of pods

ASSUME PodsAssumption == IsFiniteSet(Pods)
ASSUME BindAssumption == bindAttempts \in Nat \ {0}
ASSUME ChangesAssumption == MaxChanges \in Nat

\* An unfit pod has no address, is not in phase Running or is being deleted.
PodStates == {"absent", "unfit", "running"}

Publishers == {"discover", "handler"}

VARIABLES
  predecessor,    \* the previous generation is still there
  life,           \* "off", "running", "stopping" or "down"
  cancelled,      \* the context is done
  listenPc,       \* where the listener goroutine is
  attempts,       \* failed attempts of bind
  port,           \* who holds the port: "nobody", "predecessor" or "us"
  discoverPc,     \* where discover is
  informer,       \* "off", "running" or "stopped"
  synced,         \* the informer's first list is in its cache
  cache,          \* cache[p]: p as the informer last saw it
  notified,       \* an event waits for the handler
  pub,            \* pub[t]: where t is in republish
  listed,         \* listed[t]: the peers t found
  peers,          \* the published peer set
  peersTotal,     \* the peers gauge, one for the process
  pods,           \* pods[p]: p as the API server knows it
  changes         \* number of changes so far

lifeVars == <<predecessor, life, cancelled>>
listenVars == <<listenPc, attempts, port>>
informerVars == <<informer, synced, cache, notified>>
publishVars == <<pub, listed, peers, peersTotal>>
apiVars == <<pods, changes>>
vars == <<lifeVars, listenVars, discoverPc, informerVars, publishVars, apiVars>>

-------------------------------------------------------------------------------
Init ==
  /\ predecessor \in BOOLEAN
  /\ port = IF predecessor THEN "predecessor" ELSE "nobody"
  /\ life = "off"
  /\ cancelled = FALSE
  /\ listenPc = "off"
  /\ attempts = 0
  /\ discoverPc = "off"
  /\ informer = "off"
  /\ synced = FALSE
  /\ cache = [p \in Pods |-> "absent"]
  /\ notified = FALSE
  /\ pub = [t \in Publishers |-> "idle"]
  /\ listed = [t \in Publishers |-> {}]
  /\ peers = {}
  /\ peersTotal = 0
  /\ pods = [p \in Pods |-> "absent"]
  /\ changes = 0

-------------------------------------------------------------------------------
(***************************************************************************)
(* The predecessor.                                                        *)
(***************************************************************************)
PredecessorPublishes ==
  /\ predecessor
  /\ \E n \in 0..Cardinality(Pods) : peersTotal' = n
  /\ UNCHANGED <<lifeVars, listenVars, discoverPc, informerVars, pub, listed, peers, apiVars>>

\* Its conn is closed, most often before its shutdown returns.
PredecessorReleases ==
  /\ port = "predecessor"
  /\ port' = "nobody"
  /\ UNCHANGED <<lifeVars, listenPc, attempts, discoverPc, informerVars, publishVars, apiVars>>

PredecessorDown ==
  /\ predecessor /\ life # "off"
  /\ predecessor' = FALSE
  /\ UNCHANGED <<life, cancelled, listenVars, discoverPc, informerVars, publishVars, apiVars>>

-------------------------------------------------------------------------------
(***************************************************************************)
(* start and shutdown.                                                     *)
(***************************************************************************)
Start ==
  /\ life = "off"
  /\ life' = "running"
  /\ listenPc' = "bind"
  /\ discoverPc' = "setup"
  /\ UNCHANGED <<predecessor, cancelled, attempts, port, informerVars, publishVars, apiVars>>

\* Without POD_IP no goroutine is started.
StartWithoutIP ==
  /\ life = "off"
  /\ life' = "running"
  /\ listenPc' = "done"
  /\ discoverPc' = "done"
  /\ UNCHANGED <<predecessor, cancelled, attempts, port, informerVars, publishVars, apiVars>>

\* Without a start before it, p.stop is nil and there is nothing to stop.
ShutdownUnstarted ==
  /\ life = "off"
  /\ life' = "down"
  /\ UNCHANGED <<predecessor, cancelled, listenVars, discoverPc, informerVars, publishVars, apiVars>>

Shutdown ==
  /\ life = "running"
  /\ life' = "stopping"
  /\ cancelled' = TRUE
  /\ UNCHANGED <<predecessor, listenVars, discoverPc, informerVars, publishVars, apiVars>>

\* wg.Wait() returns.
ShutdownReturnsEarly ==                     \* mutant: wg.Add(1), the listener is not waited for
  /\ life = "stopping"
  /\ discoverPc = "done"
  /\ life' = "down"
  /\ UNCHANGED <<predecessor, cancelled, listenVars, discoverPc, informerVars, publishVars, apiVars>>
ShutdownReturns ==
  /\ life = "stopping"
  /\ listenPc \in {"left", "done"} /\ discoverPc = "done"
  /\ life' = "down"
  /\ UNCHANGED <<predecessor, cancelled, listenVars, discoverPc, informerVars, publishVars, apiVars>>

-------------------------------------------------------------------------------
(***************************************************************************)
(* listen: bind, then serve until the context ends.  Only a generation     *)
(* that holds the port keeps another from it.                              *)
(***************************************************************************)
notListening == <<lifeVars, discoverPc, informerVars, publishVars, apiVars>>

Bind ==
  /\ listenPc = "bind"
  /\ port = "nobody"
  /\ port' = "us"
  /\ listenPc' = "serving"
  /\ UNCHANGED <<attempts, notListening>>

BindFailsForever ==                         \* mutant: the last attempt is not noticed
  /\ listenPc = "bind"
  /\ port # "nobody"
  /\ attempts' = attempts + 1
  /\ listenPc' = "delay"
  /\ UNCHANGED <<port, notListening>>
BindFails ==
  /\ listenPc = "bind"
  /\ port # "nobody"
  /\ attempts' = attempts + 1
  /\ listenPc' = IF attempts' = bindAttempts THEN "done" ELSE "delay"
  /\ UNCHANGED <<port, notListening>>

\* The select between two attempts.
DelayIsLast ==                              \* mutant: one attempt too few
  /\ listenPc = "delay"
  /\ listenPc' = IF attempts = bindAttempts - 1 THEN "done" ELSE "bind"
  /\ UNCHANGED <<attempts, port, notListening>>
DelayOver ==
  /\ listenPc = "delay"
  /\ listenPc' = "bind"
  /\ UNCHANGED <<attempts, port, notListening>>

DelayCancelled ==
  /\ listenPc = "delay"
  /\ cancelled
  /\ listenPc' = "done"
  /\ UNCHANGED <<attempts, port, notListening>>

\* The goroutine started by serve closes the conn when the context ends, which
\* is what makes ActivateAndServe return.  It is there after serve has returned.
CloseConnWhileServing ==                    \* mutant: the goroutine ends with serve
  /\ listenPc = "serving"
  /\ cancelled
  /\ port' = "nobody"
  /\ listenPc' = "closed"
  /\ UNCHANGED <<attempts, notListening>>
CloseConn ==
  /\ listenPc \in {"serving", "left"}
  /\ cancelled
  /\ port' = "nobody"
  /\ listenPc' = IF listenPc = "serving" THEN "closed" ELSE "done"
  /\ UNCHANGED <<attempts, notListening>>

ServeReturns ==
  /\ listenPc = "closed"
  /\ listenPc' = "done"
  /\ UNCHANGED <<attempts, port, notListening>>

\* ActivateAndServe fails while it serves, and has closed the conn.
ServeFails ==
  /\ listenPc = "serving"
  /\ port' = "nobody"
  /\ listenPc' = "done"
  /\ UNCHANGED <<attempts, notListening>>

\* ActivateAndServe fails before it serves, on an option of the socket, and
\* leaves the conn open: the listener is done, the port is not free.
NeverServes ==
  /\ listenPc = "serving"
  /\ listenPc' = "left"
  /\ UNCHANGED <<attempts, port, notListening>>

-------------------------------------------------------------------------------
(***************************************************************************)
(* discover.                                                               *)
(***************************************************************************)

\* The namespace file, the config, the client or the handler fails.
SetupFails ==
  /\ discoverPc = "setup"
  /\ discoverPc' = "done"
  /\ UNCHANGED <<lifeVars, listenVars, informerVars, publishVars, apiVars>>

StartFactory ==
  /\ discoverPc = "setup"
  /\ informer' = "running"
  /\ discoverPc' = "sync"
  /\ UNCHANGED <<lifeVars, listenVars, synced, cache, notified, publishVars, apiVars>>

\* WaitForCacheSync returns, and discover goes on to republish.
WaitForCacheSyncOnly ==                     \* mutant: the wait does not see the context
  /\ discoverPc = "sync"
  /\ synced
  /\ discoverPc' = "republish"
  /\ pub' = [pub EXCEPT !["discover"] = "list"]
  /\ UNCHANGED <<lifeVars, listenVars, informerVars, listed, peers, peersTotal, apiVars>>
WaitForCacheSync ==
  /\ discoverPc = "sync"
  /\ synced \/ cancelled
  /\ discoverPc' = "republish"
  /\ pub' = [pub EXCEPT !["discover"] = "list"]
  /\ UNCHANGED <<lifeVars, listenVars, informerVars, listed, peers, peersTotal, apiVars>>

\* <-ctx.Done() and factory.Shutdown, which waits for the informer.
DiscoverLeaves ==                           \* mutant: factory.Shutdown forgotten
  /\ discoverPc = "republish" /\ pub["discover"] = "idle"
  /\ cancelled
  /\ discoverPc' = "done"
  /\ UNCHANGED <<lifeVars, listenVars, informerVars, publishVars, apiVars>>
DiscoverEnds ==
  /\ discoverPc = "republish" /\ pub["discover"] = "idle"
  /\ cancelled /\ informer = "stopped"
  /\ discoverPc' = "done"
  /\ UNCHANGED <<lifeVars, listenVars, informerVars, publishVars, apiVars>>

-------------------------------------------------------------------------------
(***************************************************************************)
(* The API server and the informer.  The informer learns of one pod at a   *)
(* time and may miss states in between.  Its cache holds this replica's    *)
(* own pod too, so that a resync always has something to report.           *)
(***************************************************************************)
PodChanges(p) ==
  /\ changes < MaxChanges
  /\ \E s \in PodStates \ {pods[p]} : pods' = [pods EXCEPT ![p] = s]
  /\ changes' = changes + 1
  /\ UNCHANGED <<lifeVars, listenVars, discoverPc, informerVars, publishVars>>

Learn(p) ==
  /\ informer = "running"
  /\ cache[p] # pods[p]
  /\ cache' = [cache EXCEPT ![p] = pods[p]]
  /\ notified' = TRUE
  /\ UNCHANGED <<lifeVars, listenVars, discoverPc, informer, synced, publishVars, apiVars>>

\* The first list is complete; it held at least this replica's own pod.
Synced ==
  /\ informer = "running"
  /\ ~synced /\ cache = pods
  /\ synced' = TRUE
  /\ notified' = TRUE
  /\ UNCHANGED <<lifeVars, listenVars, discoverPc, informer, cache, publishVars, apiVars>>

ResyncNever == FALSE /\ UNCHANGED vars       \* mutant: a resync period of 0
Resync ==
  /\ informer = "running" /\ synced /\ ~cancelled
  /\ notified' = TRUE
  /\ UNCHANGED <<lifeVars, listenVars, discoverPc, informer, synced, cache, publishVars, apiVars>>

\* The informer ends with the context, once its handler is not at work.
InformerStops ==
  /\ informer = "running"
  /\ cancelled /\ pub["handler"] = "idle"
  /\ informer' = "stopped"
  /\ notified' = FALSE
  /\ UNCHANGED <<lifeVars, listenVars, discoverPc, synced, cache, publishVars, apiVars>>

-------------------------------------------------------------------------------
(***************************************************************************)
(* republish.  The lister reads the informer's cache and cannot fail.      *)
(***************************************************************************)
Handle ==
  /\ informer = "running"
  /\ notified /\ pub["handler"] = "idle"
  /\ notified' = FALSE
  /\ pub' = [pub EXCEPT !["handler"] = "list"]
  /\ UNCHANGED <<lifeVars, listenVars, discoverPc, informer, synced, cache, listed, peers, peersTotal, apiVars>>

\* The pods republish keeps.
Siblings(known) == {p \in Pods : known[p] = "running"}

List(t) ==
  /\ pub[t] = "list"
  /\ listed' = [listed EXCEPT ![t] = Siblings(cache)]
  /\ pub' = [pub EXCEPT ![t] = "store"]
  /\ UNCHANGED <<lifeVars, listenVars, discoverPc, informerVars, peers, peersTotal, apiVars>>

Store(t) ==
  /\ pub[t] = "store"
  /\ peers' = listed[t]
  /\ pub' = [pub EXCEPT ![t] = "gauge"]
  /\ UNCHANGED <<lifeVars, listenVars, discoverPc, informerVars, listed, peersTotal, apiVars>>

SetGauge(t) ==
  /\ pub[t] = "gauge"
  /\ peersTotal' = Cardinality(listed[t])
  /\ listed' = [listed EXCEPT ![t] = {}]
  /\ pub' = [pub EXCEPT ![t] = "idle"]
  /\ UNCHANGED <<lifeVars, listenVars, discoverPc, informerVars, peers, apiVars>>

-------------------------------------------------------------------------------
PredecessorEnds == PredecessorReleases \/ PredecessorDown

ListenStep == Bind \/ BindFails \/ DelayOver \/ DelayCancelled \/ CloseConn \/ ServeReturns

DiscoverStep == SetupFails \/ StartFactory \/ WaitForCacheSync \/ DiscoverEnds

InformerStep == Synced \/ \E p \in Pods : Learn(p)

Republish(t) == List(t) \/ Store(t) \/ SetGauge(t)

Next ==
  \/ PredecessorPublishes
  \/ PredecessorEnds
  \/ Start \/ StartWithoutIP
  \/ ShutdownUnstarted \/ Shutdown
  \/ ShutdownReturns
  \/ ListenStep
  \/ ServeFails \/ NeverServes
  \/ DiscoverStep
  \/ \E p \in Pods : PodChanges(p)
  \/ InformerStep
  \/ Resync
  \/ InformerStops
  \/ Handle
  \/ \E t \in Publishers : Republish(t)

(***************************************************************************)
(* Goroutines run and a delay ends.  The informer keeps up with an API     *)
(* server that answers: client-go lists and watches again after every      *)
(* failure, and resyncs every resyncPeriod.  The predecessor is shut down, *)
(* by ShutdownEnds.  Nothing is assumed of pods, of this generation's own  *)
(* shutdown or of the API server before the first list.                    *)
(***************************************************************************)
Fairness ==
  /\ WF_vars(life # "off" /\ PredecessorEnds)
  /\ WF_vars(ShutdownReturns)
  /\ WF_vars(ListenStep)
  /\ WF_vars(DiscoverStep)
  /\ WF_vars(synced /\ InformerStep)
  /\ WF_vars(Resync)
  /\ WF_vars(InformerStops)
  /\ WF_vars(Handle)
  /\ \A t \in Publishers : WF_vars(Republish(t))

Spec == Init /\ [][Next]_vars

FairSpec == Spec /\ Fairness

-------------------------------------------------------------------------------
(***************************************************************************)
(* Properties.                                                             *)
(***************************************************************************)

\* Also: bind never makes more than bindAttempts attempts.
TypeOK ==
  /\ predecessor \in BOOLEAN
  /\ life \in {"off", "running", "stopping", "down"}
  /\ cancelled \in BOOLEAN
  /\ listenPc \in {"off", "bind", "delay", "serving", "left", "closed", "done"}
  /\ attempts \in 0..bindAttempts
  /\ port \in {"nobody", "predecessor", "us"}
  /\ discoverPc \in {"off", "setup", "sync", "republish", "done"}
  /\ informer \in {"off", "running", "stopped"}
  /\ synced \in BOOLEAN
  /\ cache \in [Pods -> PodStates]
  /\ notified \in BOOLEAN
  /\ pub \in [Publishers -> {"idle", "list", "store", "gauge"}]
  /\ listed \in [Publishers -> SUBSET Pods]
  /\ peers \in SUBSET Pods
  /\ peersTotal \in Nat
  /\ pods \in [Pods -> PodStates]
  /\ changes \in 0..MaxChanges

(***************************************************************************)
(* When shutdown has returned, this generation does not hold the port, no  *)
(* matter where in bind or serve its listener was when it was cancelled:   *)
(* the next generation's attempts can succeed (setup.go, 111-123).  The    *)
(* exception is a conn that was never served, which shutdown does not wait *)
(* to see closed.                                                          *)
(***************************************************************************)
PortFreeAfterShutdown == life = "down" /\ listenPc # "left" => port # "us"

(***************************************************************************)
(* When shutdown has returned, this generation publishes nothing any more, *)
(* from either goroutine: it does not overwrite the gauge that the next    *)
(* generation has set (discovery.go, 88-89).                               *)
(***************************************************************************)
QuietAfterShutdown == life = "down" => informer # "running" /\ \A t \in Publishers : pub[t] = "idle"

\* shutdown returns, wherever both goroutines were when it cancelled them.
ShutdownEnds == life = "stopping" ~> life = "down"

(***************************************************************************)
(* Once shutdown has returned the port becomes free in any case, a conn    *)
(* that was never served included: the goroutine that waits for the        *)
(* context outlives the listener (listener.go, 43-46).                     *)
(***************************************************************************)
PortReleased == life = "down" ~> port # "us"

(***************************************************************************)
(* discover "keeps the peer set in step with the running pods": when pods  *)
(* have stopped changing, the peer set and the gauge of a generation that  *)
(* stays end up right.  An older list may be stored over a newer one by    *)
(* the other goroutine (discovery.go, 86), and the predecessor may set the *)
(* gauge last; the resync repairs both.                                    *)
(***************************************************************************)
InStep == peers = Siblings(pods) /\ peersTotal = Cardinality(Siblings(pods))

PeersSettle == <>[](life = "running" /\ synced) => <>[]InStep

(***************************************************************************)
(* A listener that still tries for the port does not miss it once the      *)
(* predecessor has released it (listener.go, 58-82).                       *)
(***************************************************************************)
PortIsTaken == listenPc \in {"bind", "delay"} /\ port = "nobody" ~> port = "us" \/ cancelled
===============================================================================
