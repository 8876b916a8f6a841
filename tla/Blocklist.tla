------------------------------- MODULE Blocklist -------------------------------
(***************************************************************************)
(* The blocklist plugin: how the list in force is kept, published and      *)
(* reported (plugin/blocklist/blocklist.go).                               *)
(*                                                                         *)
(* A Corefile change makes the reload plugin build a new generation of the *)
(* plugin, start it, and then shut the old one down.  Every generation     *)
(* runs two goroutines: the refresh loop, which fetches every source in    *)
(* turn and publishes a new matcher, and failOpenAfterTimeout, which       *)
(* reports ready without a list once ready_timeout has passed.  Queries    *)
(* read the matcher in force without a lock.  The gauges are process-wide: *)
(* all generations write the same ones.                                    *)
(*                                                                         *)
(* A list is a set of names; ListLoading says what a list covers.  The     *)
(* sources are visited in the order of the Corefile, but their last good   *)
(* copies are kept by URL: parseConfig takes one URL twice, and then the   *)
(* two visits of a reload share a copy.                                    *)
(***************************************************************************)
EXTENDS Naturals, FiniteSets, Sequences

CONSTANTS
  Generations,    \* generations are 1..Generations, in the order they start
  Urls,           \* URLs a source can have
  urls,           \* b.urls: the sources, in order
  Names,          \* names that can be listed
  Allow           \* b.allow: names the Corefile exempts

ASSUME GenerationsAssumption == Generations \in Nat \ {0}
ASSUME UrlsAssumption == urls \in Seq(Urls) /\ urls # <<>>
ASSUME NamesAssumption == IsFiniteSet(Names)
ASSUME AllowAssumption == Allow \subseteq Names

Gens == 1..Generations
NumUrls == Len(urls)

\* A matcher: nil, or the block set of one that was published.
NoList == [loaded |-> FALSE, block |-> {}]
List(names) == [loaded |-> TRUE, block |-> names]

VARIABLES
  life,           \* life[g]: "absent", "running", "stopping" or "down"
  cancelled,      \* cancelled[g]: the generation's context is done
  refreshPc,      \* refreshPc[g]: where the refresh goroutine is
  idx,            \* idx[g]: the source reload is at
  merged,         \* merged[g]: entries reload has collected so far
  lastGood,       \* lastGood[g][u]: entries of the last good fetch of u, or {}
  current,        \* current[g]: the published matcher
  ready,          \* ready[g]: what Ready() returns
  timerPc,        \* timerPc[g]: where failOpenAfterTimeout is
  failOpen,       \* the fail_open gauge
  domainsTotal    \* the domains_total gauge

lifeVars == <<life, cancelled>>
reloadVars == <<refreshPc, idx, merged, lastGood>>
gauges == <<failOpen, domainsTotal>>
vars == <<lifeVars, reloadVars, current, ready, timerPc, gauges>>

-------------------------------------------------------------------------------
Init ==
  /\ life = [g \in Gens |-> "absent"]
  /\ cancelled = [g \in Gens |-> FALSE]
  /\ refreshPc = [g \in Gens |-> "off"]
  /\ idx = [g \in Gens |-> 1]
  /\ merged = [g \in Gens |-> {}]
  /\ lastGood = [g \in Gens |-> [u \in Urls |-> {}]]
  /\ current = [g \in Gens |-> NoList]
  /\ ready = [g \in Gens |-> FALSE]
  /\ timerPc = [g \in Gens |-> "off"]
  /\ failOpen = 0
  /\ domainsTotal = 0

At(g, pc) == refreshPc[g] = pc
Goto(g, pc) == refreshPc' = [refreshPc EXCEPT ![g] = pc]

(***************************************************************************)
(* start launches both goroutines.  The next generation is started while   *)
(* the one before it still runs.                                           *)
(***************************************************************************)
Start(g) ==
  /\ life[g] = "absent"
  /\ g > 1 => life[g - 1] = "running"
  /\ life' = [life EXCEPT ![g] = "running"]
  /\ Goto(g, "check")
  /\ timerPc' = [timerPc EXCEPT ![g] = "waiting"]
  /\ UNCHANGED <<cancelled, idx, merged, lastGood, current, ready, gauges>>

\* shutdown cancels the context and waits for the refresh loop, and only for
\* it: failOpenAfterTimeout may still be running when it returns.
Shutdown(g) ==
  /\ life[g] = "running"
  /\ life' = [life EXCEPT ![g] = "stopping"]
  /\ cancelled' = [cancelled EXCEPT ![g] = TRUE]
  /\ UNCHANGED <<reloadVars, current, ready, timerPc, gauges>>

ShutdownReturns(g) ==
  /\ life[g] = "stopping"
  /\ At(g, "done")
  /\ life' = [life EXCEPT ![g] = "down"]
  /\ UNCHANGED <<cancelled, reloadVars, current, ready, timerPc, gauges>>

-------------------------------------------------------------------------------
(***************************************************************************)
(* reload, on the refresh goroutine.                                       *)
(***************************************************************************)

\* The head of the loop over the sources: done with all of them, cancelled, or
\* on to the next fetch.
AllFetched(g) == idx[g] > NumUrls

Check(g) ==
  /\ At(g, "check")
  /\ ~AllFetched(g)
  /\ Goto(g, IF cancelled[g] THEN "wait" ELSE "fetch")
  /\ UNCHANGED <<lifeVars, idx, merged, lastGood, current, ready, timerPc, gauges>>

\* What fetch returns when it succeeds: never nothing, because a page without a
\* single entry is an error.
FetchResults == (SUBSET Names) \ {{}}

Fetched(g) ==
  /\ At(g, "fetch")
  /\ \E names \in FetchResults :
       /\ lastGood' = [lastGood EXCEPT ![g][urls[idx[g]]] = names]
       /\ merged' = [merged EXCEPT ![g] = @ \cup names]
  /\ idx' = [idx EXCEPT ![g] = @ + 1]
  /\ Goto(g, "check")
  /\ UNCHANGED <<lifeVars, current, ready, timerPc, gauges>>

\* fetch failed, or the context ended under it: the last good copy stands in.
FetchFailedDropsSource(g) ==                \* mutant: lastGood not consulted
  /\ At(g, "fetch")
  /\ idx' = [idx EXCEPT ![g] = @ + 1]
  /\ Goto(g, "check")
  /\ UNCHANGED <<lifeVars, merged, lastGood, current, ready, timerPc, gauges>>
FetchFailed(g) ==
  /\ At(g, "fetch")
  /\ merged' = [merged EXCEPT ![g] = @ \cup lastGood[g][urls[idx[g]]]]
  /\ idx' = [idx EXCEPT ![g] = @ + 1]
  /\ Goto(g, "check")
  /\ UNCHANGED <<lifeVars, lastGood, current, ready, timerPc, gauges>>

\* Nothing collected: the list in force stays, and nothing is reported.
NothingLoadedReportsReady(g) ==             \* mutant: ready before the check
  /\ At(g, "check") /\ AllFetched(g)
  /\ merged[g] = {}
  /\ Goto(g, "wait")
  /\ ready' = [ready EXCEPT ![g] = TRUE]
  /\ UNCHANGED <<lifeVars, idx, merged, lastGood, current, timerPc, gauges>>
NothingLoadedClearsGauge(g) ==              \* mutant: failOpen.Set(0) before the check
  /\ At(g, "check") /\ AllFetched(g)
  /\ merged[g] = {}
  /\ Goto(g, "wait")
  /\ failOpen' = 0
  /\ UNCHANGED <<lifeVars, idx, merged, lastGood, current, ready, timerPc, domainsTotal>>
NothingLoadedPublishes(g) ==                \* mutant: the empty set published
  /\ At(g, "check") /\ AllFetched(g)
  /\ merged[g] = {}
  /\ Goto(g, "domains")
  /\ current' = [current EXCEPT ![g] = List({})]
  /\ UNCHANGED <<lifeVars, idx, merged, lastGood, ready, timerPc, gauges>>
NothingLoaded(g) ==
  /\ At(g, "check") /\ AllFetched(g)
  /\ merged[g] = {}
  /\ Goto(g, "wait")
  /\ UNCHANGED <<lifeVars, idx, merged, lastGood, current, ready, timerPc, gauges>>

\* Publication: the matcher first, then the gauges, then ready.  Queries and
\* the timer run between any two of these.
Store(g) ==
  /\ At(g, "check") /\ AllFetched(g)
  /\ merged[g] # {}
  /\ current' = [current EXCEPT ![g] = List(merged[g])]
  /\ Goto(g, "domains")
  /\ UNCHANGED <<lifeVars, idx, merged, lastGood, ready, timerPc, gauges>>

SetDomains(g) ==
  /\ At(g, "domains")
  /\ domainsTotal' = Cardinality(current[g].block)
  /\ Goto(g, "clear")
  /\ UNCHANGED <<lifeVars, idx, merged, lastGood, current, ready, timerPc, failOpen>>

ClearFailOpen(g) ==
  /\ At(g, "clear")
  /\ failOpen' = 0
  /\ Goto(g, "swap")
  /\ UNCHANGED <<lifeVars, idx, merged, lastGood, current, ready, timerPc, domainsTotal>>

SetReady(g) ==
  /\ At(g, "swap")
  /\ ready' = [ready EXCEPT ![g] = TRUE]
  /\ Goto(g, "wait")
  /\ UNCHANGED <<lifeVars, idx, merged, lastGood, current, timerPc, gauges>>

\* The select between two reloads: select may take the tick even when the
\* context is done.
TickKeepsMerged(g) ==                       \* mutant: merged outlives a reload
  /\ At(g, "wait")
  /\ idx' = [idx EXCEPT ![g] = 1]
  /\ Goto(g, "check")
  /\ UNCHANGED <<lifeVars, merged, lastGood, current, ready, timerPc, gauges>>
Tick(g) ==
  /\ At(g, "wait")
  /\ idx' = [idx EXCEPT ![g] = 1]
  /\ merged' = [merged EXCEPT ![g] = {}]
  /\ Goto(g, "check")
  /\ UNCHANGED <<lifeVars, lastGood, current, ready, timerPc, gauges>>

LeaveOnlyWhenReady(g) ==                    \* mutant: waits for a list first
  /\ At(g, "wait")
  /\ cancelled[g] /\ ready[g]
  /\ Goto(g, "done")
  /\ UNCHANGED <<lifeVars, idx, merged, lastGood, current, ready, timerPc, gauges>>
Leave(g) ==
  /\ At(g, "wait")
  /\ cancelled[g]
  /\ Goto(g, "done")
  /\ UNCHANGED <<lifeVars, idx, merged, lastGood, current, ready, timerPc, gauges>>

-------------------------------------------------------------------------------
(***************************************************************************)
(* failOpenAfterTimeout.                                                   *)
(***************************************************************************)
TimerGoto(g, pc) == timerPc' = [timerPc EXCEPT ![g] = pc]

TimerStopped(g) ==
  /\ timerPc[g] = "waiting"
  /\ cancelled[g]
  /\ TimerGoto(g, "ended")
  /\ UNCHANGED <<lifeVars, reloadVars, current, ready, gauges>>

\* The timer fires.  Swap is atomic: only if ready was false does the gauge
\* follow, in a step of its own.
TimerFiresIfLoaded(g) ==                    \* mutant: ready only with a list
  /\ timerPc[g] = "waiting"
  /\ ready' = [ready EXCEPT ![g] = current[g].loaded]
  /\ TimerGoto(g, "ended")
  /\ UNCHANGED <<lifeVars, reloadVars, current, gauges>>
TimerFires(g) ==
  /\ timerPc[g] = "waiting"
  /\ ready' = [ready EXCEPT ![g] = TRUE]
  /\ TimerGoto(g, IF ready[g] THEN "ended" ELSE "raise")
  /\ UNCHANGED <<lifeVars, reloadVars, current, gauges>>

RaiseFailOpen(g) ==
  /\ timerPc[g] = "raise"
  /\ failOpen' = 1
  /\ TimerGoto(g, "failedOpen")
  /\ UNCHANGED <<lifeVars, reloadVars, current, ready, domainsTotal>>

-------------------------------------------------------------------------------
RefreshStep(g) ==
  \/ Check(g)
  \/ Fetched(g)
  \/ FetchFailed(g)
  \/ NothingLoaded(g)
  \/ Store(g)
  \/ SetDomains(g)
  \/ ClearFailOpen(g)
  \/ SetReady(g)

TimerStep(g) == TimerStopped(g) \/ TimerFires(g) \/ RaiseFailOpen(g)

Next ==
  \E g \in Gens :
    \/ Start(g)
    \/ Shutdown(g)
    \/ ShutdownReturns(g)
    \/ RefreshStep(g)
    \/ Tick(g)
    \/ Leave(g)
    \/ TimerStep(g)

(***************************************************************************)
(* Goroutines run; a fetch ends, because the HTTP client has a timeout and *)
(* the request carries the context; the timer fires.  The select of the    *)
(* refresh loop is fair to its context arm: it chooses at random among the *)
(* arms that are ready, so a done context is not passed over for ever.     *)
(* Nothing is assumed of sources, ticks, Corefile changes or shutdowns.    *)
(***************************************************************************)
Fairness ==
  \A g \in Gens :
    /\ WF_vars(RefreshStep(g))
    /\ WF_vars(TimerStep(g))
    /\ WF_vars(ShutdownReturns(g))
    /\ SF_vars(Leave(g))

Spec == Init /\ [][Next]_vars

FairSpec == Spec /\ Fairness

-------------------------------------------------------------------------------
(***************************************************************************)
(* Properties.                                                             *)
(***************************************************************************)

\* ServeDNS answers NXDOMAIN for n: the matcher in force lists it and the
\* Corefile does not allow it.
Blocked(g, n) ==
  /\ current[g].loaded
  /\ n \notin Allow
  /\ n \in current[g].block

\* No published matcher is ever empty.
TypeOK ==
  /\ life \in [Gens -> {"absent", "running", "stopping", "down"}]
  /\ cancelled \in [Gens -> BOOLEAN]
  /\ refreshPc \in [Gens -> {"off", "check", "fetch", "domains", "clear", "swap", "wait", "done"}]
  /\ idx \in [Gens -> 1..(NumUrls + 1)]
  /\ merged \in [Gens -> SUBSET Names]
  /\ lastGood \in [Gens -> [Urls -> SUBSET Names]]
  /\ current \in [Gens -> {List(names) : names \in (SUBSET Names) \ {{}}} \cup {NoList}]
  /\ ready \in [Gens -> BOOLEAN]
  /\ timerPc \in [Gens -> {"off", "waiting", "raise", "failedOpen", "ended"}]
  /\ failOpen \in {0, 1}
  /\ domainsTotal \in Nat

\* The last reload went through all sources (shutdown did not cut it short) and
\* its list, if it brought one, is in force.
Reloaded(g) == AllFetched(g) /\ refreshPc[g] \in {"domains", "clear", "swap", "wait", "done"}

(***************************************************************************)
(* A source that fails keeps contributing: once a reload went through,     *)
(* every name in the last good copy of any source is blocked, unless it is *)
(* allowed.  Also when shutdown came during the reload's last fetch, when  *)
(* no source answered, and when one URL is listed twice.                   *)
(***************************************************************************)
KeepsLastGood ==
  \A g \in Gens : Reloaded(g) =>
    \A k \in DOMAIN urls : \A n \in lastGood[g][urls[k]] \ Allow : Blocked(g, n)

\* No URL that is listed twice has ever loaded.
NoneTwice(copies) ==
  \A j, k \in DOMAIN urls : j # k /\ urls[j] = urls[k] => copies[urls[j]] = {}

(***************************************************************************)
(* And nothing else is blocked: no old copy beside a newer one, nothing of *)
(* an earlier reload.  For a URL listed twice this is not so: when the     *)
(* first of its fetches fails and the second does not, reload merges the   *)
(* old copy and the new one.                                               *)
(***************************************************************************)
NothingStale ==
  \A g \in Gens : Reloaded(g) /\ NoneTwice(lastGood[g]) =>
    \A n \in Names : Blocked(g, n) => \E k \in DOMAIN urls : n \in lastGood[g][urls[k]]

(***************************************************************************)
(* Ready() is true only once a list is in force or failOpenAfterTimeout    *)
(* gave up waiting for one.                                                *)
(***************************************************************************)
ReadyMeansLoadedOrFailedOpen ==
  \A g \in Gens :
    ready[g] => current[g].loaded \/ timerPc[g] \in {"raise", "failedOpen"}

\* Neither goroutine of generation g is between two writes.
Settled(g) == refreshPc[g] \in {"off", "check", "fetch", "wait", "done"} /\ timerPc[g] # "raise"

(***************************************************************************)
(* Until the first Corefile change, a plugin that reports ready and has no *)
(* list shows it in fail_open.  (Later an old generation's last reload may *)
(* still clear what the new generation raised.)                            *)
(***************************************************************************)
UnfilteredIsSignalled ==
  (\A h \in Gens \ {1} : life[h] = "absent") =>
    (Settled(1) /\ ready[1] /\ ~current[1].loaded => failOpen = 1)

(***************************************************************************)
(* What the help text of fail_open says (metrics.go, 66): "1 while serving *)
(* queries unfiltered because no blocklist source loaded in time", so not  *)
(* 1 while a list is in force.                                             *)
(***************************************************************************)
FailOpenMeansUnfiltered ==
  (\A h \in Gens \ {1} : life[h] = "absent") =>
    (Settled(1) /\ failOpen = 1 => ~current[1].loaded)

\* A started plugin becomes ready, with or without a list, unless it is shut
\* down first.
ReadyEventually ==
  \A g \in Gens : life[g] = "running" ~> ready[g] \/ cancelled[g]

\* shutdown returns: caddy is never held up by the old generation.
ShutdownEnds ==
  \A g \in Gens : life[g] = "stopping" ~> life[g] = "down"
===============================================================================
