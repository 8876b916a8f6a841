---------------------------- MODULE BlocklistProofs ----------------------------
(***************************************************************************)
(* Proofs about Blocklist, for any number of generations and sources and   *)
(* any set of names.                                                       *)
(***************************************************************************)
EXTENDS Blocklist, FiniteSetTheorems, TLAPS

-------------------------------------------------------------------------------
(***************************************************************************)
(* The inductive invariant, for one generation.                            *)
(***************************************************************************)

\* n is in the last good copy (copies) of one of the first k sources.
Good(copies, k, n) == \E j \in 1..NumUrls : j <= k /\ n \in copies[urls[j]]

\* What reload has collected after k sources: all their last good copies and,
\* unless a URL that comes twice has loaded, nothing but those.
Collected(copies, names, k) ==
  /\ \A j \in 1..NumUrls : j <= k => copies[urls[j]] \subseteq names
  /\ names # {} => \E n \in Names : Good(copies, k, n)
  /\ NoneTwice(copies) => \A n \in names : Good(copies, k, n)

Publishing == {"domains", "clear", "swap"}

\* What reload has collected so far, and what it publishes.
ReloadOK(g) ==
  /\ refreshPc[g] = "off" => idx[g] = 1 /\ merged[g] = {}
  /\ refreshPc[g] = "fetch" => idx[g] \in 1..NumUrls
  /\ refreshPc[g] \in {"check", "fetch"} => Collected(lastGood[g], merged[g], idx[g] - 1)
  /\ refreshPc[g] \in Publishing =>
       current[g] = List(merged[g]) /\ Collected(lastGood[g], merged[g], NumUrls)

\* A list is in force only if some source has a good copy, and after a reload
\* that went through it is what that reload collected.
ListOK(g) ==
  /\ current[g].loaded => \E n \in Names : Good(lastGood[g], NumUrls, n)
  /\ refreshPc[g] \in {"wait", "done"} /\ idx[g] > NumUrls =>
       /\ \A j \in 1..NumUrls : \A n \in lastGood[g][urls[j]] : current[g].loaded /\ n \in current[g].block
       /\ NoneTwice(lastGood[g]) =>
            \A n \in Names : current[g].loaded /\ n \in current[g].block => Good(lastGood[g], NumUrls, n)

ReadyOK(g) ==
  /\ ready[g] => current[g].loaded \/ timerPc[g] \in {"raise", "failedOpen"}
  /\ life[g] = "absent" => refreshPc[g] = "off" /\ timerPc[g] = "off"

Alone == \A h \in Gens \ {1} : life[h] = "absent"

SignalOK == Alone /\ timerPc[1] = "failedOpen" /\ ~current[1].loaded => failOpen = 1

IInv ==
  /\ TypeOK
  /\ \A g \in Gens : ReloadOK(g) /\ ListOK(g) /\ ReadyOK(g)
  /\ SignalOK

LEMMA ConstantFacts ==
  /\ Generations \in Nat /\ 1 \in Gens
  /\ NumUrls \in Nat /\ NumUrls >= 1
  /\ DOMAIN urls = 1..NumUrls
  /\ \A j \in 1..NumUrls : urls[j] \in Urls
  /\ Gens \subseteq Nat
BY GenerationsAssumption, UrlsAssumption DEF Gens, NumUrls

\* A good fetch of source i replaces its copy and adds to what was collected,
LEMMA FetchCollects ==
  ASSUME NEW copies \in [Urls -> SUBSET Names], NEW m \in SUBSET Names, NEW i \in 1..NumUrls,
         NEW names \in (SUBSET Names) \ {{}}, Collected(copies, m, i - 1)
  PROVE  Collected([copies EXCEPT ![urls[i]] = names], m \cup names, i)
<1> USE ConstantFacts
<1> DEFINE new == [copies EXCEPT ![urls[i]] = names]
<1>1. /\ new[urls[i]] = names
      /\ \A j \in 1..NumUrls : urls[j] # urls[i] => new[urls[j]] = copies[urls[j]]
  OBVIOUS
<1>2. /\ \A j \in 1..NumUrls : j <= i - 1 => copies[urls[j]] \subseteq m
      /\ NoneTwice(copies) => \A n \in m : Good(copies, i - 1, n)
  BY DEF Collected
<1> HIDE DEF new
<1>3. \A n \in names : Good(new, i, n)
  BY <1>1 DEF Good
<1>4. \A j \in 1..NumUrls : j <= i => new[urls[j]] \subseteq m \cup names
  <2> SUFFICES ASSUME NEW j \in 1..NumUrls, j <= i PROVE new[urls[j]] \subseteq m \cup names
    OBVIOUS
  <2>1. CASE urls[j] = urls[i]
    BY <1>1, <2>1
  <2>2. CASE urls[j] # urls[i]
    <3>1. j <= i - 1
      BY <2>2
    <3> QED
      BY <1>1, <1>2, <2>2, <3>1
  <2> QED
    BY <2>1, <2>2
<1>5. ASSUME NoneTwice(new), NEW n \in m PROVE Good(new, i, n)
  <2>a. \A j \in 1..NumUrls : j # i => urls[j] # urls[i]
    BY <1>1, <1>5 DEF NoneTwice
  <2>b. NoneTwice(copies)
    BY <1>1, <1>5, <2>a DEF NoneTwice
  <2>1. PICK j \in 1..NumUrls : j <= i - 1 /\ n \in copies[urls[j]]
    BY <1>2, <1>5, <2>b DEF Good
  <2>2. urls[j] # urls[i]
    BY <2>a, <2>1
  <2> QED
    BY <1>1, <2>1, <2>2 DEF Good
<1>6. \E n \in Names : Good(new, i, n)
  BY <1>3
<1>7. Collected(new, m \cup names, i)
  BY <1>3, <1>4, <1>5, <1>6 DEF Collected
<1> QED
  BY <1>7 DEF new

\* and after a failed one the copy there is stands in.
LEMMA OldCopyCollects ==
  ASSUME NEW copies \in [Urls -> SUBSET Names], NEW m \in SUBSET Names, NEW i \in 1..NumUrls,
         Collected(copies, m, i - 1)
  PROVE  Collected(copies, m \cup copies[urls[i]], i)
<1> USE ConstantFacts
<1>1. \A n : Good(copies, i - 1, n) => Good(copies, i, n)
  BY DEF Good
<1>2. \A n \in copies[urls[i]] : n \in Names /\ Good(copies, i, n)
  BY DEF Good
<1>3. \A j \in 1..NumUrls : j <= i => copies[urls[j]] \subseteq m \cup copies[urls[i]]
  <2> SUFFICES ASSUME NEW j \in 1..NumUrls, j <= i PROVE copies[urls[j]] \subseteq m \cup copies[urls[i]]
    OBVIOUS
  <2>1. j = i \/ j <= i - 1
    OBVIOUS
  <2> QED
    BY <2>1 DEF Collected
<1> QED
  BY <1>1, <1>2, <1>3 DEF Collected

\* Nothing is collected before the first source.
LEMMA NothingCollected == \A copies : Collected(copies, {}, 0)
BY ConstantFacts DEF Collected, Good

LEMMA InitOK == Init => IInv
<1> SUFFICES ASSUME Init PROVE IInv
  OBVIOUS
<1> USE ConstantFacts
<1>1. TypeOK
  BY DEF Init, TypeOK
<1>2. ASSUME NEW g \in Gens PROVE ReloadOK(g) /\ ListOK(g) /\ ReadyOK(g)
  BY <1>2, NothingCollected DEF Init, ReloadOK, ListOK, ReadyOK, Publishing, NoList
<1>3. SignalOK
  BY DEF Init, SignalOK
<1> QED
  BY <1>1, <1>2, <1>3 DEF IInv

\* The set of published matchers, and what fetch may return.
LEMMA Matchers ==
  /\ \A names \in SUBSET Names : names # {} =>
       List(names) \in {List(x) : x \in (SUBSET Names) \ {{}}} \cup {NoList}
  /\ \A names : List(names).loaded /\ List(names).block = names
  /\ \A m \in {List(x) : x \in (SUBSET Names) \ {{}}} \cup {NoList} : IsFiniteSet(m.block)
<1>1. \A x \in SUBSET Names : IsFiniteSet(x)
  BY NamesAssumption, FS_Subset
<1>2. IsFiniteSet({})
  BY FS_EmptySet
<1>3. \A names : List(names).loaded /\ List(names).block = names
  <2> SUFFICES ASSUME NEW names PROVE List(names).loaded /\ List(names).block = names
    OBVIOUS
  <2>1. List(names).loaded = TRUE
    BY DEF List
  <2>2. List(names).block = names
    BY DEF List
  <2> QED
    BY <2>1, <2>2
<1>4. NoList.block = {}
  BY DEF NoList
<1>5. \A m \in {List(x) : x \in (SUBSET Names) \ {{}}} \cup {NoList} : IsFiniteSet(m.block)
  BY <1>1, <1>2, <1>3, <1>4
<1> QED
  BY <1>3, <1>5

LEMMA TypeStep == TypeOK /\ (\A g \in Gens : ReloadOK(g)) /\ [Next]_vars => TypeOK'
<1> SUFFICES ASSUME TypeOK, \A g \in Gens : ReloadOK(g), [Next]_vars PROVE TypeOK'
  OBVIOUS
<1> USE ConstantFacts
<1>a. /\ refreshPc \in [Gens -> {"off", "check", "fetch", "domains", "clear", "swap", "wait", "done"}]
      /\ idx \in [Gens -> 1..(NumUrls + 1)]
      /\ merged \in [Gens -> SUBSET Names]
      /\ lastGood \in [Gens -> [Urls -> SUBSET Names]]
  BY DEF TypeOK
<1>1. ASSUME NEW g \in Gens, Start(g) PROVE TypeOK'
  BY <1>1 DEF TypeOK, Start, Goto, gauges
<1>2. ASSUME NEW g \in Gens, Shutdown(g) PROVE TypeOK'
  BY <1>2 DEF TypeOK, Shutdown, reloadVars, gauges
<1>3. ASSUME NEW g \in Gens, ShutdownReturns(g) PROVE TypeOK'
  BY <1>3 DEF TypeOK, ShutdownReturns, reloadVars, gauges
<1>4. ASSUME NEW g \in Gens, Check(g) PROVE TypeOK'
  BY <1>4 DEF TypeOK, Check, Goto, lifeVars, gauges
<1>5. ASSUME NEW g \in Gens, idx[g] \in 1..NumUrls, idx' = [idx EXCEPT ![g] = @ + 1]
      PROVE  idx' \in [Gens -> 1..(NumUrls + 1)]
  BY <1>5, <1>a
<1>6. ASSUME NEW g \in Gens, Fetched(g) PROVE TypeOK'
  <2>1. idx[g] \in 1..NumUrls
    BY <1>6 DEF Fetched, At, ReloadOK
  <2>2. PICK names \in (SUBSET Names) \ {{}} :
          /\ lastGood' = [lastGood EXCEPT ![g][urls[idx[g]]] = names]
          /\ merged' = [merged EXCEPT ![g] = @ \cup names]
    BY <1>6 DEF Fetched, FetchResults
  <2>3. lastGood' \in [Gens -> [Urls -> SUBSET Names]]
    BY <1>a, <2>1, <2>2
  <2>4. merged' \in [Gens -> SUBSET Names]
    BY <1>a, <2>2
  <2>5. idx' \in [Gens -> 1..(NumUrls + 1)]
    BY <1>5, <1>6, <2>1 DEF Fetched
  <2> QED
    BY <1>6, <2>3, <2>4, <2>5 DEF TypeOK, Fetched, Goto, lifeVars, gauges
<1>7. ASSUME NEW g \in Gens, FetchFailed(g) PROVE TypeOK'
  <2>1. idx[g] \in 1..NumUrls
    BY <1>7 DEF FetchFailed, At, ReloadOK
  <2>2. merged' \in [Gens -> SUBSET Names]
    BY <1>7, <1>a, <2>1 DEF FetchFailed
  <2>3. idx' \in [Gens -> 1..(NumUrls + 1)]
    BY <1>5, <1>7, <2>1 DEF FetchFailed
  <2> QED
    BY <1>7, <2>2, <2>3 DEF TypeOK, FetchFailed, Goto, lifeVars, gauges
<1>8. ASSUME NEW g \in Gens, NothingLoaded(g) PROVE TypeOK'
  BY <1>8 DEF TypeOK, NothingLoaded, Goto, lifeVars, gauges
<1>9. ASSUME NEW g \in Gens, Store(g) PROVE TypeOK'
  <2>1. List(merged[g]) \in {List(x) : x \in (SUBSET Names) \ {{}}} \cup {NoList}
    BY <1>9, <1>a, Matchers DEF Store
  <2> QED
    BY <1>9, <2>1 DEF TypeOK, Store, Goto, lifeVars, gauges
<1>10. ASSUME NEW g \in Gens, SetDomains(g) PROVE TypeOK'
  <2>1. domainsTotal' \in Nat
    <3>1. IsFiniteSet(current[g].block)
      BY Matchers DEF TypeOK
    <3> QED
      BY <1>10, <3>1, FS_CardinalityType DEF SetDomains
  <2> QED
    BY <1>10, <2>1 DEF TypeOK, SetDomains, Goto, lifeVars
<1>11. ASSUME NEW g \in Gens, ClearFailOpen(g) PROVE TypeOK'
  BY <1>11 DEF TypeOK, ClearFailOpen, Goto, lifeVars
<1>12. ASSUME NEW g \in Gens, SetReady(g) PROVE TypeOK'
  BY <1>12 DEF TypeOK, SetReady, Goto, lifeVars, gauges
<1>13. ASSUME NEW g \in Gens, Tick(g) PROVE TypeOK'
  BY <1>13 DEF TypeOK, Tick, Goto, lifeVars, gauges
<1>14. ASSUME NEW g \in Gens, Leave(g) PROVE TypeOK'
  BY <1>14 DEF TypeOK, Leave, Goto, lifeVars, gauges
<1>15. ASSUME NEW g \in Gens, TimerStep(g) PROVE TypeOK'
  <2>1. CASE TimerStopped(g)
    BY <2>1 DEF TypeOK, TimerStopped, TimerGoto, lifeVars, reloadVars, gauges
  <2>2. CASE TimerFires(g)
    <3>1. PICK pc \in {"ended", "raise"} : timerPc' = [timerPc EXCEPT ![g] = pc]
      <4>1. CASE ready[g]
        BY <2>2, <4>1, Zenon DEF TimerFires, TimerGoto
      <4>2. CASE ~ready[g]
        BY <2>2, <4>2, Zenon DEF TimerFires, TimerGoto
      <4> QED
        BY <4>1, <4>2
    <3>2. timerPc' \in [Gens -> {"off", "waiting", "raise", "failedOpen", "ended"}]
      BY <3>1 DEF TypeOK
    <3> QED
      BY <2>2, <3>2 DEF TypeOK, TimerFires, lifeVars, reloadVars, gauges
  <2>3. CASE RaiseFailOpen(g)
    BY <2>3 DEF TypeOK, RaiseFailOpen, TimerGoto, lifeVars, reloadVars
  <2> QED
    BY <1>15, <2>1, <2>2, <2>3 DEF TimerStep
<1>16. CASE UNCHANGED vars
  BY <1>16 DEF TypeOK, vars, lifeVars, reloadVars, gauges
<1> QED
  BY <1>1, <1>2, <1>3, <1>4, <1>6, <1>7, <1>8, <1>9, <1>10, <1>11, <1>12, <1>13, <1>14, <1>15, <1>16
  DEF Next, RefreshStep

\* A step of one generation leaves the others' own state alone.
StateOf(g) == <<refreshPc[g], idx[g], merged[g], lastGood[g], current[g], ready[g], timerPc[g]>>

LEMMA Frame ==
  ASSUME TypeOK, [Next]_vars, NEW h \in Gens
  PROVE  /\ life'[h] = "absent" => life[h] = "absent"
         /\ cancelled[h] => cancelled'[h]
         /\ \/ /\ UNCHANGED StateOf(h)
               /\ life[h] = "absent" => life'[h] = "absent"
            \/ Start(h) \/ RefreshStep(h) \/ Tick(h) \/ Leave(h) \/ TimerStep(h)
<1>a. /\ life \in [Gens -> {"absent", "running", "stopping", "down"}]
      /\ cancelled \in [Gens -> BOOLEAN]
      /\ refreshPc \in [Gens -> {"off", "check", "fetch", "domains", "clear", "swap", "wait", "done"}]
      /\ idx \in [Gens -> 1..(NumUrls + 1)]
      /\ merged \in [Gens -> SUBSET Names]
      /\ lastGood \in [Gens -> [Urls -> SUBSET Names]]
      /\ current \in [Gens -> {List(x) : x \in (SUBSET Names) \ {{}}} \cup {NoList}]
      /\ ready \in [Gens -> BOOLEAN]
      /\ timerPc \in [Gens -> {"off", "waiting", "raise", "failedOpen", "ended"}]
  BY DEF TypeOK
<1>1. ASSUME NEW g \in Gens, g # h, Start(g)
      PROVE  UNCHANGED <<StateOf(h), life[h], cancelled[h]>>
  BY <1>1, <1>a DEF Start, Goto, StateOf
<1>2. ASSUME NEW g \in Gens, Shutdown(g)
      PROVE  /\ UNCHANGED StateOf(h)
             /\ cancelled[h] => cancelled'[h]
             /\ life[h] = "absent" <=> life'[h] = "absent"
  BY <1>2, <1>a DEF Shutdown, StateOf, reloadVars
<1>3. ASSUME NEW g \in Gens, ShutdownReturns(g)
      PROVE  /\ UNCHANGED <<StateOf(h), cancelled[h]>>
             /\ life[h] = "absent" <=> life'[h] = "absent"
  BY <1>3, <1>a DEF ShutdownReturns, StateOf, reloadVars
<1>4. ASSUME NEW g \in Gens, RefreshStep(g)
      PROVE  g # h => UNCHANGED StateOf(h)
  <2> SUFFICES ASSUME g # h PROVE UNCHANGED StateOf(h)
    OBVIOUS
  <2>1. refreshPc'[h] = refreshPc[h]
    BY <1>4, <1>a DEF RefreshStep, Check, Fetched, FetchFailed, NothingLoaded, Store, SetDomains,
                     ClearFailOpen, SetReady, Goto
  <2>2. idx'[h] = idx[h] /\ merged'[h] = merged[h]
    BY <1>4, <1>a DEF RefreshStep, Check, Fetched, FetchFailed, NothingLoaded, Store, SetDomains,
                     ClearFailOpen, SetReady
  <2>3. lastGood'[h] = lastGood[h]
    BY <1>4, <1>a DEF RefreshStep, Check, Fetched, FetchFailed, NothingLoaded, Store, SetDomains,
                     ClearFailOpen, SetReady
  <2>4. current'[h] = current[h] /\ ready'[h] = ready[h] /\ timerPc' = timerPc
    BY <1>4, <1>a DEF RefreshStep, Check, Fetched, FetchFailed, NothingLoaded, Store, SetDomains,
                     ClearFailOpen, SetReady
  <2> QED
    BY <2>1, <2>2, <2>3, <2>4 DEF StateOf
<1>5. ASSUME NEW g \in Gens, Tick(g) PROVE g # h => UNCHANGED StateOf(h)
  BY <1>5, <1>a DEF Tick, Goto, StateOf
<1>6. ASSUME NEW g \in Gens, Leave(g) PROVE g # h => UNCHANGED StateOf(h)
  BY <1>6, <1>a DEF Leave, Goto, StateOf
<1>7. ASSUME NEW g \in Gens, TimerStep(g) PROVE g # h => UNCHANGED StateOf(h)
  <2> SUFFICES ASSUME g # h PROVE UNCHANGED StateOf(h)
    OBVIOUS
  <2>1. UNCHANGED <<reloadVars, current>>
    BY <1>7 DEF TimerStep, TimerStopped, TimerFires, RaiseFailOpen, reloadVars
  <2>2. ready'[h] = ready[h]
    BY <1>7, <1>a DEF TimerStep, TimerStopped, TimerFires, RaiseFailOpen
  <2>3. \E pc : timerPc' = [timerPc EXCEPT ![g] = pc]
    BY <1>7, Zenon DEF TimerStep, TimerStopped, TimerFires, RaiseFailOpen, TimerGoto
  <2>4. timerPc'[h] = timerPc[h]
    BY <2>3, <1>a
  <2> QED
    BY <2>1, <2>2, <2>4 DEF StateOf, reloadVars
<1>8. ASSUME NEW g \in Gens, RefreshStep(g) \/ Tick(g) \/ Leave(g) \/ TimerStep(g)
      PROVE  UNCHANGED <<life, cancelled>>
  BY <1>8 DEF RefreshStep, Check, Fetched, FetchFailed, NothingLoaded, Store, SetDomains,
              ClearFailOpen, SetReady, Tick, Leave, TimerStep, TimerStopped, TimerFires,
              RaiseFailOpen, lifeVars
<1>9. CASE UNCHANGED vars
  BY <1>9 DEF vars, lifeVars, reloadVars, StateOf
<1>10. CASE Start(h)
  BY <1>10, <1>a DEF Start
<1> QED
  BY <1>1, <1>2, <1>3, <1>4, <1>5, <1>6, <1>7, <1>8, <1>9, <1>10 DEF Next

\* The typing of the variables, one conjunct each.
LEMMA Types ==
  ASSUME TypeOK
  PROVE  /\ life \in [Gens -> {"absent", "running", "stopping", "down"}]
         /\ refreshPc \in [Gens -> {"off", "check", "fetch", "domains", "clear", "swap", "wait", "done"}]
         /\ idx \in [Gens -> 1..(NumUrls + 1)]
         /\ merged \in [Gens -> SUBSET Names]
         /\ lastGood \in [Gens -> [Urls -> SUBSET Names]]
         /\ current \in [Gens -> {List(x) : x \in (SUBSET Names) \ {{}}} \cup {NoList}]
         /\ timerPc \in [Gens -> {"off", "waiting", "raise", "failedOpen", "ended"}]
BY DEF TypeOK

(***************************************************************************)
(* What each step of generation h does to its own state.                   *)
(***************************************************************************)
LEMMA StartEffect ==
  ASSUME TypeOK, NEW h \in Gens, Start(h)
  PROVE  /\ refreshPc'[h] = "check" /\ timerPc'[h] = "waiting"
         /\ life'[h] = "running" /\ life[h] = "absent"
         /\ UNCHANGED <<cancelled, idx, merged, lastGood, current, ready>>
BY Types DEF Start, Goto

LEMMA CheckEffect ==
  ASSUME TypeOK, NEW h \in Gens, Check(h)
  PROVE  /\ refreshPc[h] = "check" /\ ~(idx[h] > NumUrls)
         /\ cancelled[h] => refreshPc'[h] = "wait"
         /\ ~cancelled[h] => refreshPc'[h] = "fetch"
         /\ UNCHANGED <<life, cancelled, idx, merged, lastGood, current, ready, timerPc>>
<1>1. /\ refreshPc[h] = "check" /\ ~(idx[h] > NumUrls)
      /\ UNCHANGED <<life, cancelled, idx, merged, lastGood, current, ready, timerPc>>
  BY DEF Check, At, AllFetched, lifeVars
<1>2. refreshPc'[h] = IF cancelled[h] THEN "wait" ELSE "fetch"
  BY Types DEF Check, Goto
<1>3. (cancelled[h] => refreshPc'[h] = "wait") /\ (~cancelled[h] => refreshPc'[h] = "fetch")
  BY <1>2, Zenon
<1> QED
  BY <1>1, <1>3

LEMMA FetchedEffect ==
  ASSUME TypeOK, NEW h \in Gens, Fetched(h)
  PROVE  /\ refreshPc[h] = "fetch" /\ refreshPc'[h] = "check" /\ idx'[h] = idx[h] + 1
         /\ \E names \in (SUBSET Names) \ {{}} :
              /\ lastGood'[h] = [lastGood[h] EXCEPT ![urls[idx[h]]] = names]
              /\ merged'[h] = merged[h] \cup names
         /\ UNCHANGED <<life, cancelled, current, ready, timerPc>>
<1>1. PICK names \in (SUBSET Names) \ {{}} :
        /\ lastGood' = [lastGood EXCEPT ![h][urls[idx[h]]] = names]
        /\ merged' = [merged EXCEPT ![h] = @ \cup names]
  BY DEF Fetched, FetchResults
<1>2. /\ lastGood'[h] = [lastGood[h] EXCEPT ![urls[idx[h]]] = names]
      /\ merged'[h] = merged[h] \cup names
  BY <1>1, Types
<1>3. /\ refreshPc[h] = "fetch" /\ refreshPc'[h] = "check" /\ idx'[h] = idx[h] + 1
      /\ UNCHANGED <<life, cancelled, current, ready, timerPc>>
  BY Types DEF Fetched, At, Goto, lifeVars
<1> QED
  BY <1>2, <1>3

LEMMA FetchFailedEffect ==
  ASSUME TypeOK, NEW h \in Gens, FetchFailed(h)
  PROVE  /\ refreshPc[h] = "fetch" /\ refreshPc'[h] = "check" /\ idx'[h] = idx[h] + 1
         /\ merged'[h] = merged[h] \cup lastGood[h][urls[idx[h]]]
         /\ UNCHANGED <<life, cancelled, lastGood, current, ready, timerPc>>
BY Types DEF FetchFailed, At, Goto, lifeVars

LEMMA NothingLoadedEffect ==
  ASSUME TypeOK, NEW h \in Gens, NothingLoaded(h)
  PROVE  /\ refreshPc[h] = "check" /\ refreshPc'[h] = "wait" /\ idx[h] > NumUrls /\ merged[h] = {}
         /\ UNCHANGED <<life, cancelled, idx, merged, lastGood, current, ready, timerPc>>
BY Types DEF NothingLoaded, At, AllFetched, Goto, lifeVars

LEMMA StoreEffect ==
  ASSUME TypeOK, NEW h \in Gens, Store(h)
  PROVE  /\ refreshPc[h] = "check" /\ refreshPc'[h] = "domains" /\ idx[h] > NumUrls /\ merged[h] # {}
         /\ current'[h] = List(merged[h])
         /\ UNCHANGED <<life, cancelled, idx, merged, lastGood, ready, timerPc>>
BY Types DEF Store, At, AllFetched, Goto, lifeVars

LEMMA SetDomainsEffect ==
  ASSUME TypeOK, NEW h \in Gens, SetDomains(h)
  PROVE  /\ refreshPc[h] = "domains" /\ refreshPc'[h] = "clear"
         /\ UNCHANGED <<life, cancelled, idx, merged, lastGood, current, ready, timerPc>>
BY Types DEF SetDomains, At, Goto, lifeVars

LEMMA ClearFailOpenEffect ==
  ASSUME TypeOK, NEW h \in Gens, ClearFailOpen(h)
  PROVE  /\ refreshPc[h] = "clear" /\ refreshPc'[h] = "swap"
         /\ UNCHANGED <<life, cancelled, idx, merged, lastGood, current, ready, timerPc>>
BY Types DEF ClearFailOpen, At, Goto, lifeVars

LEMMA SetReadyEffect ==
  ASSUME TypeOK, NEW h \in Gens, SetReady(h)
  PROVE  /\ refreshPc[h] = "swap" /\ refreshPc'[h] = "wait"
         /\ UNCHANGED <<life, cancelled, idx, merged, lastGood, current, timerPc>>
BY Types DEF SetReady, At, Goto, lifeVars

LEMMA TickEffect ==
  ASSUME TypeOK, NEW h \in Gens, Tick(h)
  PROVE  /\ refreshPc[h] = "wait" /\ refreshPc'[h] = "check" /\ idx'[h] = 1 /\ merged'[h] = {}
         /\ UNCHANGED <<life, cancelled, lastGood, current, ready, timerPc>>
BY Types DEF Tick, At, Goto, lifeVars

LEMMA LeaveEffect ==
  ASSUME TypeOK, NEW h \in Gens, Leave(h)
  PROVE  /\ refreshPc[h] = "wait" /\ refreshPc'[h] = "done"
         /\ UNCHANGED <<life, cancelled, idx, merged, lastGood, current, ready, timerPc>>
BY Types DEF Leave, At, Goto, lifeVars

LEMMA TimerStepEffect ==
  ASSUME TypeOK, NEW h \in Gens, TimerStep(h)
  PROVE  UNCHANGED <<life, cancelled, refreshPc, idx, merged, lastGood, current>>
BY DEF TimerStep, TimerStopped, TimerFires, RaiseFailOpen, lifeVars, reloadVars

LEMMA ReloadStep ==
  ASSUME IInv, [Next]_vars, NEW h \in Gens
  PROVE  ReloadOK(h)'
<1> USE ConstantFacts
<1>a. TypeOK /\ ReloadOK(h)
  BY DEF IInv
<1>c. idx[h] \in 1..(NumUrls + 1) /\ merged[h] \in SUBSET Names /\ lastGood[h] \in [Urls -> SUBSET Names]
  BY <1>a, Types
<1>1. CASE UNCHANGED StateOf(h)
  BY <1>1, <1>a DEF StateOf, ReloadOK
<1>2. CASE Start(h)
  <2>1. refreshPc[h] = "off"
    BY <1>2, <1>a DEF Start, IInv, ReadyOK
  <2>2. idx[h] = 1 /\ merged[h] = {}
    BY <1>a, <2>1 DEF ReloadOK
  <2>3. Collected(lastGood'[h], merged'[h], idx'[h] - 1) /\ refreshPc'[h] = "check"
    <3>1. idx'[h] - 1 = 0 /\ merged'[h] = {} /\ refreshPc'[h] = "check"
      BY <1>2, <1>a, <2>2, StartEffect
    <3> QED
      BY <3>1, NothingCollected
  <2> QED
    BY <2>3 DEF ReloadOK, Publishing
<1>3. CASE Check(h)
  BY <1>3, <1>a, <1>c, CheckEffect DEF ReloadOK, Publishing
<1>4. CASE Fetched(h)
  <2>1. PICK names \in (SUBSET Names) \ {{}} :
          /\ lastGood'[h] = [lastGood[h] EXCEPT ![urls[idx[h]]] = names]
          /\ merged'[h] = merged[h] \cup names
    BY <1>4, <1>a, FetchedEffect
  <2>2. refreshPc[h] = "fetch" /\ refreshPc'[h] = "check" /\ idx'[h] = idx[h] + 1
    BY <1>4, <1>a, FetchedEffect
  <2>3. idx[h] \in 1..NumUrls /\ Collected(lastGood[h], merged[h], idx[h] - 1)
    BY <1>a, <2>2 DEF ReloadOK
  <2>4. idx'[h] - 1 = idx[h]
    BY <2>2, <1>c
  <2>5. Collected(lastGood'[h], merged'[h], idx'[h] - 1)
    BY <1>c, <2>1, <2>3, <2>4, FetchCollects
  <2> QED
    BY <2>2, <2>5 DEF ReloadOK, Publishing
<1>5. CASE FetchFailed(h)
  <2>2. refreshPc[h] = "fetch" /\ refreshPc'[h] = "check" /\ idx'[h] = idx[h] + 1 /\ lastGood' = lastGood
        /\ merged'[h] = merged[h] \cup lastGood[h][urls[idx[h]]]
    BY <1>5, <1>a, FetchFailedEffect
  <2>3. idx[h] \in 1..NumUrls /\ Collected(lastGood[h], merged[h], idx[h] - 1)
    BY <1>a, <2>2 DEF ReloadOK
  <2>4. idx'[h] - 1 = idx[h]
    BY <2>2, <1>c
  <2>5. Collected(lastGood'[h], merged'[h], idx'[h] - 1)
    BY <1>c, <2>2, <2>3, <2>4, OldCopyCollects
  <2> QED
    BY <2>2, <2>5 DEF ReloadOK, Publishing
<1>6. CASE NothingLoaded(h)
  BY <1>6, <1>a, NothingLoadedEffect DEF ReloadOK, Publishing
<1>7. CASE Store(h)
  <2>1. idx[h] - 1 = NumUrls
    BY <1>7, <1>a, <1>c, StoreEffect
  <2> QED
    BY <1>7, <1>a, <2>1, StoreEffect DEF ReloadOK, Publishing
<1>8. CASE SetDomains(h)
  BY <1>8, <1>a, SetDomainsEffect DEF ReloadOK, Publishing
<1>9. CASE ClearFailOpen(h)
  BY <1>9, <1>a, ClearFailOpenEffect DEF ReloadOK, Publishing
<1>10. CASE SetReady(h)
  BY <1>10, <1>a, SetReadyEffect DEF ReloadOK, Publishing
<1>11. CASE Tick(h)
  <2>1. idx'[h] - 1 = 0 /\ merged'[h] = {} /\ refreshPc'[h] = "check"
    BY <1>11, <1>a, TickEffect
  <2>2. Collected(lastGood'[h], merged'[h], idx'[h] - 1)
    BY <2>1, NothingCollected
  <2> QED
    BY <2>1, <2>2 DEF ReloadOK, Publishing
<1>12. CASE Leave(h)
  BY <1>12, <1>a, LeaveEffect DEF ReloadOK, Publishing
<1>13. CASE TimerStep(h)
  BY <1>13, <1>a, TimerStepEffect DEF ReloadOK
<1> QED
  BY <1>a, <1>1, <1>2, <1>3, <1>4, <1>5, <1>6, <1>7, <1>8, <1>9, <1>10, <1>11, <1>12, <1>13, Frame
  DEF RefreshStep

LEMMA ListStep ==
  ASSUME IInv, [Next]_vars, NEW h \in Gens
  PROVE  ListOK(h)'
<1> USE ConstantFacts
<1>a. TypeOK /\ ReloadOK(h) /\ ListOK(h)
  BY DEF IInv
<1>c. idx[h] \in 1..(NumUrls + 1) /\ merged[h] \in SUBSET Names /\ lastGood[h] \in [Urls -> SUBSET Names]
  BY <1>a, Types
<1>1. CASE UNCHANGED StateOf(h)
  BY <1>1, <1>a DEF StateOf, ListOK
<1>2. CASE Start(h)
  BY <1>2, <1>a, StartEffect DEF ListOK
<1>3. CASE Check(h)
  BY <1>3, <1>a, CheckEffect DEF ListOK
<1>4. CASE Fetched(h)
  <2>1. PICK names \in (SUBSET Names) \ {{}} :
          lastGood'[h] = [lastGood[h] EXCEPT ![urls[idx[h]]] = names]
    BY <1>4, <1>a, FetchedEffect
  <2>2. idx[h] \in 1..NumUrls
    BY <1>4, <1>a, FetchedEffect DEF ReloadOK
  <2>3. PICK n \in Names : n \in names
    BY <2>1
  <2>4. Good(lastGood'[h], NumUrls, n)
    BY <1>c, <2>1, <2>2, <2>3 DEF Good
  <2> QED
    BY <1>4, <1>a, <2>4, FetchedEffect DEF ListOK
<1>5. CASE FetchFailed(h)
  BY <1>5, <1>a, FetchFailedEffect DEF ListOK
<1>6. CASE NothingLoaded(h)
  <2>1. idx[h] - 1 = NumUrls
    BY <1>6, <1>a, <1>c, NothingLoadedEffect
  <2>2. \A j \in 1..NumUrls : lastGood[h][urls[j]] \subseteq {}
    BY <1>6, <1>a, <2>1, NothingLoadedEffect DEF ReloadOK, Collected
  <2>3. \A n \in Names : ~Good(lastGood[h], NumUrls, n)
    BY <2>2 DEF Good
  <2>4. ~current[h].loaded
    BY <1>a, <2>3 DEF ListOK
  <2> QED
    BY <1>6, <1>a, <2>2, <2>4, NothingLoadedEffect DEF ListOK
<1>7. CASE Store(h)
  <2>1. idx[h] - 1 = NumUrls
    BY <1>7, <1>a, <1>c, StoreEffect
  <2>2. \E n \in Names : Good(lastGood[h], NumUrls, n)
    BY <1>7, <1>a, <2>1, StoreEffect DEF ReloadOK, Collected
  <2> QED
    BY <1>7, <1>a, <2>2, StoreEffect DEF ListOK
<1>8. CASE SetDomains(h)
  BY <1>8, <1>a, SetDomainsEffect DEF ListOK
<1>9. CASE ClearFailOpen(h)
  BY <1>9, <1>a, ClearFailOpenEffect DEF ListOK
<1>10. CASE SetReady(h)
  <2>1. /\ current[h].loaded /\ current[h].block = merged[h]
        /\ Collected(lastGood[h], merged[h], NumUrls)
    BY <1>10, <1>a, SetReadyEffect, Matchers DEF ReloadOK, Publishing
  <2>2. \A j \in 1..NumUrls : lastGood[h][urls[j]] \subseteq current[h].block
    BY <2>1 DEF Collected
  <2>3. NoneTwice(lastGood[h]) => \A n \in current[h].block : Good(lastGood[h], NumUrls, n)
    BY <2>1 DEF Collected
  <2> QED
    BY <1>10, <1>a, <2>1, <2>2, <2>3, SetReadyEffect DEF ListOK
<1>11. CASE Tick(h)
  BY <1>11, <1>a, TickEffect DEF ListOK
<1>12. CASE Leave(h)
  BY <1>12, <1>a, LeaveEffect DEF ListOK
<1>13. CASE TimerStep(h)
  BY <1>13, <1>a, TimerStepEffect DEF ListOK
<1> QED
  BY <1>a, <1>1, <1>2, <1>3, <1>4, <1>5, <1>6, <1>7, <1>8, <1>9, <1>10, <1>11, <1>12, <1>13, Frame
  DEF RefreshStep

LEMMA ReadyStep ==
  ASSUME IInv, [Next]_vars, NEW h \in Gens
  PROVE  ReadyOK(h)'
<1>a. TypeOK /\ ReloadOK(h) /\ ReadyOK(h)
  BY DEF IInv
<1>b. life'[h] = "absent" => life[h] = "absent"
  BY <1>a, Frame
<1>1. CASE UNCHANGED StateOf(h)
  BY <1>1, <1>a, <1>b DEF StateOf, ReadyOK
<1>2. CASE Start(h)
  BY <1>2, <1>a, StartEffect DEF ReadyOK
<1>3. CASE Check(h) \/ Fetched(h) \/ FetchFailed(h) \/ NothingLoaded(h) \/ SetDomains(h) \/ ClearFailOpen(h)
            \/ Tick(h) \/ Leave(h)
  <2>1. UNCHANGED <<life, current, ready, timerPc>> /\ refreshPc[h] # "off"
    BY <1>3, <1>a, CheckEffect, FetchedEffect, FetchFailedEffect, NothingLoadedEffect, SetDomainsEffect,
       ClearFailOpenEffect, TickEffect, LeaveEffect
  <2> QED
    BY <1>a, <2>1 DEF ReadyOK
<1>4. CASE Store(h)
  <2>1. current'[h].loaded
    BY <1>4, <1>a, StoreEffect, Matchers
  <2> QED
    BY <1>4, <1>a, <2>1, StoreEffect DEF ReadyOK
<1>5. CASE SetReady(h)
  <2>1. current[h].loaded
    BY <1>5, <1>a, SetReadyEffect, Matchers DEF ReloadOK, Publishing
  <2> QED
    BY <1>5, <1>a, <2>1, SetReadyEffect DEF ReadyOK
<1>6. CASE TimerStopped(h)
  <2>1. timerPc[h] = "waiting" /\ UNCHANGED <<life, current, ready>>
    BY <1>6 DEF TimerStopped, lifeVars
  <2> QED
    BY <1>a, <2>1 DEF ReadyOK
<1>7. CASE TimerFires(h)
  <2>1. timerPc[h] = "waiting" /\ UNCHANGED <<life, current>>
    BY <1>7 DEF TimerFires, lifeVars
  <2>2. CASE ready[h]
    BY <1>a, <2>1, <2>2 DEF ReadyOK
  <2>3. CASE ~ready[h]
    <3>1. timerPc' = [timerPc EXCEPT ![h] = "raise"]
      BY <1>7, <2>3, Zenon DEF TimerFires, TimerGoto
    <3>2. timerPc'[h] = "raise"
      BY <1>a, <3>1, Types
    <3> QED
      BY <1>a, <2>1, <3>2 DEF ReadyOK
  <2> QED
    BY <2>2, <2>3
<1>8. CASE RaiseFailOpen(h)
  <2>1. timerPc[h] = "raise" /\ timerPc'[h] = "failedOpen" /\ UNCHANGED life
    BY <1>8, <1>a, Types DEF RaiseFailOpen, TimerGoto, lifeVars
  <2> QED
    BY <1>a, <2>1 DEF ReadyOK
<1> QED
  BY <1>a, <1>1, <1>2, <1>3, <1>4, <1>5, <1>6, <1>7, <1>8, Frame DEF RefreshStep, TimerStep

LEMMA SignalStep == IInv /\ [Next]_vars => SignalOK'
<1> SUFFICES ASSUME IInv, [Next]_vars, Alone', timerPc'[1] = "failedOpen", ~current'[1].loaded
             PROVE  failOpen' = 1
  BY DEF SignalOK
<1> USE ConstantFacts
<1>a. TypeOK /\ SignalOK
  BY DEF IInv
<1>b. Alone
  BY <1>a, Frame DEF Alone
<1>1. CASE \E g \in Gens : RaiseFailOpen(g)
  BY <1>1 DEF RaiseFailOpen
<1>2. ASSUME NEW g \in Gens, ClearFailOpen(g) PROVE FALSE
  <2>1. g = 1
    <3>1. refreshPc[g] = "clear"
      BY <1>2 DEF ClearFailOpen, At
    <3> QED
      BY <1>b, <3>1 DEF Alone, IInv, ReadyOK
  <2>2. current[1].loaded
    BY <1>a, <1>2, <2>1, ClearFailOpenEffect, Matchers DEF IInv, ReloadOK, Publishing
  <2>3. current' = current
    BY <1>2 DEF ClearFailOpen
  <2> QED
    BY <2>2, <2>3
<1>3. ASSUME ~\E g \in Gens : RaiseFailOpen(g), ~\E g \in Gens : ClearFailOpen(g)
      PROVE  failOpen' = failOpen /\ timerPc[1] = "failedOpen"
  <2>1. failOpen' = failOpen
    BY <1>3, Zenon DEF Next, vars, gauges, Start, Shutdown, ShutdownReturns, RefreshStep, Check, Fetched,
       FetchFailed, NothingLoaded, Store, SetDomains, SetReady, Tick, Leave, TimerStep, TimerStopped,
       TimerFires
  <2>2. ASSUME NEW g \in Gens, TimerStep(g), g = 1 PROVE timerPc'[1] # "failedOpen"
    <3>1. TimerStopped(1) \/ TimerFires(1)
      BY <1>3, <2>2 DEF TimerStep
    <3>2. \E pc \in {"ended", "raise"} : timerPc' = [timerPc EXCEPT ![1] = pc]
      BY <3>1, Zenon DEF TimerStopped, TimerFires, TimerGoto
    <3> QED
      BY <1>a, <3>2, Types
  <2>3. timerPc[1] = timerPc'[1]
    <3>1. CASE UNCHANGED StateOf(1)
      BY <3>1 DEF StateOf
    <3>2. CASE Start(1)
      BY <1>a, <3>2, StartEffect
    <3>3. CASE RefreshStep(1) \/ Tick(1) \/ Leave(1)
      BY <3>3 DEF RefreshStep, Check, Fetched, FetchFailed, NothingLoaded, Store, SetDomains, ClearFailOpen,
                  SetReady, Tick, Leave
    <3>4. CASE TimerStep(1)
      BY <3>4, <2>2
    <3> QED
      BY <1>a, <3>1, <3>2, <3>3, <3>4, Frame
  <2> QED
    BY <2>1, <2>3
<1>4. current[1].loaded => current'[1].loaded
  <2>1. CASE UNCHANGED StateOf(1)
    BY <2>1 DEF StateOf
  <2>2. CASE Store(1)
    BY <1>a, <2>2, StoreEffect, Matchers
  <2>3. CASE Start(1) \/ (RefreshStep(1) /\ ~Store(1)) \/ Tick(1) \/ Leave(1) \/ TimerStep(1)
    BY <2>3 DEF Start, RefreshStep, Check, Fetched, FetchFailed, NothingLoaded, SetDomains, ClearFailOpen,
                SetReady, Tick, Leave, TimerStep, TimerStopped, TimerFires, RaiseFailOpen
  <2> QED
    BY <1>a, <2>1, <2>2, <2>3, Frame
<1> QED
  BY <1>a, <1>b, <1>1, <1>2, <1>3, <1>4 DEF SignalOK

LEMMA Inductive == IInv /\ [Next]_vars => IInv'
<1> SUFFICES ASSUME IInv, [Next]_vars PROVE IInv'
  OBVIOUS
<1>1. TypeOK'
  BY TypeStep DEF IInv
<1>2. \A g \in Gens : ReloadOK(g)' /\ ListOK(g)' /\ ReadyOK(g)'
  BY ReloadStep, ListStep, ReadyStep
<1> QED
  BY <1>1, <1>2, SignalStep DEF IInv

LEMMA Invariant == Spec => []IInv
BY InitOK, Inductive, PTL DEF Spec

-------------------------------------------------------------------------------
(***************************************************************************)
(* The theorems.                                                           *)
(***************************************************************************)

\* The state of every generation is well typed; in particular no matcher that
\* reload publishes is empty, so a failed refresh never switches filtering off.
THEOREM TypeCorrect == Spec => []TypeOK
<1>1. IInv => TypeOK
  BY DEF IInv
<1> QED
  BY <1>1, Invariant, PTL

\* What is in force once a reload went through, while it is being published
\* and afterwards.
LEMMA ReloadedList ==
  ASSUME IInv, NEW g \in Gens, Reloaded(g)
  PROVE  /\ \A j \in 1..NumUrls : \A n \in lastGood[g][urls[j]] : current[g].loaded /\ n \in current[g].block
         /\ NoneTwice(lastGood[g]) =>
              \A n \in Names : current[g].loaded /\ n \in current[g].block => Good(lastGood[g], NumUrls, n)
<1> USE ConstantFacts
<1>a. ReloadOK(g) /\ ListOK(g)
  BY DEF IInv
<1>1. CASE refreshPc[g] \in Publishing
  <2>1. /\ current[g].loaded /\ current[g].block = merged[g]
        /\ Collected(lastGood[g], merged[g], NumUrls)
    BY <1>1, <1>a, Matchers DEF ReloadOK
  <2> QED
    BY <2>1 DEF Collected
<1>2. CASE refreshPc[g] \in {"wait", "done"}
  <2>1. idx[g] > NumUrls
    BY DEF Reloaded, AllFetched
  <2> QED
    BY <1>2, <1>a, <2>1 DEF ListOK
<1> QED
  BY <1>1, <1>2 DEF Reloaded, Publishing

\* A source that fails keeps contributing its last good copy, whatever else
\* happens in that reload, a shutdown and a URL listed twice included.
THEOREM LastGoodFilters == Spec => []KeepsLastGood
<1>1. IInv => KeepsLastGood
  <2> SUFFICES ASSUME IInv, NEW g \in Gens, Reloaded(g), NEW k \in DOMAIN urls,
                      NEW n \in lastGood[g][urls[k]] \ Allow
               PROVE  Blocked(g, n)
    BY DEF KeepsLastGood
  <2> QED
    BY ReloadedList, ConstantFacts DEF Blocked
<1> QED
  BY <1>1, Invariant, PTL

\* Unless a URL listed twice has loaded, a reload that went through leaves nothing of an
\* older copy or an earlier reload in force.
THEOREM OldCopiesGo == Spec => []NothingStale
<1>1. IInv => NothingStale
  <2> SUFFICES ASSUME IInv, NEW g \in Gens, Reloaded(g), NoneTwice(lastGood[g]), NEW n \in Names, Blocked(g, n)
               PROVE  \E k \in DOMAIN urls : n \in lastGood[g][urls[k]]
    BY DEF NothingStale
  <2>1. Good(lastGood[g], NumUrls, n)
    BY ReloadedList DEF Blocked
  <2> QED
    BY <2>1, ConstantFacts DEF Good
<1> QED
  BY <1>1, Invariant, PTL

\* Ready() never reports true for a generation that neither loaded a list nor
\* gave up waiting for one.
THEOREM ReadyHasReason == Spec => []ReadyMeansLoadedOrFailedOpen
<1>1. IInv => ReadyMeansLoadedOrFailedOpen
  BY DEF IInv, ReadyOK, ReadyMeansLoadedOrFailedOpen
<1> QED
  BY <1>1, Invariant, PTL

\* While only the first generation has run, serving unfiltered shows in the
\* fail_open gauge.
THEOREM UnfilteredShows == Spec => []UnfilteredIsSignalled
<1>1. IInv => UnfilteredIsSignalled
  BY ConstantFacts DEF IInv, ReadyOK, SignalOK, Alone, Settled, UnfilteredIsSignalled
<1> QED
  BY <1>1, Invariant, PTL
===============================================================================
