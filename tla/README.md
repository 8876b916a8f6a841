# homedns in TLA+

TLA+ models of homedns, a CoreDNS build with three plugins of its own: `race`
(asks every upstream at once), `blocklist` (answers NXDOMAIN for listed names)
and `peercache` (asks sibling replicas beside the upstream). The modules are
translated from the Go sources under `src/`; TLC checks them on small
instances, TLAPS proves the theorems for every instance.

## The system

| Component | State | Operations | Talks to |
| --- | --- | --- | --- |
| race (`plugin/race`) | per upstream a pool of idle connections; per query a buffered results channel, `fallback`, `lastErr` | `ServeDNS`, `dispatch`, `exchange`, `reply`, `start`, `stop` | upstreams through CoreDNS's `pkg/proxy`; the client's writer |
| detached writer (`internal/detached`) | a captured message | `New`, `WriteMsg` | legs of race and peercache |
| blocklist (`plugin/blocklist`) | published matcher, `ready`, `lastGood` per URL, process-wide gauges | `start`, `shutdown`, `reload`, `failOpenAfterTimeout`, `ServeDNS`, `Ready` | HTTP sources, the ready plugin, Prometheus |
| name sets (`matcher.go`) | none | `newNameSet`, `covers` | blocklist |
| sources (`source.go`, `parse.go`) | next bootstrap server | `fetch`, `parseList` | blocklist |
| peercache race (`peercache.go`) | per query a results channel; the peer list | `ServeDNS`, `race`, `probe`, `reply` | siblings' probe listeners, the next plugin |
| store (`store.go`) | bounded cache of answers | `put`, `get` | peercache race, probe listener |
| probe listener (`listener.go`) | a UDP socket | `listen`, `bind`, `serve`, `serveProbe` | siblings |
| discovery (`discovery.go`) | the informer's cache, the peer set, the peers gauge | `discover`, `republish` | Kubernetes API |
| configuration (`setup.go` of each plugin) | the plugin being configured | `setup`, `parseConfig`, `addUpstreams` | caddy |
| plugin order (`directives.go`) | `dnsserver.Directives` | `init`, `insertBefore` | CoreDNS |
| load generator (`scripts/loadgen`) | a bounded channel, a connection per worker, shared results | `run`, `worker`, `report` | the server under test |
| build info, main, chart | | | |

What is hard here is concurrency: goroutines per query that outlive it, a pool
shared by all of them, two goroutines that publish one piece of state, replicas
that pass answers on to each other, and Corefile reloads that start a new
generation of every plugin while the old one still runs. `PROJECT.json` lists
the hazards line by line.

What makes each component correct:

- race: the first useful answer wins; one reply per query; no leg blocks or
  leaks; a leg with a dead connection gets to dial a live one.
- blocklist: filtering follows the last good copy of each source, and nothing
  else unless a URL is listed twice; a failed refresh changes nothing; readiness comes and has a reason; the gauge tells
  the truth; shutdown ends.
- peercache: the failure a client sees is the upstream's; every query ends;
  answers do not circulate or outlive the upstream's TTL; DNSSEC queries are
  never answered from a store.
- name sets and list parsing: a name is blocked exactly if it or an ancestor is
  named by a line of a list.
- discovery and lifecycle: the peer set ends up equal to the running pods;
  shutdown ends, the port is freed and no goroutine goes on publishing.
- configuration and order: what is accepted can run; blocking comes before
  anything that could answer.
- load generator: green means every name was answered as wanted.

## Modules

| Module | Models | Notes |
| --- | --- | --- |
| `Contest` | what a race between legs promises | abstract; implemented by `Race` and `PeerCache` |
| `Race` | `race.go`, `start` and `stop` of `setup.go` | |
| `MCRace` | instances of `Race` | |
| `RaceProofs` | theorems about `Race` | TLAPS |
| `Blocklist` | `blocklist.go`, result of `fetch` | |
| `MCBlocklist` | instances of `Blocklist` | |
| `BlocklistProofs` | theorems about `Blocklist` | TLAPS |
| `PeerCache` | `peercache.go`, `store.go`, `serveProbe` and `isPeer` of `listener.go`, `republish` | |
| `MCPeerCache` | instances of `PeerCache` | |
| `PeerCacheProofs` | theorems about `PeerCache` | TLAPS |
| `Lifecycle` | `start`, `shutdown`, `listen`, `bind`, `serve`, `discover`, `republish` of peercache | |
| `MCLifecycle` | instances of `Lifecycle` | |
| `LifecycleProofs` | theorems about `Lifecycle` | TLAPS |
| `ListLoading` | `parse.go`, `matcher.go`, the verdict of `fetch` | |
| `MCListLoading` | instances of `ListLoading` | |
| `ListLoadingProofs` | theorems about `ListLoading` | TLAPS |
| `Setup` | `parseConfig` of the three plugins | operators, no state |
| `Server` | `directives.go`, the setups, and the chain on several replicas | composes what the plugins show each other; extends `Setup` |
| `MCServer` | instances of `Server` | |
| `ServerProofs` | theorems about `Server` and the operators of `Setup` | TLAPS |
| `LoadGen` | `scripts/loadgen/main.go` | |
| `MCLoadGen` | instances of `LoadGen` | |
| `LoadGenProofs` | theorems about `LoadGen` | TLAPS |

Operators with a `\* mutant` comment stand before the definition
they are a wrong version of. They are not part of a specification: replacing
the definition by the mutant shows that a property can fail.

### Contest

Every query is put to a set of legs, which report once each, in any order. A
query is *won* by the first useful report in the order of reports; it *falls
back* to an unusable answer of a fallback leg, or *fails*, only when every leg
has reported and none was useful; it may be *cancelled* at any time, and may be
*delegated* instead of raced. `Race` implements it with every upstream as a
fallback leg, `PeerCache` with the upstream as the only one and with the
replicas outside the peer list left out.

### Race

One action per step that other goroutines can see between: `Dispatch` launches
the legs; a leg takes a pooled connection or dials (`Dial`), then finds it dead
(`StaleConn`, retried up to `MaxConnectAttempts`), fails (`Failed`) or gets a
message (`Replied`: mismatched, unusable or useful) and yields the connection;
`Send` puts the result into the channel if there is room. `Receive` is one
iteration of dispatch's loop up to the next `select` or the return; `Cancel` is
the context arm. `sent[q]` is the channel's history and `taken[q]` how far
dispatch has read, so the buffer holds `Len(sent[q]) - taken[q]` results.
`replies[q]` counts the messages on the client's connection, including the
error reply CoreDNS adds when `ServeDNS` returns a failure code (`ClientWrite`).
Queries come at any time after `start`, also after `stop`, when the server they
arrive on is on its way down.

External, modelled from their use: the connection pool (`Dial`, `Yield`,
`Expire`) and `plugin.ClientWrite`. Messages are reduced to rcode and TC bit.
`drained` and `refills` are history variables for `DrainBound`.

### Blocklist

A *generation* is one plugin instance; `Start(g)` of the next one may happen
while the one before it runs. The refresh goroutine's program counter runs
through `reload` one shared write at a time (matcher, `domains_total`,
`fail_open`, `ready`), because the timer goroutine and queries run between any
two of them. `TimerFires` is the atomic `Swap`; the gauge follows in a step of
its own. Sources are the positions of the sequence `urls`; `lastGood` is kept per
URL, as in the code, so two positions with the same URL share a copy. If the
first of them fails and the second succeeds, one reload merges the old copy and
the new one. A list is a set of names and `Allow` a set of exempt ones; what a list
covers is the subject of `ListLoading`. `fetch` returns any non-empty set of
names or fails.

### PeerCache

All replicas, their stores and all queries in one state. `Serve` reads the peer
list and launches the legs, or takes the direct path; `ServeProbe` is the whole
handler on the sibling; `ProbeReturns` and `ProbeFails` are the ways a probe
can end; `Win`, `Continue`, `GiveUp` and `Cancelled` are the loop. Time is in
half seconds (`probeTimeout` is one). Two assumptions about time: the loop and
a probe at its deadline are not held up for half a second (`Tick` waits for
them), and an entry is at least one instant old when it is served.

Messages are reduced to useful or not and to the TTL that `minTTL` finds; ghost
fields say which DO/CD bits the upstream was asked with, when its answer
expires, and how many stores it went through. Answers that `Typify` does not
class as storable behave like answers with too small a TTL. External: the
cache's eviction (`Evict`, any entry at any time, which also covers a restarted
replica's empty store), the rest of the chain (`UpstreamMsgs`), the query's
context. `serveProbe` also refuses messages without exactly one question; the
listener's `dns.Server` has turned those away before, so there is no such step.

### Lifecycle

One generation of peercache on one replica, beside the predecessor a Corefile
change replaces. caddy starts the new generation first, so the port may still
be taken and both set the process-wide peers gauge. `Start` launches the two
goroutines, or none without `POD_IP`; `Shutdown` of a generation that was never
started does nothing (`ShutdownUnstarted`). The listener goes through `Bind`,
`BindFails`, the delay and its two arms, serving, and the ways serving ends:
the goroutine that waits for the context closes the conn (`CloseConn`), serving
fails and closes it (`ServeFails`), or the socket cannot be set up and nothing
is served (`NeverServes`), which leaves the conn to that goroutine, for which
`shutdown` does not wait; discover through its setup, which may fail, the wait for the first list,
its own republish and `factory.Shutdown`. `republish` is three steps (`List`,
`Store`, `SetGauge`) for either publisher. The informer is external: it learns
of one pod at a time, reports its first list, resyncs, and stops once its
handler is not at work. The predecessor runs the same code; what is assumed of
it (it releases the port in the end, falls silent, and returns from shutdown)
is what `PortReleased`, `QuietAfterShutdown` and `ShutdownEnds` show of a
generation. A port that something outside the process holds is not modelled.

### ListLoading

A list is read line by line (`ParseLine`), and the candidates of a line one by
one (`normalizeEntry`); `Sort`, `DedupStep` and `PruneStep` are newNameSet's
passes, the second over the array it is reading. Go's `sort` package is given by
what it promises: `Sort` rearranges the names so that they ascend, and
`SearchStrings` ends where smaller names stop, which in a slice out of order
need not be where the name is, so `has` finds a name for certain only in a
sorted slice. Text is split
at the dots: a name is a sequence of labels, so that trimming, the walk over
ancestors and the order of strings are about sequences, and what a label may
consist of is a constant (`GoodLabels`), as are the names of more than 253
characters (`TooLong`). The reference definition (`Domain`, `Names`, `Lists`) says what a line names
without saying how it is read.

### Setup and Server

`Setup` gives, for each plugin, what a draft configuration becomes with the
head of a stanza, a line of its block, and the end of either; `Rejected` is the
error that keeps the server from starting. The parsers of single arguments
(URLs, durations, addresses, label selectors) are constants: sets of words they
accept, or functions to what they return. `HostPortOrFile` is asked about all
addresses of a race at once, as in the code: every word has to be an address or
a file, but a file without nameservers is an error only if no other word gives
a host.

`Server` boots with it: `Splice` and `Panic` are `insertBefore` on any of the
`Shipped` directives, caddy then goes through the directives and sets up those
the Corefile has (`SkipDirective` passes over the others), and the chain this
gives walks queries on all replicas. The proxies of race are a set, told apart
by the address and the line of its file they come from; their order is the
order of the legs, which `Race` does not use. Of the
plugins it keeps what they see of each other: the list in force, the cache, the
probe store. `Refresh` replaces a list by any other (also the first load; there
is none without the blocklist plugin), `Through` is the turn of any other
plugin, which only watches or has nothing on the names asked, and `Blocklist`, `Cache`, `PeerAnswers`, `UpstreamLeg` and `Forward` are the
plugins' turns, and an answer is kept by every keeper above the plugin that
gave it. `clear[q]` is a history variable: some list in force since the query
came did not have its name.

### LoadGen

The names are what `readNames` returned, numbered in order, so the channel is an
interval; how the file is trimmed and limited is left out.
A worker dials, asks, reads whatever arrives on its connection, reconnects
after an error and adds its counts to the results when it leaves; each of these
may fail. `said` records what the server made of a name. The network may lose
and delay answers but not duplicate them.

## Runs

| Run | Instance | Shows |
| --- | --- | --- |
| `race` | 1 query, 2 upstreams, pool of 1; fair | `ExactlyOneReply`, `SendNeverBlocks`, `FailureHasCause`, `ImplementsContest`, `QueryReturns`, `LegsEnd` |
| `race_pool` | 3 queries, 1 upstream, pool of 1 | `TypeOK`, `DrainBound` |
| `race_drain` | 4 queries, 1 upstream, legs at work | `DrainFitsAttempts` is violated |
| `blocklist` | 1 generation, 3 sources of which 2 are the same URL, 3 names, 1 allowed; fair | `TypeOK`, `KeepsLastGood`, `NothingStale`, `ReadyMeansLoadedOrFailedOpen`, `UnfilteredIsSignalled`, `ReadyEventually`, `ShutdownEnds` |
| `blocklist_fail_open` | 2 generations, 1 source, 1 name | `FailOpenMeansUnfiltered` is violated |
| `peercache` | 2 replicas, 1 racing query, 1 that warms a store, 1.5 s of time; fair | `TypeOK`, `UpstreamIsHeard`, `HopsShrinkTTL`, `NotMuchBeyondUpstreamExpiry`, `OwnBits`, `ImplementsContest`, `QueryReturns`, `LegsEnd` |
| `peercache_wait` | 2 replicas, 1 query | `NeverWaitsOnPeer` is violated |
| `lifecycle` | a generation and its predecessor, 1 sibling, 3 attempts to bind, 2 pod changes; fair | `TypeOK`, `PortFreeAfterShutdown`, `QuietAfterShutdown`, `ShutdownEnds`, `PortReleased`, `PeersSettle`, `PortIsTaken` |
| `listloading` | lists of up to 4 of 16 lines, 16 queries | `BlocksWhatItNames`, `Canonical` |
| `loadgen` | 2 workers, room for 2 names, up to 4 names; fair | `TypeOK`, `GreenMeansAnswered`, `AnswersBelong`, `RunReturns` |
| `server` | 3 shipped orders, 3 Corefiles (one without blocklist), blocks of up to 3 lines, 2 replicas, 3 queries for 1 name | `ConfigIsRunnable`, `ProxiesSeeTheBlock`, `BlockedIsNeverAnswered` |
| `server_sibling` | the same with 2 queries | `BlockedNeverShared` is violated |

Why the bounds are enough. `race`: legs of one query interact only through its
channel, and two legs already give every order of useful, unusable, failed and
missing results; legs of different queries interact only through the pool,
which is `race_pool`'s subject, with more legs than the pool holds. Three
attempts per leg (a pool of one) let a leg drain, dial and still fail. The
theorems remove these bounds. `blocklist`: two URLs give a reload in which one fails
and one succeeds, and the one listed twice succeeds and fails in every
combination, with the other between; generations share nothing but gauges. `peercache`:
the loop does not tell siblings apart, so one sibling and the upstream give
every order of the two kinds of leg; `MCWarmed` fixes which query warms which
store, so that the sibling may win. With TTLs of 4 s (below the floor) and 6 s,
an entry is refused, served after a hop and too old to be served within the
time there is. `lifecycle`: with one sibling the peer set has two values, enough
for an older list to be stored over a newer one, and two changes let a pod come
and go or change between the two lists; with three attempts there is a first,
a middle and a last one. `listloading`: names above, below and beside each
other in every spelling `normalizeEntry` knows, each of the rejected kinds, and
four lines to put them in any order with duplicates. `loadgen`: the producer
blocks with names left over, with either worker gone or both. `server`: one
query fills a cache or store, a second one takes it to the sibling, a third one
asks there; three lines let a property be given, repeated and followed by
another. `CHECK_DEADLOCK FALSE` is set where the bounded number of queries,
lines or generations may simply be used up, or where the program ends.

### The disagreements

- `race_drain`: the comment on `maxConnectAttempts` says that draining a full
  pool and dialling fresh fits into the attempts. Legs of other queries refill
  the pool while it is drained, so a leg may use up its attempts on pooled
  connections alone. `DrainBound` is the bound that does hold.
- `blocklist_fail_open`: the timer's `Swap` before reload's and its `Set(1)`
  after reload's `Set(0)` leave `fail_open` at 1 with a list in force.
- `peercache_wait`: when the upstream's answer is not useful, the client waits
  for siblings up to `probeTimeout`; the README says it never waits on a peer.
- `server_sibling`: the README of peercache says that a blocked name never
  enters the store and is never served to a sibling. An answer stored before
  the list that blocks it is in force is served until it expires. The client is
  safe if its own replica blocks the name (`BlockedIsNeverAnswered`).

Not run, but noted while reading:

- the comment on peercache's `race` says that losing legs are cancelled; no
  context is cancelled when a leg wins. They do end (`LegsEnd`);
- the comment on `store` says that a wrong entry never reaches a client; `get`
  finds an entry by a 64-bit hash and does not compare the question;
- peercache's README says that a failed bind leaves the peer set empty (103-105);
  only the listener gives up, discovery goes on, and `bind`'s own warning says
  that the replica still takes answers from siblings (in `Lifecycle`, a listener
  that is done does not keep `Store` from a non-empty peer set);
- race's README says that fewer than two upstreams is an error (24-25);
  `parseConfig` counts the words of the stanza (65), and one of them may be a
  file without nameservers, so a race of one leg is accepted, which is why
  `ConfigIsRunnable` asks for one proxy and not for two;
- the warning of `bind` gives the time spent as 20 delays; there are 19 between 20
  attempts;
- the comment in `newNameSet` says that pruning in place would corrupt the set
  being searched; a search over small lists found none for which it does;
- `loadgen` does not return if every worker has left while the producer is
  blocked on a full channel: it hangs, or Go ends it with "all goroutines are
  asleep". `RunReturns` is stated up to that.

## Fairness

- `Race`: weak fairness of every leg and of dispatch. A leg's attempt ends
  because `Connect` sets deadlines; goroutines are scheduled. Nothing is
  assumed of clients, answers, cancellation or the lifecycle.
- `Blocklist`: weak fairness of the refresh goroutine inside a reload (the HTTP
  client has timeouts), of the timer and of `shutdown`'s return; strong
  fairness of `Leave`, because `select` chooses at random among ready arms and
  so does not pass over a done context for ever. Ticks are not assumed.
- `PeerCache`: weak fairness of the clock, of the loop, of the next plugin
  (which is `race`, shown to return by `Race`'s `QueryReturns`) and of a probe
  that has reached its deadline.
- `Lifecycle`: weak fairness of the goroutines (the one that closes the conn
  included, which is started with serving), of a delay's end, of the
  informer once it has its first list (client-go lists and watches again after
  every failure and resyncs every ten minutes) and of the predecessor's
  shutdown. Nothing is assumed of pods, of this generation's own shutdown, or
  of the API server before the first list, so shutdown must end without it.
- `LoadGen`: weak fairness of main and of every worker; dials and reads have
  deadlines.

## Proofs

`RaceProofs` (any queries, any finite non-empty set of upstreams, any pool cap
of at least one, any set of replies; the assumptions are the `ASSUME`s of
`Race`) proves `TypeOK`, `DrainBound`, `ExactlyOneReply`, `SendNeverBlocks`,
`FailureHasCause` and the refinement of `Contest`. `DrainBound` is not
inductive: `PoolInv` adds that what a leg has drained plus what the pool
holds is at most the cap plus its refills. The others rest on `IInv`: a leg is in the channel's history once, and
exactly if it is done (`ChanOK`); a finished leg has a message or an error
(`ResOK`); the phase agrees with the outcome and the reply count (`PhaseOK`);
and what dispatch has taken so far contained nothing useful, with `fallback`
and `lastErr` accounting for it (`TallyOK`). Counting distinct legs bounds the
channel, which is why the capacity suffices, and when the last leg is taken
every leg has reported, which is what the abstract `FallBack` and `Fail` ask.

`BlocklistProofs` (any number of generations, any sequence of URLs, any finite
set of names, any allow list) proves `TypeOK`, `KeepsLastGood`, `NothingStale`,
`ReadyMeansLoadedOrFailedOpen` and `UnfilteredIsSignalled`. `KeepsLastGood` and
`NothingStale` are the two halves of "what is in force is the last good
copies", of a reload that went through all sources, whether or not the
generation was told to stop meanwhile. The first holds for every sequence of
URLs; the second leaves out the states in which a URL listed twice has loaded
(`NoneTwice`), because then a copy already replaced may still be in force until
the next reload. Both speak of the end of a reload, so the invariant follows it: at
source `i` the collected names have the last good copies of the sources before
`i`, and nothing else under `NoneTwice` (`Collected`, `ReloadOK`), while publishing the matcher is that collection, and a list in
force implies that some source has a good copy (`ListOK`), which is what makes
"nothing collected" mean "no list in force". `SignalOK` carries the gauge.

`LifecycleProofs` (any finite set of pods, any number of attempts and of pod
changes) proves `TypeOK`, `PortFreeAfterShutdown` and `QuietAfterShutdown`.
What shutdown leaves behind depends on where it found the goroutines, so the
invariant ties what they hold to where they are: the port to serving or to a
conn left open (`ListenOK`), discover's republish to the time between the wait and the end,
the handler's to a running informer, and the informer to a discover that has
not ended (`PublishOK`); after shutdown both goroutines are done (`LifeOK`).

`PeerCacheProofs` (any finite set of replicas, any queries, names, keys and
TTLs, a clock bounded anywhere; the assumptions are the `ASSUME`s of `PeerCache`) proves
`TypeOK`, `UpstreamIsHeard`, `HopsShrinkTTL`, `NotMuchBeyondUpstreamExpiry`,
`OwnBits` and the refinement of `Contest`. The three about answers speak of
stores and clients, but an answer spends most of its life in between: taken
from a sibling's store by a probe, in a leg's hands, in the channel. So the
invariant follows a message along that way. Wherever it is, it was resolved
with the query's bits and has lost a second for each hop (`MsgOK`, `GivenOK`,
`EntryOK`); a probe still out is within its deadline and its answer is timely
even if it arrives at the deadline (`ProbeOK`), and what waits in the channel of
a running race is timely now (`UnreadOK`). The outcome rests on the channel as
in `Race`: every finished leg is in the channel's history once (`ChanOK`), legs
are launched together (`LegOK`), and nothing the loop has taken so far was
useful (`PhaseOK`). Once all legs are taken, so is the upstream's.

`ServerProofs` (any shipped directives that have `cache` before every
`forward`, as `directives_test.go` asks of the release in use; any Corefile,
also one without blocklist; any number of replicas, names, queries, lines and
arguments, any words and any parsers of them) proves `ConfigIsRunnable` (a race
has at least one proxy, none of an unknown transport),
`ProxiesSeeTheBlock` and `BlockedIsNeverAnswered`. The argument for the last
follows the order through the boot. `OrderInv`: after each insert, blocklist is
above `cache` and `forward`, and above `peercache` and `race` from their own
insert on, which is the first time it is known that CoreDNS has none of that
name. `ChainInv`: setup keeps that order in the chain. `WalkInv`: a query whose
name every list has blocked since it came has no blocklist behind it, so it is
not at a plugin that answers. `DraftInv` carries the other two: what a draft
looks like after every token, for each plugin; a race has no proxy until its
block has ended.

`LoadGenProofs` (any finite set of workers, any room per worker, any number of
names) proves `TypeOK`, `GreenMeansAnswered` and `AnswersBelong`. A
green run is about names, the program counts errors: the invariant says of
every name taken from the channel that a worker is asking for it, has an answer
to it, or has an error to show for it (`MainInv`); that only the answer to a
worker's current name can be under way on its connection (`ConnOK`); and that a
worker leaves with the channel used up or an error, which the shared results
then know (`LeaveOK`).

`ListLoadingProofs` (any labels with any order of them, any lines and queries,
lists of any length) proves `Canonical` and `BlocksWhatItNames`, and that
`normalizeEntry` accepts a field exactly if it is one of the eight spellings of
a domain of at most 253 characters (`EntryIsNamed`). No induction over the list is needed, because every
pass is a loop whose invariant says what it has done so far. `ParseInv`: the
parsed names are those the text read so far gives, but for the candidates still
to come. `DedupInv`: the front of the array is in strict order, the part not yet
read is in order and not before it, and both together hold the parsed names,
although the front grows over names already read. `PruneInv`: out is, in strict
order, what has no ancestor in deduped, as far as the loop has come. That
pruning loses nothing is then about a query: of the listed domains it is in, the
one with the fewest labels has no listed ancestor, so it is in out.

Only model-checked: liveness (`QueryReturns`, `LegsEnd`, `ReadyEventually`,
`ShutdownEnds`, `PortReleased`, `PeersSettle`, `PortIsTaken`, `RunReturns`), which is outside
the prover.

## Not modelled

- Metrics other than `fail_open`, `domains_total` and the peers gauge: counters
  and gauges the program writes and never reads.
- The HTTP transport and the rotation over bootstrap servers (`source.go`,
  26-65): timeouts and library calls; the one thing the program adds, that there
  is a server to divide by, is part of `ConfigIsRunnable`.
- `main`, build info, `loadtest.sh`, the chart and the dashboards: no state of
  their own.
- Two generations of blocklist with both goroutines in a passing run: the
  gauges they share may disagree with either (`FailOpenMeansUnfiltered`).

## Plan

Every safety property a passing run checks is proved. What would be worth
adding:

1. The safety half of the liveness properties, as invariants: in every state in
   which someone waits (dispatch on its channel, `shutdown` on its wait group,
   a worker on the job channel) the guard of a step that ends the wait holds.
   Under the fairness above that is most of `QueryReturns` and `ShutdownEnds`.
2. The place where `Blocklist` takes a list to be the set of names it covers, as
   a refinement: `ListLoading` implements a single step from the text to that
   set.
