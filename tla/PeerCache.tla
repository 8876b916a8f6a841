------------------------------- MODULE PeerCache -------------------------------
(***************************************************************************)
(* The peercache plugin on every replica of a deployment: the race between *)
(* the siblings and the upstream (peercache.go), the probe store           *)
(* (store.go) and the probe listener (listener.go).                        *)
(*                                                                         *)
(* Time is counted in half seconds, the length of probeTimeout.  A store   *)
(* entry is at least one instant old when it is served: a probe takes a    *)
(* network round trip, and the clock is monotonic.                         *)
(*                                                                         *)
(* A message keeps, beside the TTL it shows, facts no message really       *)
(* carries: whether DO or CD was set when the upstream was asked, the TTL  *)
(* the upstream gave (ttl0), the instant the upstream's answer expires     *)
(* (dies), and how many stores it came through (hops).                     *)
(***************************************************************************)
EXTENDS Integers, FiniteSets, Sequences

CONSTANTS
  Replicas,        \* pods of the deployment
  Queries,         \* client queries
  Names,           \* (name, type, class) triples that may be asked
  Keys,            \* values of cache.Hash
  hash,            \* [Names -> Keys]: cache.Hash of the name, type and class
  TTLs,            \* TTLs upstream answers come with, in seconds
  MaxTime,         \* bound on the clock
  Upstream         \* the leg that calls the next plugin; not a replica

ASSUME ReplicasAssumption == IsFiniteSet(Replicas)
ASSUME HashAssumption == hash \in [Names -> Keys]
ASSUME TTLsAssumption == TTLs \subseteq Nat
ASSUME MaxTimeAssumption == MaxTime \in Nat
ASSUME UpstreamAssumption == Upstream \notin Replicas

minServeTTL == 5            \* seconds
Second == 2                 \* half seconds
probeTimeout == 1           \* half seconds

Legs == Replicas \cup {Upstream}

VARIABLES
  now,             \* the clock
  peers,           \* peers[r]: the peer set r has published
  store,           \* store[r][k]: r's store, NoEntry where it holds nothing
  query,           \* query[q]: what q asks, of which replica, and if DO or CD is set
  phase,           \* phase[q]: "idle", "direct", "racing" or "done"
  ctxDone,         \* ctxDone[q]: the query's context has ended
  asked,           \* asked[q]: the peer list ServeDNS read
  sentAt,          \* sentAt[q]: when the legs were launched
  legPc,           \* legPc[q][l]: "off", "sent", "answered" or "done"
  legMsg,          \* legMsg[q][l]: the message a leg has, or NoMsg
  results,         \* results[q]: legs in the order their results were sent
  taken,           \* taken[q]: how many results the loop has received
  outcome,         \* outcome[q]: how the query ended, and by which leg
  given            \* given[q]: the message the client got, and when

clock == <<now, peers>>
legVars == <<legPc, legMsg, results>>
asking == <<query, ctxDone, asked, sentAt>>
ending == <<phase, taken, outcome, given>>
vars == <<clock, store, legVars, asking, ending>>

-------------------------------------------------------------------------------
(***************************************************************************)
(* Messages and entries.                                                   *)
(***************************************************************************)
NoMsg == [kind |-> "none"]

\* Any message that cannot end the race: truncated, SERVFAIL, REFUSED.
Unusable == [kind |-> "unusable"]

\* What the upstream gives q now.
Answer(q, ttl) ==
  [kind |-> "answer", dnssec |-> query[q].dnssec, ttl |-> ttl, ttl0 |-> ttl,
   dies |-> now + Second * ttl, hops |-> 0]

useful(m) == m.kind = "answer"

NoEntry == [held |-> FALSE]
Entry(m, t) == [held |-> TRUE, msg |-> m, stored |-> t]

\* key: where the store looks for an answer to q.
key(q) == hash[query[q].name]

\* put.  Answers that are useful but that Typify does not class as storable, or
\* that have no record with a TTL, behave like answers with a TTL too small.
PutShortLived(r, q, m) ==                   \* mutant: no TTL floor
  IF useful(m) /\ ~query[q].dnssec
    THEN store' = [store EXCEPT ![r][key(q)] = Entry(m, now)]
    ELSE UNCHANGED store
put(r, q, m) ==
  IF useful(m) /\ ~query[q].dnssec /\ m.ttl >= minServeTTL
    THEN store' = [store EXCEPT ![r][key(q)] = Entry(m, now)]
    ELSE UNCHANGED store

remaining(e) == Second * e.msg.ttl - (now - e.stored)

Fresh(e) == remaining(e) >= Second * minServeTTL

\* The message get returns: TTLs rebased and rounded down to seconds.
RebasedNot(e) == [e.msg EXCEPT !.hops = @ + 1]     \* mutant: setTTL forgotten
Rebased(e) == [e.msg EXCEPT !.ttl = remaining(e) \div Second, !.hops = @ + 1]

-------------------------------------------------------------------------------
Init ==
  /\ now = 0
  /\ peers = [r \in Replicas |-> {}]
  /\ store = [r \in Replicas |-> [k \in Keys |-> NoEntry]]
  /\ query \in [Queries -> [at : Replicas, name : Names, dnssec : BOOLEAN]]
  /\ phase = [q \in Queries |-> "idle"]
  /\ ctxDone = [q \in Queries |-> FALSE]
  /\ asked = [q \in Queries |-> {}]
  /\ sentAt = [q \in Queries |-> 0]
  /\ legPc = [q \in Queries |-> [l \in Legs |-> "off"]]
  /\ legMsg = [q \in Queries |-> [l \in Legs |-> NoMsg]]
  /\ results = [q \in Queries |-> <<>>]
  /\ taken = [q \in Queries |-> 0]
  /\ outcome = [q \in Queries |-> [how |-> "open", by |-> Upstream]]
  /\ given = [q \in Queries |-> NoEntry]

-------------------------------------------------------------------------------
(***************************************************************************)
(* The environment.                                                        *)
(***************************************************************************)

NumLegsPeersOnly(q) == Cardinality(asked[q])            \* mutant: upstream not counted
NumLegsTooMany(q) == Cardinality(asked[q]) + 2          \* mutant: one too many
NumLegs(q) == Cardinality(asked[q]) + 1

\* The race loop has a result to take, or has taken them all.
Unread(q) == phase[q] = "racing" /\ taken[q] < NumLegs(q) /\ taken[q] < Len(results[q])
Busy(q) == Unread(q) \/ (phase[q] = "racing" /\ taken[q] = NumLegs(q))

\* A probe is still out at its deadline.
Overdue(q) == \E p \in asked[q] : legPc[q][p] \in {"sent", "answered"} /\ now >= sentAt[q] + probeTimeout

\* Time passes, but goroutines are not held up for half a second.
Tick ==
  /\ now < MaxTime
  /\ \A q \in Queries : ~Busy(q) /\ ~Overdue(q)
  /\ now' = now + 1
  /\ UNCHANGED <<peers, store, legVars, asking, ending>>

\* republish: a new peer set replaces the old one whole.
Republish(r) ==
  /\ \E set \in SUBSET (Replicas \ {r}) : peers' = [peers EXCEPT ![r] = set]
  /\ UNCHANGED <<now, store, legVars, asking, ending>>

\* The cache makes room by dropping any entry it likes.
Evict(r, k) ==
  /\ store[r][k] # NoEntry
  /\ store' = [store EXCEPT ![r][k] = NoEntry]
  /\ UNCHANGED <<clock, legVars, asking, ending>>

\* Whoever asked goes away.
CtxDone(q) ==
  /\ phase[q] = "racing"
  /\ ~ctxDone[q]
  /\ ctxDone' = [ctxDone EXCEPT ![q] = TRUE]
  /\ UNCHANGED <<clock, store, legVars, query, asked, sentAt, ending>>

\* What the next plugin may produce for q.
UpstreamMsgs(q) == {NoMsg, Unusable} \cup {Answer(q, ttl) : ttl \in TTLs}

-------------------------------------------------------------------------------
(***************************************************************************)
(* ServeDNS.                                                               *)
(***************************************************************************)

\* The query ends; m goes to the client, NoMsg if nothing is written.
Return(q, how, by, m) ==
  /\ phase' = [phase EXCEPT ![q] = "done"]
  /\ outcome' = [outcome EXCEPT ![q] = [how |-> how, by |-> by]]
  /\ given' = [given EXCEPT ![q] = IF m = NoMsg THEN NoEntry ELSE Entry(m, now)]

\* reply writes m, retargeted at the query; the write may fail.
reply(q, how, by, m) == \E written \in {m, NoMsg} : Return(q, how, by, written)

Serve(q) ==
  /\ phase[q] = "idle"
  /\ now + probeTimeout <= MaxTime
  /\ LET set == peers[query[q].at] IN
       /\ asked' = [asked EXCEPT ![q] = set]
       /\ phase' = [phase EXCEPT ![q] = IF set = {} THEN "direct" ELSE "racing"]
       /\ legPc' = [legPc EXCEPT ![q] = [l \in Legs |->
                      IF set # {} /\ l \in set \cup {Upstream} THEN "sent" ELSE "off"]]
  /\ sentAt' = [sentAt EXCEPT ![q] = now]
  /\ UNCHANGED <<clock, store, legMsg, results, query, ctxDone, taken, outcome, given>>

\* No siblings: the next plugin answers the client itself, and what it wrote is
\* recorded.
Direct(q) ==
  /\ phase[q] = "direct"
  /\ \E m \in UpstreamMsgs(q) :
       /\ put(query[q].at, q, m)
       /\ Return(q, "direct", Upstream, m)
  /\ UNCHANGED <<clock, legVars, asking, taken>>

-------------------------------------------------------------------------------
(***************************************************************************)
(* The legs.                                                               *)
(***************************************************************************)

\* A leg is done and sends its result: the channel has room for every leg's.
SendToReader(q, l, m) ==                    \* mutant: an unbuffered channel
  /\ phase[q] = "racing"
  /\ legPc' = [legPc EXCEPT ![q][l] = "done"]
  /\ legMsg' = [legMsg EXCEPT ![q][l] = m]
  /\ results' = [results EXCEPT ![q] = Append(@, l)]
Send(q, l, m) ==
  /\ legPc' = [legPc EXCEPT ![q][l] = "done"]
  /\ legMsg' = [legMsg EXCEPT ![q][l] = m]
  /\ results' = [results EXCEPT ![q] = Append(@, l)]

UpstreamReturns(q) ==
  /\ legPc[q][Upstream] = "sent"
  /\ \E m \in UpstreamMsgs(q) : Send(q, Upstream, m)
  /\ UNCHANGED <<clock, store, asking, ending>>

\* serveProbe on replica p: refuse a stranger, refuse DO and CD, refuse on a
\* miss; an entry too close to expiry is dropped.
getForAnyone(p, q) ==                       \* mutant: DO and CD not looked at
  LET e == store[p][key(q)] IN
  IF ~e.held \/ ~Fresh(e) THEN Unusable ELSE Rebased(e)
get(p, q) ==
  LET e == store[p][key(q)] IN
  IF query[q].dnssec \/ ~e.held \/ ~Fresh(e) THEN Unusable ELSE Rebased(e)

isPeer(p, q) == query[q].at \in peers[p]

\* A query has one question: dns.Server turns others away before any handler
\* sees them, so the refusal of a probe with none or several is never reached.
ServeProbe(q, p) ==
  LET e == store[p][key(q)]
      lookup == isPeer(p, q) /\ ~query[q].dnssec /\ e.held IN
  /\ legPc[q][p] = "sent"
  /\ lookup => now > e.stored
  /\ store' = IF lookup /\ ~Fresh(e) THEN [store EXCEPT ![p][key(q)] = NoEntry] ELSE store
  /\ legPc' = [legPc EXCEPT ![q][p] = "answered"]
  /\ legMsg' = [legMsg EXCEPT ![q][p] = IF isPeer(p, q) THEN get(p, q) ELSE Unusable]
  /\ UNCHANGED <<clock, results, asking, ending>>

\* The sibling's message arrives before the deadline.
ProbeReturns(q, p) ==
  /\ legPc[q][p] = "answered"
  /\ Send(q, p, legMsg[q][p])
  /\ UNCHANGED <<clock, store, asking, ending>>

\* The probe fails, times out, or its context ends.
ProbeFails(q, p) ==
  /\ legPc[q][p] \in {"sent", "answered"}
  /\ Send(q, p, NoMsg)
  /\ UNCHANGED <<clock, store, asking, ending>>

-------------------------------------------------------------------------------
(***************************************************************************)
(* The race loop.                                                          *)
(***************************************************************************)
\* The loop receives the next result; the first useful one wins.
Win(q) ==
  /\ Unread(q)
  /\ LET l == results[q][taken[q] + 1]
         m == legMsg[q][l] IN
       /\ useful(m)
       /\ put(query[q].at, q, m)
       /\ reply(q, "won", l, m)
  /\ taken' = [taken EXCEPT ![q] = @ + 1]
  /\ UNCHANGED <<clock, legVars, asking>>

Continue(q) ==
  /\ Unread(q)
  /\ ~useful(legMsg[q][results[q][taken[q] + 1]])
  /\ taken' = [taken EXCEPT ![q] = @ + 1]
  /\ UNCHANGED <<clock, store, legVars, asking, phase, outcome, given>>

\* Nothing useful anywhere: the upstream's own result, if it was received.
Received(q) == {results[q][i] : i \in 1..taken[q]}

GiveUpOnUpstream(q) ==                      \* mutant: the upstream's failure ends the race
  /\ phase[q] = "racing"
  /\ Upstream \in Received(q) \/ taken[q] = NumLegs(q)
  /\ IF Upstream \notin Received(q) THEN Return(q, "noLeg", Upstream, NoMsg)
     ELSE IF legMsg[q][Upstream] = NoMsg THEN Return(q, "failed", Upstream, NoMsg)
     ELSE reply(q, "fallback", Upstream, legMsg[q][Upstream])
  /\ UNCHANGED <<clock, store, legVars, asking, taken>>
GiveUp(q) ==
  /\ phase[q] = "racing"
  /\ taken[q] = NumLegs(q)
  /\ IF Upstream \notin Received(q) THEN Return(q, "noLeg", Upstream, NoMsg)
     ELSE IF legMsg[q][Upstream] = NoMsg THEN Return(q, "failed", Upstream, NoMsg)
     ELSE reply(q, "fallback", Upstream, legMsg[q][Upstream])
  /\ UNCHANGED <<clock, store, legVars, asking, taken>>

Cancelled(q) ==
  /\ phase[q] = "racing"
  /\ taken[q] < NumLegs(q)
  /\ ctxDone[q]
  /\ Return(q, "cancelled", Upstream, NoMsg)
  /\ UNCHANGED <<clock, store, legVars, asking, taken>>

-------------------------------------------------------------------------------
LoopStep(q) == Win(q) \/ Continue(q) \/ GiveUp(q) \/ Cancelled(q)

ProbeStep(q, p) == ServeProbe(q, p) \/ ProbeReturns(q, p) \/ ProbeFails(q, p)

Next ==
  \/ Tick
  \/ \E r \in Replicas : Republish(r)
  \/ \E r \in Replicas, k \in Keys : Evict(r, k)
  \/ \E q \in Queries :
       \/ CtxDone(q)
       \/ Serve(q)
       \/ Direct(q)
       \/ UpstreamReturns(q)
       \/ LoopStep(q)
       \/ \E p \in Replicas : ProbeStep(q, p)

(***************************************************************************)
(* The clock runs, goroutines run, the next plugin returns, and a probe    *)
(* ends at its deadline at the latest.  Nothing is assumed of clients, of  *)
(* siblings or of what the upstream says.                                  *)
(***************************************************************************)
Fairness ==
  /\ WF_vars(Tick)
  /\ \A q \in Queries :
       /\ WF_vars(Direct(q))
       /\ WF_vars(UpstreamReturns(q))
       /\ WF_vars(LoopStep(q))
       /\ \A p \in Replicas : WF_vars(Overdue(q) /\ ProbeFails(q, p))

Spec == Init /\ [][Next]_vars

FairSpec == Spec /\ Fairness

-------------------------------------------------------------------------------
(***************************************************************************)
(* Properties.                                                             *)
(***************************************************************************)
Answers ==
  [kind : {"answer"}, dnssec : BOOLEAN, ttl : Nat, ttl0 : Nat, dies : Nat, hops : Nat]

Entries(msgs) == {NoEntry} \cup [held : {TRUE}, msg : msgs, stored : 0..MaxTime]

\* The channel of a query never holds more results than it has room for.
TypeOK ==
  /\ now \in 0..MaxTime
  /\ peers \in [Replicas -> SUBSET Replicas]
  /\ store \in [Replicas -> [Keys -> Entries(Answers)]]
  /\ query \in [Queries -> [at : Replicas, name : Names, dnssec : BOOLEAN]]
  /\ phase \in [Queries -> {"idle", "direct", "racing", "done"}]
  /\ ctxDone \in [Queries -> BOOLEAN]
  /\ asked \in [Queries -> SUBSET Replicas]
  /\ sentAt \in [Queries -> 0..MaxTime]
  /\ legPc \in [Queries -> [Legs -> {"off", "sent", "answered", "done"}]]
  /\ legMsg \in [Queries -> [Legs -> Answers \cup {NoMsg, Unusable}]]
  /\ results \in [Queries -> Seq(Legs)]
  /\ taken \in [Queries -> Nat]
  /\ \A q \in Queries : Len(results[q]) <= NumLegs(q) /\ taken[q] <= Len(results[q])
  /\ outcome \in [Queries -> [how : {"open", "direct", "won", "fallback", "failed", "noLeg", "cancelled"},
                              by : Legs]]
  /\ given \in [Queries -> Entries(Answers \cup {Unusable})]

\* What the stores hold and what clients were given.
Held == {e \in {store[r][k] : r \in Replicas, k \in Keys} : e.held}
Given == {e \in {given[q] : q \in Queries} : e.held /\ useful(e.msg)}

(***************************************************************************)
(* Every hop between replicas takes at least a second off the TTL: get     *)
(* rounds down (store.go, 104).  As nothing is held below minServeTTL, an  *)
(* answer makes at most ttl0 - minServeTTL hops, and then has to be asked  *)
(* of the upstream again.                                                  *)
(***************************************************************************)
HopsShrinkTTL ==
  /\ \A e \in Held \cup Given : e.msg.ttl + e.msg.hops <= e.msg.ttl0
  /\ \A e \in Held : e.msg.hops + minServeTTL <= e.msg.ttl0

(***************************************************************************)
(* No client and no store believes an answer longer than the upstream      *)
(* meant it, but for the time the probes it came by were on their way: at  *)
(* most probeTimeout for each.                                             *)
(***************************************************************************)
NotMuchBeyondUpstreamExpiry ==
  \A e \in Held \cup Given :
    e.stored + Second * e.msg.ttl <= e.msg.dies + probeTimeout * e.msg.hops

(***************************************************************************)
(* A client is given an answer resolved with its own DO and CD bits,       *)
(* whichever leg won: neither put nor get lets such an exchange through    *)
(* the store (storable, store.go, 49-58).                                  *)
(***************************************************************************)
OwnBits ==
  \A q \in Queries : given[q].held /\ useful(given[q].msg) => given[q].msg.dnssec = query[q].dnssec

\* The error "no leg produced an answer" is never returned: a loop that took a
\* result from every leg took the upstream's.
UpstreamIsHeard == \A q \in Queries : outcome[q].how # "noLeg"

(***************************************************************************)
(* No leg is left behind: a probe ends at its deadline and the upstream    *)
(* leg when the next plugin returns, also when the query was won, given up *)
(* or cancelled long before (peercache.go, 82-84).                         *)
(***************************************************************************)
LegsEnd ==
  \A q \in Queries : \A l \in Legs : legPc[q][l] \in {"sent", "answered"} ~> legPc[q][l] = "done"

\* Every query put to the plugin is answered or refused in the end.
QueryReturns == \A q \in Queries : phase[q] \in {"direct", "racing"} ~> phase[q] = "done"

(***************************************************************************)
(* What the README says of a hung sibling: "the upstream leg has been      *)
(* running the whole time, so the client never waits on a peer".  Once the *)
(* loop has the upstream's result, it does not sit waiting for a sibling.  *)
(***************************************************************************)
NeverWaitsOnPeer ==
  \A q \in Queries : phase[q] = "racing" /\ Upstream \in Received(q) => Busy(q)

(***************************************************************************)
(* The race keeps the promise of a contest whose only fallback is the      *)
(* upstream: a leg is absent if its replica was not in the peer set.       *)
(***************************************************************************)
ReportOf(q, l) ==
  IF asked[q] = {} THEN "pending"
  ELSE IF legPc[q][l] = "off" THEN "absent"
  ELSE IF legPc[q][l] # "done" THEN "pending"
  ELSE IF useful(legMsg[q][l]) THEN "useful"
  ELSE IF legMsg[q][l] = NoMsg THEN "nothing" ELSE "unusable"

VerdictOf(q) ==
  LET how == outcome[q].how IN
  [how |-> IF how = "direct" THEN "delegated" ELSE how,
   by  |-> IF how \in {"won", "fallback"} THEN outcome[q].by ELSE "none"]

C == INSTANCE Contest WITH
  FallbackLegs <- {Upstream},
  NoLeg <- "none",
  order <- results,
  report <- [q \in Queries |-> [l \in Legs |-> ReportOf(q, l)]],
  verdict <- [q \in Queries |-> VerdictOf(q)]

ImplementsContest == C!Spec
===============================================================================
