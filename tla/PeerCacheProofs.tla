---------------------------- MODULE PeerCacheProofs ----------------------------
(***************************************************************************)
(* Proofs about PeerCache, for any finite set of replicas, any queries,    *)
(* names, keys and TTLs, and a clock bounded anywhere.                     *)
(***************************************************************************)
EXTENDS PeerCache, FiniteSetTheorems, TLAPS

-------------------------------------------------------------------------------
(***************************************************************************)
(* The inductive invariant, in parts.                                      *)
(***************************************************************************)

\* TypeOK without the bounds on the channel, which ChanOK and LegOK imply.
Hows == {"open", "direct", "won", "fallback", "failed", "noLeg", "cancelled"}
Pcs == {"off", "sent", "answered", "done"}
Msgs == Answers \cup {NoMsg, Unusable}

Types ==
  /\ now \in 0..MaxTime
  /\ peers \in [Replicas -> SUBSET Replicas]
  /\ store \in [Replicas -> [Keys -> Entries(Answers)]]
  /\ query \in [Queries -> [at : Replicas, name : Names, dnssec : BOOLEAN]]
  /\ phase \in [Queries -> {"idle", "direct", "racing", "done"}]
  /\ ctxDone \in [Queries -> BOOLEAN]
  /\ asked \in [Queries -> SUBSET Replicas]
  /\ sentAt \in [Queries -> 0..MaxTime]
  /\ legPc \in [Queries -> [Legs -> Pcs]]
  /\ legMsg \in [Queries -> [Legs -> Msgs]]
  /\ results \in [Queries -> Seq(Legs)]
  /\ taken \in [Queries -> Nat]
  /\ outcome \in [Queries -> [how : Hows, by : Legs]]
  /\ given \in [Queries -> Entries(Answers \cup {Unusable})]

\* The legs whose result is in the channel, and the legs that were launched.
Done(q) == {l \in Legs : legPc[q][l] = "done"}
InRace(q) == IF asked[q] = {} THEN {} ELSE asked[q] \cup {Upstream}

\* The channel holds one result of every leg that is done, and nothing else.
ChanOK(q) ==
  /\ Len(results[q]) = Cardinality(Done(q))
  /\ taken[q] <= Len(results[q])
  /\ \A i \in 1..Len(results[q]) : results[q][i] \in Done(q)
  /\ \A l \in Done(q) : \E i \in 1..Len(results[q]) : results[q][i] = l

\* The legs are launched together, and only for a query that races.
LegOK(q) ==
  /\ \A l \in Legs : legPc[q][l] # "off" <=> l \in InRace(q)
  /\ phase[q] \in {"idle", "direct"} => asked[q] = {}
  /\ phase[q] = "racing" => asked[q] # {}

\* A query has a verdict once it is over, and a client has a message only then.
\* No leg that was received while the race goes on was useful.
PhaseOK(q) ==
  /\ phase[q] = "done" <=> outcome[q].how # "open"
  /\ outcome[q].how # "noLeg"
  /\ phase[q] = "racing" => \A i \in 1..taken[q] : ~useful(legMsg[q][results[q][i]])

\* A useful message was resolved with the bits of q, and lost a second for each
\* store it came through.
Sound(q, m) == useful(m) => m.dnssec = query[q].dnssec /\ m.ttl + m.hops <= m.ttl0

\* Believed from instant t on, m outlives the upstream's answer by no more than
\* its probes took.
Timely(m, t) == t + Second * m.ttl <= m.dies + probeTimeout * m.hops

\* A probe ends by its deadline; what it will deliver is timely even then, and
\* what waits in the channel of a running race is timely now.
ProbeOK(q) ==
  \A p \in Replicas :
    /\ legPc[q][p] \in {"sent", "answered"} => sentAt[q] <= now /\ now <= sentAt[q] + probeTimeout
    /\ legPc[q][p] = "answered" /\ useful(legMsg[q][p]) =>
         Timely(legMsg[q][p], sentAt[q] + probeTimeout)
UnreadOK(q) ==
  phase[q] = "racing" =>
    \A i \in 1..Len(results[q]) :
      i > taken[q] /\ useful(legMsg[q][results[q][i]]) => Timely(legMsg[q][results[q][i]], now)

MsgOK(q) == \A l \in Legs : Sound(q, legMsg[q][l])

GivenOK(q) ==
  given[q].held /\ useful(given[q].msg) =>
    Sound(q, given[q].msg) /\ Timely(given[q].msg, given[q].stored)

EntryOK(e) ==
  e.held =>
    /\ e.msg.dnssec = FALSE
    /\ e.msg.ttl >= minServeTTL
    /\ e.msg.ttl + e.msg.hops <= e.msg.ttl0
    /\ Timely(e.msg, e.stored)

StoreInv == \A r \in Replicas, k \in Keys : EntryOK(store[r][k])

QueryOK(q) ==
  ChanOK(q) /\ LegOK(q) /\ PhaseOK(q) /\ ProbeOK(q) /\ UnreadOK(q) /\ MsgOK(q) /\ GivenOK(q)

QueryInv == \A q \in Queries : QueryOK(q)

IInv == Types /\ QueryInv /\ StoreInv

-------------------------------------------------------------------------------
(***************************************************************************)
(* Facts about messages and entries.                                       *)
(***************************************************************************)

\* Halving rounds down.
LEMMA Halves ==
  ASSUME NEW n \in Nat
  PROVE  /\ n \div Second \in Nat
         /\ Second * (n \div Second) <= n
         /\ n <= Second * (n \div Second) + 1
BY DEF Second

LEMMA ClockFacts ==
  ASSUME Types
  PROVE  now \in Nat /\ MaxTime \in Nat /\ now <= MaxTime
BY MaxTimeAssumption DEF Types

\* What the next plugin may produce has the right type, and a useful message
\* of it is sound and timely.
LEMMA UpstreamMsgFacts ==
  ASSUME Types, NEW q \in Queries, NEW m \in UpstreamMsgs(q)
  PROVE  /\ m \in Msgs
         /\ Sound(q, m)
         /\ useful(m) => Timely(m, now)
<1>1. CASE m \in {NoMsg, Unusable}
  BY <1>1 DEF Msgs, Sound, useful, NoMsg, Unusable
<1>2. ASSUME NEW ttl \in TTLs, m = Answer(q, ttl)
      PROVE  /\ m \in Answers
             /\ Sound(q, m)
             /\ Timely(m, now)
  <2>1. ttl \in Nat /\ now \in Nat /\ now + Second * ttl \in Nat
    BY TTLsAssumption, ClockFacts DEF Second
  <2>2. query[q].dnssec \in BOOLEAN
    BY DEF Types
  <2>3. m = [kind |-> "answer", dnssec |-> query[q].dnssec, ttl |-> ttl, ttl0 |-> ttl,
             dies |-> now + Second * ttl, hops |-> 0]
    BY <1>2 DEF Answer
  <2>4. m \in Answers
    BY <2>1, <2>2, <2>3 DEF Answers
  <2>5. Sound(q, m)
    BY <2>1, <2>3 DEF Sound
  <2>6. Timely(m, now)
    BY <2>1, <2>3 DEF Timely, Second, probeTimeout
  <2> QED
    BY <2>4, <2>5, <2>6
<1> QED
  BY <1>1, <1>2 DEF UpstreamMsgs, Msgs

LEMMA UsefulIsAnswer ==
  ASSUME NEW m \in Msgs, useful(m)
  PROVE  m \in Answers /\ m # NoMsg
BY DEF Msgs, useful, NoMsg, Unusable

\* An entry of a store, if there is one.
LEMMA EntryType ==
  ASSUME NEW S, NEW e \in Entries(S), e.held
  PROVE  e.msg \in S /\ e.stored \in 0..MaxTime
<1>1. NoEntry.held = FALSE
  BY DEF NoEntry
<1>2. e # NoEntry
  BY <1>1, Zenon
<1>3. e \in [held : {TRUE}, msg : S, stored : 0..MaxTime]
  BY <1>2 DEF Entries
<1> QED
  BY <1>3

LEMMA EntryMade ==
  ASSUME Types, NEW S, NEW m \in S
  PROVE  /\ Entry(m, now) \in Entries(S)
         /\ Entry(m, now).held
         /\ Entry(m, now).msg = m
         /\ Entry(m, now).stored = now
BY DEF Types, Entry, Entries

LEMMA RebasedFields ==
  ASSUME NEW e, e.msg \in Answers, remaining(e) \div Second \in Nat
  PROVE  /\ Rebased(e) \in Answers
         /\ Rebased(e).dnssec = e.msg.dnssec
         /\ Rebased(e).ttl = remaining(e) \div Second
         /\ Rebased(e).hops = e.msg.hops + 1
         /\ Rebased(e).ttl0 = e.msg.ttl0
         /\ Rebased(e).dies = e.msg.dies
<1> DEFINE t == remaining(e) \div Second
           m == e.msg
<1>1. Rebased(e) = [m EXCEPT !.ttl = t, !.hops = m.hops + 1]
  BY DEF Rebased, Answers
<1>2. m \in Answers /\ t \in Nat
  OBVIOUS
<1> HIDE DEF m, t
<1>3. Rebased(e) = [kind |-> m.kind, dnssec |-> m.dnssec, ttl |-> t, ttl0 |-> m.ttl0,
                    dies |-> m.dies, hops |-> m.hops + 1]
  BY <1>1, <1>2 DEF Answers
<1> USE DEF m, t
<1> QED
  BY <1>2, <1>3 DEF Answers

\* The message get hands out: the TTL is at least one second shorter, and is
\* timely from now on.
LEMMA RebasedFacts ==
  ASSUME Types, NEW e \in Entries(Answers), e.held, EntryOK(e), Fresh(e), now > e.stored
  PROVE  /\ Rebased(e) \in Answers
         /\ Rebased(e).dnssec = FALSE
         /\ Rebased(e).ttl + Rebased(e).hops <= Rebased(e).ttl0
         /\ Timely(Rebased(e), now + probeTimeout)
<1> DEFINE m == e.msg
<1>1. m \in Answers /\ e.stored \in 0..MaxTime
  BY EntryType
<1>2. m.ttl \in Nat /\ m.ttl0 \in Nat /\ m.dies \in Nat /\ m.hops \in Nat
  BY <1>1 DEF Answers
<1>3. e.stored \in Nat /\ now \in Nat
  BY <1>1, ClockFacts
<1>4. remaining(e) \in Nat /\ remaining(e) = 2 * m.ttl - (now - e.stored)
  BY <1>2, <1>3 DEF Fresh, remaining, minServeTTL, Second
<1> DEFINE t == remaining(e) \div Second
<1>5. t \in Nat /\ 2 * t <= remaining(e)
  BY <1>4, Halves DEF Second
<1>7. /\ Rebased(e) \in Answers
      /\ Rebased(e).dnssec = m.dnssec /\ Rebased(e).ttl = t /\ Rebased(e).hops = m.hops + 1
      /\ Rebased(e).ttl0 = m.ttl0 /\ Rebased(e).dies = m.dies
  BY <1>1, <1>5, RebasedFields
<1>8. t + 1 <= m.ttl
  BY <1>2, <1>3, <1>4, <1>5
<1>9. m.dnssec = FALSE /\ m.ttl + m.hops <= m.ttl0
      /\ e.stored + 2 * m.ttl <= m.dies + 1 * m.hops
  BY DEF EntryOK, Timely, Second, probeTimeout
<1>10. t + (m.hops + 1) <= m.ttl0
  BY <1>2, <1>5, <1>8, <1>9
<1>11. (now + 1) + 2 * t <= m.dies + 1 * (m.hops + 1)
  BY <1>2, <1>3, <1>4, <1>5, <1>9
<1>12. Timely(Rebased(e), now + probeTimeout)
  BY <1>7, <1>11 DEF Timely, Second, probeTimeout
<1> QED
  BY <1>7, <1>9, <1>10, <1>12

-------------------------------------------------------------------------------
(***************************************************************************)
(* What each action does.                                                  *)
(***************************************************************************)

LEMMA ReturnEffect ==
  ASSUME Types, NEW q \in Queries, NEW how, NEW by, NEW m, Return(q, how, by, m)
  PROVE  /\ phase'[q] = "done"
         /\ outcome'[q] = [how |-> how, by |-> by]
         /\ given'[q] = IF m = NoMsg THEN NoEntry ELSE Entry(m, now)
         /\ \A p \in Queries : p # q =>
              phase'[p] = phase[p] /\ outcome'[p] = outcome[p] /\ given'[p] = given[p]
BY DEF Return, Types

LEMMA ReturnType ==
  ASSUME Types, NEW q \in Queries, NEW how \in Hows, NEW by \in Legs, NEW m \in Msgs,
         Return(q, how, by, m)
  PROVE  /\ phase' \in [Queries -> {"idle", "direct", "racing", "done"}]
         /\ outcome' \in [Queries -> [how : Hows, by : Legs]]
         /\ given' \in [Queries -> Entries(Answers \cup {Unusable})]
<1>1. phase' \in [Queries -> {"idle", "direct", "racing", "done"}]
  BY DEF Types, Return
<1>2. outcome' \in [Queries -> [how : Hows, by : Legs]]
  BY DEF Types, Return
<1>3. (IF m = NoMsg THEN NoEntry ELSE Entry(m, now)) \in Entries(Answers \cup {Unusable})
  <2>1. CASE m = NoMsg
    BY <2>1 DEF Entries
  <2>2. CASE m # NoMsg
    BY <2>2, EntryMade DEF Msgs
  <2> QED
    BY <2>1, <2>2
<1>4. given' \in [Queries -> Entries(Answers \cup {Unusable})]
  BY <1>3 DEF Types, Return
<1> QED
  BY <1>1, <1>2, <1>4

LEMMA SendEffect ==
  ASSUME Types, NEW q \in Queries, NEW l \in Legs, NEW m \in Msgs, Send(q, l, m)
  PROVE  /\ legPc' \in [Queries -> [Legs -> Pcs]]
         /\ legMsg' \in [Queries -> [Legs -> Msgs]]
         /\ results' \in [Queries -> Seq(Legs)]
         /\ results'[q] = Append(results[q], l)
         /\ legPc'[q][l] = "done" /\ legMsg'[q][l] = m
         /\ \A p \in Queries, k \in Legs : ~(p = q /\ k = l) =>
              legPc'[p][k] = legPc[p][k] /\ legMsg'[p][k] = legMsg[p][k]
         /\ \A p \in Queries : p # q => results'[p] = results[p]
<1>1. /\ legPc \in [Queries -> [Legs -> Pcs]]
      /\ legMsg \in [Queries -> [Legs -> Msgs]]
      /\ results \in [Queries -> Seq(Legs)]
  BY DEF Types
<1>2. /\ legPc' \in [Queries -> [Legs -> Pcs]]
      /\ legPc'[q][l] = "done"
      /\ \A p \in Queries, k \in Legs : ~(p = q /\ k = l) => legPc'[p][k] = legPc[p][k]
  BY <1>1 DEF Send, Pcs
<1>3. /\ legMsg' \in [Queries -> [Legs -> Msgs]]
      /\ legMsg'[q][l] = m
      /\ \A p \in Queries, k \in Legs : ~(p = q /\ k = l) => legMsg'[p][k] = legMsg[p][k]
  BY <1>1 DEF Send
<1>4. /\ results' \in [Queries -> Seq(Legs)]
      /\ results'[q] = Append(results[q], l)
      /\ \A p \in Queries : p # q => results'[p] = results[p]
  BY <1>1 DEF Send
<1> QED
  BY <1>2, <1>3, <1>4

LEMMA ServeEffect ==
  ASSUME Types, NEW q \in Queries, Serve(q)
  PROVE  /\ legPc' \in [Queries -> [Legs -> Pcs]]
         /\ asked' \in [Queries -> SUBSET Replicas]
         /\ phase'[q] = (IF asked'[q] = {} THEN "direct" ELSE "racing")
         /\ sentAt'[q] = now
         /\ \A l \in Legs : legPc'[q][l] = IF l \in InRace(q)' THEN "sent" ELSE "off"
         /\ \A p \in Queries : p # q =>
              /\ legPc'[p] = legPc[p] /\ asked'[p] = asked[p]
              /\ sentAt'[p] = sentAt[p] /\ phase'[p] = phase[p]
<1> DEFINE set == peers[query[q].at]
<1>1. set \in SUBSET Replicas
  BY DEF Types
<1>2. /\ legPc \in [Queries -> [Legs -> Pcs]] /\ asked \in [Queries -> SUBSET Replicas]
      /\ phase \in [Queries -> {"idle", "direct", "racing", "done"}]
      /\ sentAt \in [Queries -> 0..MaxTime]
  BY DEF Types
<1>3. /\ asked' = [asked EXCEPT ![q] = set]
      /\ phase' = [phase EXCEPT ![q] = IF set = {} THEN "direct" ELSE "racing"]
      /\ sentAt' = [sentAt EXCEPT ![q] = now]
      /\ legPc' = [legPc EXCEPT ![q] = [l \in Legs |->
                      IF set # {} /\ l \in set \cup {Upstream} THEN "sent" ELSE "off"]]
  BY DEF Serve
<1> HIDE DEF set
<1>4. asked' \in [Queries -> SUBSET Replicas] /\ asked'[q] = set
  BY <1>1, <1>2, <1>3
<1>5. InRace(q)' = IF set = {} THEN {} ELSE set \cup {Upstream}
  BY <1>4 DEF InRace
<1>6. [l \in Legs |-> IF set # {} /\ l \in set \cup {Upstream} THEN "sent" ELSE "off"] \in [Legs -> Pcs]
  BY DEF Pcs
<1>7. legPc' \in [Queries -> [Legs -> Pcs]]
  BY <1>2, <1>3, <1>6
<1>8. \A l \in Legs : legPc'[q][l] = IF l \in InRace(q)' THEN "sent" ELSE "off"
  BY <1>2, <1>3, <1>5
<1> QED
  BY <1>2, <1>3, <1>4, <1>7, <1>8

\* serveProbe's answer.
LEMMA GetFacts ==
  ASSUME Types, StoreInv, NEW q \in Queries, NEW p \in Replicas, ServeProbe(q, p)
  PROVE  \E m \in Msgs :
           /\ legMsg' = [legMsg EXCEPT ![q][p] = m]
           /\ Sound(q, m)
           /\ useful(m) => Timely(m, now + probeTimeout)
<1> DEFINE e == store[p][key(q)]
           m == IF isPeer(p, q) THEN get(p, q) ELSE Unusable
<1>1. key(q) \in Keys /\ query[q].dnssec \in BOOLEAN
  BY HashAssumption DEF Types, key
<1>2. e \in Entries(Answers) /\ EntryOK(e)
  BY <1>1 DEF Types, StoreInv
<1>3. legMsg' = [legMsg EXCEPT ![q][p] = m]
  BY DEF ServeProbe
<1>4. Unusable \in Msgs /\ ~useful(Unusable)
  BY DEF Msgs, useful, Unusable
<1>5. CASE isPeer(p, q) /\ ~query[q].dnssec /\ e.held /\ Fresh(e)
  <2>1. now > e.stored
    BY <1>5, Zenon DEF ServeProbe
  <2>2. m = Rebased(e)
    BY <1>5, Zenon DEF get
  <2>3. /\ Rebased(e) \in Answers
        /\ Rebased(e).dnssec = FALSE
        /\ Rebased(e).ttl + Rebased(e).hops <= Rebased(e).ttl0
        /\ Timely(Rebased(e), now + probeTimeout)
    BY <1>2, <1>5, <2>1, RebasedFacts, Zenon
  <2>4. query[q].dnssec = FALSE
    BY <1>1, <1>5, Zenon
  <2> HIDE DEF e
  <2>5. Sound(q, Rebased(e))
    BY <2>3, <2>4 DEF Sound
  <2> QED
    BY <1>3, <2>2, <2>3, <2>5 DEF Msgs
<1>6. CASE ~(isPeer(p, q) /\ ~query[q].dnssec /\ e.held /\ Fresh(e))
  <2>1. m = Unusable
    BY <1>6, Zenon DEF get
  <2> QED
    BY <1>3, <1>4, <2>1 DEF Sound
<1> QED
  BY <1>5, <1>6, Zenon

LEMMA ServeProbeEffect ==
  ASSUME Types, StoreInv, NEW q \in Queries, NEW p \in Replicas, ServeProbe(q, p)
  PROVE  /\ legPc' \in [Queries -> [Legs -> Pcs]]
         /\ legMsg' \in [Queries -> [Legs -> Msgs]]
         /\ legPc[q][p] = "sent" /\ legPc'[q][p] = "answered"
         /\ Sound(q, legMsg'[q][p])
         /\ useful(legMsg'[q][p]) => Timely(legMsg'[q][p], now + probeTimeout)
         /\ \A c \in Queries, k \in Legs : ~(c = q /\ k = p) =>
              legPc'[c][k] = legPc[c][k] /\ legMsg'[c][k] = legMsg[c][k]
<1>0. p \in Legs
  BY DEF Legs
<1>1. legPc \in [Queries -> [Legs -> Pcs]] /\ legMsg \in [Queries -> [Legs -> Msgs]]
  BY DEF Types
<1>2. legPc[q][p] = "sent" /\ legPc' = [legPc EXCEPT ![q][p] = "answered"]
  BY DEF ServeProbe
<1>3. PICK m \in Msgs :
           /\ legMsg' = [legMsg EXCEPT ![q][p] = m]
           /\ Sound(q, m)
           /\ useful(m) => Timely(m, now + probeTimeout)
  BY GetFacts
<1>4. /\ legPc' \in [Queries -> [Legs -> Pcs]]
      /\ legPc'[q][p] = "answered"
      /\ \A c \in Queries, k \in Legs : ~(c = q /\ k = p) => legPc'[c][k] = legPc[c][k]
  BY <1>0, <1>1, <1>2 DEF Pcs
<1>5. /\ legMsg' \in [Queries -> [Legs -> Msgs]]
      /\ legMsg'[q][p] = m
      /\ \A c \in Queries, k \in Legs : ~(c = q /\ k = p) => legMsg'[c][k] = legMsg[c][k]
  BY <1>0, <1>1, <1>3
<1> QED
  BY <1>2, <1>3, <1>4, <1>5

-------------------------------------------------------------------------------
(***************************************************************************)
(* The steps that end a leg and the steps that end a query, uniformly.     *)
(***************************************************************************)

\* A leg of q ends with a message that is sound, and timely when it is sent.
Ends(q, l, m) ==
  /\ legPc[q][l] \in {"sent", "answered"}
  /\ Sound(q, m)
  /\ useful(m) => Timely(m, now)
  /\ Send(q, l, m)
  /\ UNCHANGED <<clock, store, asking, ending>>

LEMMA LegEnds ==
  ASSUME Types, QueryInv, NEW q \in Queries,
         UpstreamReturns(q) \/ \E p \in Replicas : ProbeReturns(q, p) \/ ProbeFails(q, p)
  PROVE  \E l \in Legs, m \in Msgs : Ends(q, l, m)
<1>0. Upstream \in Legs /\ Replicas \subseteq Legs
  BY DEF Legs
<1>1. CASE UpstreamReturns(q)
  <2>1. PICK m \in UpstreamMsgs(q) : Send(q, Upstream, m)
    BY <1>1 DEF UpstreamReturns
  <2>2. m \in Msgs /\ Sound(q, m) /\ (useful(m) => Timely(m, now))
    BY UpstreamMsgFacts
  <2>3. Ends(q, Upstream, m)
    BY <1>1, <2>1, <2>2 DEF UpstreamReturns, Ends
  <2> QED
    BY <1>0, <2>2, <2>3
<1>2. ASSUME NEW p \in Replicas, ProbeReturns(q, p) PROVE \E l \in Legs, m \in Msgs : Ends(q, l, m)
  <2> DEFINE m == legMsg[q][p]
  <2>1. m \in Msgs
    BY <1>0 DEF Types
  <2>2. Sound(q, m)
    BY <1>0 DEF QueryInv, QueryOK, MsgOK
  <2>3. /\ legPc[q][p] = "answered" /\ Send(q, p, m)
        /\ UNCHANGED <<clock, store, asking, ending>>
    BY <1>2 DEF ProbeReturns
  <2>4. ASSUME useful(m) PROVE Timely(m, now)
    <3>1. now <= sentAt[q] + probeTimeout /\ Timely(m, sentAt[q] + probeTimeout)
      BY <2>3, <2>4 DEF QueryInv, QueryOK, ProbeOK
    <3>2. m.ttl \in Nat /\ m.dies \in Nat /\ m.hops \in Nat
      BY <2>1, <2>4, UsefulIsAnswer DEF Answers
    <3>3. now \in Nat /\ sentAt[q] \in Nat
      BY MaxTimeAssumption DEF Types
    <3> HIDE DEF m
    <3> QED
      BY <3>1, <3>2, <3>3 DEF Timely, Second, probeTimeout
  <2>5. Ends(q, p, m)
    BY <2>2, <2>3, <2>4 DEF Ends
  <2> QED
    BY <1>0, <2>1, <2>5
<1>3. ASSUME NEW p \in Replicas, ProbeFails(q, p) PROVE \E l \in Legs, m \in Msgs : Ends(q, l, m)
  <2>1. NoMsg \in Msgs /\ ~useful(NoMsg)
    BY DEF Msgs, useful, NoMsg
  <2>2. Ends(q, p, NoMsg)
    BY <1>3, <2>1 DEF ProbeFails, Ends, Sound
  <2> QED
    BY <1>0, <2>1, <2>2
<1> QED
  BY <1>1, <1>2, <1>3

\* A store keeps its type and its invariant when a sound, timely message is
\* put into it.
LEMMA PutEffect ==
  ASSUME Types, StoreInv, NEW q \in Queries, NEW m \in Msgs, Sound(q, m),
         useful(m) => Timely(m, now), put(query[q].at, q, m)
  PROVE  StoreInv' /\ store' \in [Replicas -> [Keys -> Entries(Answers)]]
<1> DEFINE r == query[q].at
           k == key(q)
<1>1. r \in Replicas /\ k \in Keys /\ query[q].dnssec \in BOOLEAN
  BY HashAssumption DEF Types, key
<1>2. store \in [Replicas -> [Keys -> Entries(Answers)]]
  BY DEF Types
<1>3. CASE useful(m) /\ ~query[q].dnssec /\ m.ttl >= minServeTTL
  <2>1. store' = [store EXCEPT ![r][k] = Entry(m, now)]
    BY <1>3, Zenon DEF put
  <2>2. m \in Answers /\ Timely(m, now)
    BY <1>3, UsefulIsAnswer
  <2>3. /\ Entry(m, now) \in Entries(Answers)
        /\ Entry(m, now).msg = m /\ Entry(m, now).stored = now
    BY <2>2, EntryMade
  <2>4. query[q].dnssec = FALSE
    BY <1>1, <1>3, Zenon
  <2>5. EntryOK(Entry(m, now))
    <3>1. m.dnssec = FALSE /\ m.ttl >= minServeTTL /\ m.ttl + m.hops <= m.ttl0
      BY <1>3, <2>4 DEF Sound
    <3> QED
      BY <2>2, <2>3, <3>1 DEF EntryOK
  <2> HIDE DEF r, k
  <2>6. store' \in [Replicas -> [Keys -> Entries(Answers)]]
    BY <1>1, <1>2, <2>1, <2>3
  <2>7. \A x \in Replicas, y \in Keys :
          store'[x][y] = IF x = r /\ y = k THEN Entry(m, now) ELSE store[x][y]
    BY <1>1, <1>2, <2>1
  <2> QED
    BY <2>5, <2>6, <2>7 DEF StoreInv
<1>4. CASE ~(useful(m) /\ ~query[q].dnssec /\ m.ttl >= minServeTTL)
  <2>1. store' = store
    BY <1>4, Zenon DEF put
  <2> QED
    BY <1>2, <2>1 DEF StoreInv
<1> QED
  BY <1>3, <1>4, Zenon

LEMMA EvictEffect ==
  ASSUME Types, StoreInv, NEW r \in Replicas, NEW k \in Keys,
         store' = [store EXCEPT ![r][k] = NoEntry]
  PROVE  StoreInv' /\ store' \in [Replicas -> [Keys -> Entries(Answers)]]
<1>1. store \in [Replicas -> [Keys -> Entries(Answers)]]
  BY DEF Types
<1>2. NoEntry \in Entries(Answers)
  BY DEF Entries
<1>3. NoEntry.held = FALSE
  BY DEF NoEntry
<1>4. EntryOK(NoEntry)
  BY <1>3, Zenon DEF EntryOK
<1>5. store' \in [Replicas -> [Keys -> Entries(Answers)]]
  BY <1>1, <1>2
<1>6. \A x \in Replicas, y \in Keys :
        store'[x][y] = IF x = r /\ y = k THEN NoEntry ELSE store[x][y]
  BY <1>1
<1> QED
  BY <1>4, <1>5, <1>6 DEF StoreInv

\* The race of q has a result to take.
LEMMA IncomingFacts ==
  ASSUME Types, QueryInv, NEW q \in Queries, Unread(q)
  PROVE  /\ taken[q] \in Nat
         /\ taken[q] + 1 \in 1..Len(results[q])
         /\ results[q][taken[q] + 1] \in Done(q)
         /\ results[q][taken[q] + 1] \in Legs
         /\ legMsg[q][results[q][taken[q] + 1]] \in Msgs
         /\ phase[q] = "racing"
<1>1. taken[q] \in Nat /\ results[q] \in Seq(Legs) /\ Len(results[q]) \in Nat
  BY DEF Types
<1>2. taken[q] < Len(results[q]) /\ phase[q] = "racing"
  BY DEF Unread
<1>3. taken[q] + 1 \in 1..Len(results[q])
  BY <1>1, <1>2
<1>4. results[q][taken[q] + 1] \in Done(q)
  BY <1>3 DEF QueryInv, QueryOK, ChanOK
<1>5. results[q][taken[q] + 1] \in Legs
  BY <1>4 DEF Done
<1> QED
  BY <1>1, <1>2, <1>3, <1>4, <1>5 DEF Types

LEMMA DoneFinite ==
  ASSUME Types, QueryInv, NEW q \in Queries
  PROVE  /\ IsFiniteSet(Done(q))
         /\ Cardinality(Done(q)) \in Nat
         /\ NumLegs(q) \in Nat
         /\ Cardinality(Done(q)) <= NumLegs(q)
         /\ asked[q] # {} /\ Cardinality(Done(q)) = NumLegs(q) => Done(q) = asked[q] \cup {Upstream}
<1>1. asked[q] \subseteq Replicas /\ IsFiniteSet(asked[q]) /\ Cardinality(asked[q]) \in Nat
  BY ReplicasAssumption, FS_Subset, FS_CardinalityType DEF Types
<1>2. Upstream \notin asked[q]
  BY <1>1, UpstreamAssumption
<1> DEFINE A == asked[q] \cup {Upstream}
<1>3. IsFiniteSet(A) /\ Cardinality(A) = NumLegs(q) /\ NumLegs(q) \in Nat
  BY <1>1, <1>2, FS_AddElement DEF NumLegs
<1>4. Done(q) \subseteq A
  BY DEF QueryInv, QueryOK, LegOK, Done, InRace
<1> HIDE DEF A
<1>5. IsFiniteSet(Done(q)) /\ Cardinality(Done(q)) \in Nat /\ Cardinality(Done(q)) <= Cardinality(A)
      /\ (Cardinality(Done(q)) = Cardinality(A) => Done(q) = A)
  BY <1>3, <1>4, FS_Subset, FS_CardinalityType
<1> QED
  BY <1>3, <1>5 DEF A

\* When the loop has taken a result from every leg, every leg is done, none was
\* useful, and the upstream's result is among those received.
LEMMA AllIn ==
  ASSUME Types, QueryInv, NEW q \in Queries, phase[q] = "racing", taken[q] = NumLegs(q)
  PROVE  /\ \A l \in Done(q) : ~useful(legMsg[q][l])
         /\ Done(q) = asked[q] \cup {Upstream}
         /\ Upstream \in Received(q)
         /\ legMsg[q][Upstream] \in {NoMsg, Unusable}
<1>1. ChanOK(q) /\ LegOK(q) /\ PhaseOK(q) /\ asked[q] # {}
  BY DEF QueryInv, QueryOK, LegOK
<1>2. taken[q] \in Nat /\ Len(results[q]) \in Nat
  BY DEF Types
<1>3. Len(results[q]) = taken[q] /\ Done(q) = asked[q] \cup {Upstream}
  BY <1>1, <1>2, DoneFinite DEF ChanOK
<1>4. \A l \in Done(q) : \E i \in 1..taken[q] : results[q][i] = l
  BY <1>1, <1>3 DEF ChanOK
<1>5. \A l \in Done(q) : ~useful(legMsg[q][l])
  BY <1>1, <1>4 DEF PhaseOK
<1>6. Upstream \in Received(q)
  BY <1>3, <1>4 DEF Received
<1>7. legMsg[q][Upstream] \in Msgs
  BY DEF Types, Legs
<1> QED
  BY <1>3, <1>5, <1>6, <1>7 DEF Msgs, Answers, useful

\* q ends, and if its client gets a useful message, it is sound and timely now.
Decides(q, how, by, m) ==
  /\ phase[q] \in {"direct", "racing"}
  /\ Return(q, how, by, m)
  /\ useful(m) => Sound(q, m) /\ Timely(m, now)
  /\ taken' = taken \/ (Unread(q) /\ taken' = [taken EXCEPT ![q] = @ + 1])
  /\ UNCHANGED <<clock, legVars, asking>>

Verdicts == Hows \ {"open", "noLeg"}

LEMMA DirectDecides ==
  ASSUME Types, StoreInv, NEW q \in Queries, Direct(q)
  PROVE  /\ \E m \in Msgs : Decides(q, "direct", Upstream, m)
         /\ StoreInv' /\ store' \in [Replicas -> [Keys -> Entries(Answers)]]
<1>1. PICK m \in UpstreamMsgs(q) : put(query[q].at, q, m) /\ Return(q, "direct", Upstream, m)
  BY DEF Direct
<1>2. m \in Msgs /\ Sound(q, m) /\ (useful(m) => Timely(m, now))
  BY UpstreamMsgFacts
<1>3. Decides(q, "direct", Upstream, m)
  BY <1>1, <1>2 DEF Direct, Decides
<1>4. StoreInv' /\ store' \in [Replicas -> [Keys -> Entries(Answers)]]
  BY <1>1, <1>2, PutEffect
<1> QED
  BY <1>2, <1>3, <1>4

LEMMA WinDecides ==
  ASSUME Types, QueryInv, StoreInv, NEW q \in Queries, Win(q)
  PROVE  /\ \E m \in Msgs : Decides(q, "won", results[q][taken[q] + 1], m)
         /\ StoreInv' /\ store' \in [Replicas -> [Keys -> Entries(Answers)]]
<1> DEFINE l == results[q][taken[q] + 1]
           m == legMsg[q][l]
<1>1. /\ taken[q] \in Nat /\ taken[q] + 1 \in 1..Len(results[q])
      /\ l \in Legs /\ m \in Msgs /\ phase[q] = "racing"
  BY IncomingFacts DEF Win
<1>2. useful(m) /\ put(query[q].at, q, m) /\ \E w \in {m, NoMsg} : Return(q, "won", l, w)
  BY DEF Win, reply
<1>3. Sound(q, m)
  BY <1>1 DEF QueryInv, QueryOK, MsgOK
<1>4. Timely(m, now)
  BY <1>1, <1>2 DEF QueryInv, QueryOK, UnreadOK
<1>5. StoreInv' /\ store' \in [Replicas -> [Keys -> Entries(Answers)]]
  <2> HIDE DEF m
  <2> QED
    BY <1>1, <1>2, <1>3, <1>4, PutEffect
<1>6. PICK w \in {m, NoMsg} : Return(q, "won", l, w)
  BY <1>2
<1>7. w \in Msgs /\ (useful(w) => Sound(q, w) /\ Timely(w, now))
  BY <1>1, <1>3, <1>4 DEF Msgs, useful, NoMsg
<1>8. /\ Unread(q) /\ taken' = [taken EXCEPT ![q] = @ + 1]
      /\ UNCHANGED <<clock, legVars, asking>>
  BY DEF Win
<1>9. Decides(q, "won", l, w)
  BY <1>1, <1>6, <1>7, <1>8 DEF Decides
<1> QED
  BY <1>5, <1>7, <1>9

LEMMA GiveUpCases ==
  ASSUME Types, QueryInv, NEW q \in Queries, GiveUp(q)
  PROVE  \E how \in {"failed", "fallback"}, m \in {NoMsg, Unusable} :
           /\ Return(q, how, Upstream, m)
           /\ how = "failed" <=> legMsg[q][Upstream] = NoMsg
<1>1. Upstream \in Received(q) /\ legMsg[q][Upstream] \in {NoMsg, Unusable}
  BY AllIn DEF GiveUp
<1>2. CASE legMsg[q][Upstream] = NoMsg
  <2>1. Return(q, "failed", Upstream, NoMsg)
    BY <1>1, <1>2, Zenon DEF GiveUp
  <2> QED
    BY <1>2, <2>1
<1>3. CASE legMsg[q][Upstream] # NoMsg
  <2>1. reply(q, "fallback", Upstream, legMsg[q][Upstream])
    BY <1>1, <1>3, Zenon DEF GiveUp
  <2>2. PICK w \in {legMsg[q][Upstream], NoMsg} : Return(q, "fallback", Upstream, w)
    BY <2>1 DEF reply
  <2> QED
    BY <1>1, <1>3, <2>2
<1> QED
  BY <1>2, <1>3

LEMMA LoopDecides ==
  ASSUME Types, QueryInv, NEW q \in Queries, GiveUp(q) \/ Cancelled(q)
  PROVE  /\ \E how \in Verdicts, m \in Msgs : Decides(q, how, Upstream, m)
         /\ store' = store
<1>1. phase[q] = "racing" /\ UNCHANGED <<clock, store, legVars, asking, taken>>
  BY DEF GiveUp, Cancelled
<1>2. \E how \in Verdicts, m \in {NoMsg, Unusable} : Return(q, how, Upstream, m)
  <2>1. CASE GiveUp(q)
    BY <2>1, GiveUpCases DEF Verdicts, Hows
  <2>2. CASE Cancelled(q)
    BY <2>2 DEF Cancelled, Verdicts, Hows
  <2> QED
    BY <2>1, <2>2
<1>3. PICK how \in Verdicts, m \in {NoMsg, Unusable} : Return(q, how, Upstream, m)
  BY <1>2
<1>4. m \in Msgs /\ ~useful(m)
  BY DEF Msgs, useful, NoMsg, Unusable
<1>5. Decides(q, how, Upstream, m)
  BY <1>1, <1>3, <1>4 DEF Decides
<1> QED
  BY <1>1, <1>4, <1>5

\* What a step of the specification may be.
LEMMA StepCases ==
  ASSUME Types, QueryInv, StoreInv, [Next]_vars
  PROVE  \/ now' = now /\ UNCHANGED <<query, asked, sentAt, legVars, ending>>
         \/ Tick
         \/ \E q \in Queries : Serve(q)
         \/ \E q \in Queries, p \in Replicas : ServeProbe(q, p)
         \/ \E q \in Queries, l \in Legs, m \in Msgs : Ends(q, l, m)
         \/ \E q \in Queries : Continue(q)
         \/ \E q \in Queries, how \in Verdicts, by \in Legs, m \in Msgs : Decides(q, how, by, m)
<1>0. Upstream \in Legs /\ "direct" \in Verdicts /\ "won" \in Verdicts
  BY DEF Legs, Verdicts, Hows
<1>1. CASE \E r \in Replicas : Republish(r)
  BY <1>1 DEF Republish, asking
<1>2. CASE \E r \in Replicas, k \in Keys : Evict(r, k)
  BY <1>2 DEF Evict, asking, clock
<1>3. ASSUME NEW q \in Queries, CtxDone(q)
      PROVE  now' = now /\ UNCHANGED <<query, asked, sentAt, legVars, ending>>
  BY <1>3 DEF CtxDone, clock
<1>4. ASSUME NEW q \in Queries, Direct(q)
      PROVE  \E how \in Verdicts, by \in Legs, m \in Msgs : Decides(q, how, by, m)
  BY <1>0, <1>4, DirectDecides
<1>5. ASSUME NEW q \in Queries, Win(q)
      PROVE  \E how \in Verdicts, by \in Legs, m \in Msgs : Decides(q, how, by, m)
  <2>1. results[q][taken[q] + 1] \in Legs
    BY <1>5, IncomingFacts DEF Win
  <2> QED
    BY <1>0, <1>5, <2>1, WinDecides
<1>6. ASSUME NEW q \in Queries, GiveUp(q) \/ Cancelled(q)
      PROVE  \E how \in Verdicts, by \in Legs, m \in Msgs : Decides(q, how, by, m)
  BY <1>0, <1>6, LoopDecides
<1>7. ASSUME NEW q \in Queries,
             UpstreamReturns(q) \/ \E p \in Replicas : ProbeReturns(q, p) \/ ProbeFails(q, p)
      PROVE  \E l \in Legs, m \in Msgs : Ends(q, l, m)
  BY <1>7, LegEnds
<1>8. CASE UNCHANGED vars
  BY <1>8 DEF vars, clock, asking
<1> QED
  BY <1>1, <1>2, <1>3, <1>4, <1>5, <1>6, <1>7, <1>8 DEF Next, LoopStep, ProbeStep

LEMMA StoreStep ==
  ASSUME Types, QueryInv, StoreInv, [Next]_vars
  PROVE  StoreInv' /\ store' \in [Replicas -> [Keys -> Entries(Answers)]]
<1>0. ASSUME store' = store
      PROVE  StoreInv' /\ store' \in [Replicas -> [Keys -> Entries(Answers)]]
  BY <1>0 DEF StoreInv, Types
<1>1. CASE Tick \/ (\E r \in Replicas : Republish(r)) \/ UNCHANGED vars
  BY <1>0, <1>1 DEF Tick, Republish, vars
<1>2. ASSUME NEW r \in Replicas, NEW k \in Keys, Evict(r, k)
      PROVE  StoreInv' /\ store' \in [Replicas -> [Keys -> Entries(Answers)]]
  BY <1>2, EvictEffect DEF Evict
<1>3. ASSUME NEW q \in Queries, CtxDone(q) \/ Serve(q) \/ UpstreamReturns(q) \/ Continue(q)
                                \/ \E p \in Replicas : ProbeReturns(q, p) \/ ProbeFails(q, p)
      PROVE  StoreInv' /\ store' \in [Replicas -> [Keys -> Entries(Answers)]]
  BY <1>0, <1>3 DEF CtxDone, Serve, UpstreamReturns, Continue, ProbeReturns, ProbeFails
<1>4. ASSUME NEW q \in Queries, NEW p \in Replicas, ServeProbe(q, p)
      PROVE  StoreInv' /\ store' \in [Replicas -> [Keys -> Entries(Answers)]]
  <2>1. key(q) \in Keys
    BY HashAssumption DEF Types, key
  <2>2. store' = store \/ store' = [store EXCEPT ![p][key(q)] = NoEntry]
    BY <1>4, Zenon DEF ServeProbe
  <2> QED
    BY <1>0, <2>1, <2>2, EvictEffect
<1>5. ASSUME NEW q \in Queries, LoopStep(q) \/ Direct(q)
      PROVE  StoreInv' /\ store' \in [Replicas -> [Keys -> Entries(Answers)]]
  BY <1>0, <1>3, <1>5, DirectDecides, WinDecides, LoopDecides DEF LoopStep
<1> QED
  BY <1>1, <1>2, <1>3, <1>4, <1>5 DEF Next, ProbeStep

LEMMA TypesInit == Init => Types
<1> SUFFICES ASSUME Init PROVE Types
  OBVIOUS
<1>1. now \in 0..MaxTime /\ sentAt \in [Queries -> 0..MaxTime]
  BY MaxTimeAssumption DEF Init
<1>2. peers \in [Replicas -> SUBSET Replicas] /\ asked \in [Queries -> SUBSET Replicas]
  BY DEF Init
<1>3. store \in [Replicas -> [Keys -> Entries(Answers)]]
  <2>1. NoEntry \in Entries(Answers)
    BY DEF Entries
  <2> QED
    BY <2>1 DEF Init
<1>4. given \in [Queries -> Entries(Answers \cup {Unusable})]
  <2>1. NoEntry \in Entries(Answers \cup {Unusable})
    BY DEF Entries
  <2> QED
    BY <2>1 DEF Init
<1>5. ctxDone \in [Queries -> BOOLEAN]
  BY Zenon DEF Init
<1>6. legPc \in [Queries -> [Legs -> Pcs]] /\ legMsg \in [Queries -> [Legs -> Msgs]]
  BY DEF Init, Pcs, Msgs
<1>7. outcome \in [Queries -> [how : Hows, by : Legs]]
  BY DEF Init, Hows, Legs
<1>8. /\ query \in [Queries -> [at : Replicas, name : Names, dnssec : BOOLEAN]]
      /\ phase \in [Queries -> {"idle", "direct", "racing", "done"}]
      /\ results \in [Queries -> Seq(Legs)] /\ taken \in [Queries -> Nat]
  BY DEF Init
<1> QED
  BY <1>1, <1>2, <1>3, <1>4, <1>5, <1>6, <1>7, <1>8 DEF Types

LEMMA TypesStep ==
  ASSUME Types, QueryInv, StoreInv, [Next]_vars
  PROVE  Types'
<1>1. store' \in [Replicas -> [Keys -> Entries(Answers)]]
  BY StoreStep
<1>2. peers' \in [Replicas -> SUBSET Replicas]
  <2>1. peers' = peers \/ \E r \in Replicas : \E set \in SUBSET Replicas : peers' = [peers EXCEPT ![r] = set]
    BY DEF Next, Tick, Republish, Evict, CtxDone, Serve, Direct, UpstreamReturns, LoopStep, Win, Continue,
           GiveUp, Cancelled, ProbeStep, ServeProbe, ProbeReturns, ProbeFails, clock, vars
  <2> QED
    BY <2>1 DEF Types
<1>3. ctxDone' \in [Queries -> BOOLEAN] /\ query' = query
  <2>1. (ctxDone' = ctxDone /\ query' = query) \/ \E q \in Queries : CtxDone(q)
    BY DEF Next, Tick, Republish, Evict, Serve, Direct, UpstreamReturns, LoopStep, Win, Continue,
           GiveUp, Cancelled, ProbeStep, ServeProbe, ProbeReturns, ProbeFails, asking, vars
  <2>2. ASSUME NEW q \in Queries, CtxDone(q) PROVE ctxDone' \in [Queries -> BOOLEAN] /\ query' = query
    <3>1. ctxDone \in [Queries -> BOOLEAN]
      BY DEF Types
    <3> QED
      BY <2>2, <3>1, Zenon DEF CtxDone
  <2> QED
    BY <2>1, <2>2 DEF Types
<1>a. /\ phase \in [Queries -> {"idle", "direct", "racing", "done"}]
      /\ asked \in [Queries -> SUBSET Replicas]
      /\ sentAt \in [Queries -> 0..MaxTime]
      /\ legPc \in [Queries -> [Legs -> Pcs]]
      /\ legMsg \in [Queries -> [Legs -> Msgs]]
      /\ results \in [Queries -> Seq(Legs)]
      /\ taken \in [Queries -> Nat]
      /\ outcome \in [Queries -> [how : Hows, by : Legs]]
      /\ given \in [Queries -> Entries(Answers \cup {Unusable})]
      /\ now \in 0..MaxTime /\ now \in Nat /\ MaxTime \in Nat
  BY ClockFacts DEF Types
<1> DEFINE Rest ==
      /\ now \in 0..MaxTime
      /\ phase \in [Queries -> {"idle", "direct", "racing", "done"}]
      /\ asked \in [Queries -> SUBSET Replicas]
      /\ sentAt \in [Queries -> 0..MaxTime]
      /\ legPc \in [Queries -> [Legs -> Pcs]]
      /\ legMsg \in [Queries -> [Legs -> Msgs]]
      /\ results \in [Queries -> Seq(Legs)]
      /\ taken \in [Queries -> Nat]
      /\ outcome \in [Queries -> [how : Hows, by : Legs]]
      /\ given \in [Queries -> Entries(Answers \cup {Unusable})]
<1>4. ASSUME NEW q \in Queries, taken' = [taken EXCEPT ![q] = @ + 1]
      PROVE  taken' \in [Queries -> Nat]
  BY <1>4, <1>a
<1>5. Rest'
  <2>1. CASE now' = now /\ UNCHANGED <<query, asked, sentAt, legVars, ending>>
    BY <2>1, <1>a DEF legVars, ending
  <2>2. CASE Tick
    <3>1. now' \in 0..MaxTime
      BY <2>2, <1>a DEF Tick
    <3>2. UNCHANGED <<asked, sentAt, legVars, ending>>
      BY <2>2 DEF Tick, asking
    <3> QED
      BY <1>a, <3>1, <3>2 DEF legVars, ending
  <2>3. ASSUME NEW q \in Queries, Serve(q) PROVE Rest'
    <3>1. sentAt' \in [Queries -> 0..MaxTime] /\ phase' \in [Queries -> {"idle", "direct", "racing", "done"}]
      BY <2>3, <1>a DEF Serve
    <3> QED
      BY <2>3, <3>1, <1>a, ServeEffect DEF Serve, clock
  <2>4. ASSUME NEW q \in Queries, NEW p \in Replicas, ServeProbe(q, p) PROVE Rest'
    BY <2>4, <1>a, ServeProbeEffect DEF ServeProbe, clock, asking, ending
  <2>5. ASSUME NEW q \in Queries, NEW l \in Legs, NEW m \in Msgs, Ends(q, l, m) PROVE Rest'
    BY <2>5, <1>a, SendEffect DEF Ends, clock, asking, ending
  <2>6. ASSUME NEW q \in Queries, Continue(q) PROVE Rest'
    BY <2>6, <1>a, <1>4 DEF Continue, clock, legVars, asking
  <2>7. ASSUME NEW q \in Queries, NEW how \in Verdicts, NEW by \in Legs, NEW m \in Msgs,
               Decides(q, how, by, m)
        PROVE  Rest'
    <3>1. taken' \in [Queries -> Nat]
      BY <2>7, <1>a, <1>4 DEF Decides
    <3>2. Return(q, how, by, m) /\ how \in Hows
      BY <2>7 DEF Decides, Verdicts
    <3>3. /\ phase' \in [Queries -> {"idle", "direct", "racing", "done"}]
          /\ outcome' \in [Queries -> [how : Hows, by : Legs]]
          /\ given' \in [Queries -> Entries(Answers \cup {Unusable})]
      BY <3>2, ReturnType
    <3> QED
      BY <2>7, <3>1, <3>3, <1>a DEF Decides, clock, legVars, asking
  <2> HIDE DEF Rest
  <2> QED
    BY <2>1, <2>2, <2>3, <2>4, <2>5, <2>6, <2>7, StepCases
<1> QED
  BY <1>1, <1>2, <1>3, <1>5 DEF Types

-------------------------------------------------------------------------------
(***************************************************************************)
(* What a step may do to one query.                                        *)
(***************************************************************************)

\* Who asked, of whom and when changes only as ServeDNS starts.
LEMMA AskedFrame ==
  ASSUME Types, QueryInv, StoreInv, [Next]_vars, NEW c \in Queries
  PROVE  query' = query /\ (Serve(c) \/ (asked'[c] = asked[c] /\ sentAt'[c] = sentAt[c]))
<1>1. ASSUME NEW q \in Queries, Serve(q), q # c
      PROVE  query' = query /\ asked'[c] = asked[c] /\ sentAt'[c] = sentAt[c]
  BY <1>1, ServeEffect DEF Serve
<1>2. ASSUME NEW q \in Queries, Serve(q) PROVE query' = query
  BY <1>2 DEF Serve
<1> QED
  BY <1>1, <1>2, StepCases
  DEF Tick, ServeProbe, Ends, Continue, Decides, asking

\* A leg of c moves only when ServeDNS starts, when a sibling serves its probe,
\* or when it ends.
LEMMA LegFrame ==
  ASSUME Types, QueryInv, StoreInv, [Next]_vars, NEW c \in Queries
  PROVE  \/ legPc'[c] = legPc[c] /\ legMsg'[c] = legMsg[c] /\ results'[c] = results[c]
         \/ Serve(c)
         \/ \E p \in Replicas : ServeProbe(c, p)
         \/ \E l \in Legs, m \in Msgs : Ends(c, l, m)
<1>a. legPc \in [Queries -> [Legs -> Pcs]] /\ legMsg \in [Queries -> [Legs -> Msgs]]
  BY DEF Types
<1>1. ASSUME NEW q \in Queries, Serve(q), q # c
      PROVE  legPc'[c] = legPc[c] /\ legMsg'[c] = legMsg[c] /\ results'[c] = results[c]
  BY <1>1, ServeEffect DEF Serve
<1>2. ASSUME NEW q \in Queries, NEW p \in Replicas, ServeProbe(q, p), q # c
      PROVE  legPc'[c] = legPc[c] /\ legMsg'[c] = legMsg[c] /\ results'[c] = results[c]
  BY <1>2, <1>a DEF ServeProbe
<1>3. ASSUME NEW q \in Queries, NEW l \in Legs, NEW m \in Msgs, Ends(q, l, m), q # c
      PROVE  legPc'[c] = legPc[c] /\ legMsg'[c] = legMsg[c] /\ results'[c] = results[c]
  BY <1>3, <1>a DEF Ends, Send, Types
<1>4. CASE UNCHANGED legVars
  BY <1>4 DEF legVars
<1> QED
  BY <1>1, <1>2, <1>3, <1>4, StepCases
  DEF Tick, Continue, Decides

\* Only c's own loop ends c or takes a result of it.
LEMMA LoopFrame ==
  ASSUME Types, QueryInv, StoreInv, [Next]_vars, NEW c \in Queries
  PROVE  \/ phase'[c] = phase[c] /\ taken'[c] = taken[c] /\ outcome'[c] = outcome[c] /\ given'[c] = given[c]
         \/ Serve(c)
         \/ Continue(c)
         \/ \E how \in Verdicts, by \in Legs, m \in Msgs : Decides(c, how, by, m)
<1> DEFINE Same == phase'[c] = phase[c] /\ taken'[c] = taken[c]
                   /\ outcome'[c] = outcome[c] /\ given'[c] = given[c]
<1>1. ASSUME NEW q \in Queries, Serve(q), q # c PROVE Same
  BY <1>1, ServeEffect DEF Serve
<1>2. ASSUME NEW q \in Queries, Continue(q), q # c PROVE Same
  BY <1>2 DEF Continue, Types
<1>3. ASSUME NEW q \in Queries, NEW how \in Verdicts, NEW by \in Legs, NEW m \in Msgs,
             Decides(q, how, by, m), q # c
      PROVE  Same
  <2>1. phase'[c] = phase[c] /\ outcome'[c] = outcome[c] /\ given'[c] = given[c]
    BY <1>3, ReturnEffect DEF Decides
  <2>2. taken'[c] = taken[c]
    BY <1>3 DEF Decides, Types
  <2> QED
    BY <2>1, <2>2
<1>4. CASE UNCHANGED ending
  BY <1>4 DEF ending
<1> QED
  BY <1>1, <1>2, <1>3, <1>4, StepCases
  DEF Tick, ServeProbe, Ends

\* Results already sent stay in the channel, with the message they came with.
LEMMA ResultsStable ==
  ASSUME Types, QueryInv, StoreInv, [Next]_vars, NEW c \in Queries
  PROVE  /\ Len(results[c]) <= Len(results'[c])
         /\ \A i \in 1..Len(results[c]) :
              /\ results'[c][i] = results[c][i]
              /\ legMsg'[c][results[c][i]] = legMsg[c][results[c][i]]
<1>a. /\ results[c] \in Seq(Legs) /\ Len(results[c]) \in Nat
      /\ \A i \in 1..Len(results[c]) : results[c][i] \in Legs /\ legPc[c][results[c][i]] = "done"
  <2>1. \A i \in 1..Len(results[c]) : results[c][i] \in Done(c)
    BY DEF QueryInv, QueryOK, ChanOK
  <2> QED
    BY <2>1 DEF Types, Done
<1>1. CASE Serve(c)
  BY <1>1, <1>a DEF Serve
<1>2. ASSUME NEW p \in Replicas, ServeProbe(c, p)
      PROVE  results' = results /\ \A l \in Legs : legPc[c][l] = "done" => legMsg'[c][l] = legMsg[c][l]
  BY <1>2, ServeProbeEffect DEF ServeProbe
<1>3. ASSUME NEW l \in Legs, NEW m \in Msgs, Ends(c, l, m)
      PROVE  /\ results'[c] = Append(results[c], l)
             /\ \A k \in Legs : legPc[c][k] = "done" => legMsg'[c][k] = legMsg[c][k]
  <2>1. Send(c, l, m) /\ legPc[c][l] # "done"
    BY <1>3 DEF Ends
  <2> QED
    BY <2>1, SendEffect
<1>4. ASSUME NEW l \in Legs, results'[c] = Append(results[c], l)
      PROVE  /\ Len(results[c]) <= Len(results'[c])
             /\ \A i \in 1..Len(results[c]) : results'[c][i] = results[c][i]
  BY <1>4, <1>a
<1> QED
  BY <1>a, <1>1, <1>2, <1>3, <1>4, LegFrame

LEMMA ChanStep ==
  ASSUME Types, QueryInv, StoreInv, [Next]_vars, NEW c \in Queries
  PROVE  ChanOK(c)'
<1>a. ChanOK(c) /\ LegOK(c)
  BY DEF QueryInv, QueryOK
<1>b. results[c] \in Seq(Legs) /\ taken[c] \in Nat /\ Len(results[c]) \in Nat
  BY DEF Types
<1>t. taken'[c] \in Nat /\ taken'[c] <= Len(results[c])
  <2>1. CASE Unread(c) /\ taken' = [taken EXCEPT ![c] = @ + 1]
    BY <1>b, <2>1 DEF Unread, Types
  <2>2. CASE taken'[c] = taken[c]
    BY <1>a, <1>b, <2>2 DEF ChanOK
  <2> QED
    BY <2>1, <2>2, LoopFrame DEF Serve, Continue, Decides
<1>1. ASSUME results'[c] = results[c], Done(c)' = Done(c) PROVE ChanOK(c)'
  BY <1>1, <1>a, <1>t DEF ChanOK
<1>2. CASE legPc'[c] = legPc[c] /\ legMsg'[c] = legMsg[c] /\ results'[c] = results[c]
  BY <1>1, <1>2 DEF Done
<1>3. CASE Serve(c)
  <2>1. \A l \in Legs : legPc[c][l] = "off"
    BY <1>3, <1>a DEF Serve, LegOK, InRace, Types
  <2>2. \A l \in Legs : legPc'[c][l] \in {"sent", "off"}
    BY <1>3, ServeEffect
  <2> QED
    BY <1>1, <1>3, <2>1, <2>2 DEF Serve, Done
<1>4. ASSUME NEW p \in Replicas, ServeProbe(c, p) PROVE ChanOK(c)'
  <2>1. \A l \in Legs : legPc'[c][l] = "done" <=> legPc[c][l] = "done"
    BY <1>4, ServeProbeEffect
  <2>2. Done(c)' = Done(c)
    BY <2>1 DEF Done
  <2> QED
    BY <1>1, <1>4, <2>2 DEF ServeProbe
<1>5. ASSUME NEW u \in Legs, NEW m \in Msgs, Ends(c, u, m) PROVE ChanOK(c)'
  <2>0. Send(c, u, m) /\ legPc[c][u] # "done"
    BY <1>5 DEF Ends
  <2>1. u \notin Done(c) /\ Done(c)' = Done(c) \cup {u} /\ results'[c] = Append(results[c], u)
    BY <2>0, SendEffect DEF Done
  <2>2. Cardinality(Done(c)') = Cardinality(Done(c)) + 1
    BY <2>1, DoneFinite, FS_AddElement
  <2>3. /\ Len(results'[c]) = Len(results[c]) + 1
        /\ \A i \in 1..Len(results[c]) : results'[c][i] = results[c][i]
        /\ results'[c][Len(results[c]) + 1] = u
    BY <1>b, <2>1
  <2>4. \A i \in 1..Len(results'[c]) : results'[c][i] \in Done(c)'
    <3> SUFFICES ASSUME NEW i \in 1..Len(results'[c]) PROVE results'[c][i] \in Done(c)'
      OBVIOUS
    <3>1. i \in 1..Len(results[c]) \/ i = Len(results[c]) + 1
      BY <1>b, <2>3
    <3> QED
      BY <1>a, <2>1, <2>3, <3>1 DEF ChanOK
  <2>5. ASSUME NEW w \in Done(c)' PROVE \E i \in 1..Len(results'[c]) : results'[c][i] = w
    <3>1. CASE w \in Done(c)
      <4>1. PICK i \in 1..Len(results[c]) : results[c][i] = w
        BY <1>a, <3>1 DEF ChanOK
      <4>2. i \in 1..Len(results'[c]) /\ results'[c][i] = w
        BY <1>b, <2>3, <4>1
      <4> QED
        BY <4>2
    <3>2. CASE w = u
      <4>1. Len(results[c]) + 1 \in 1..Len(results'[c])
        BY <1>b, <2>3
      <4> QED
        BY <2>3, <3>2, <4>1
    <3> QED
      BY <2>1, <3>1, <3>2
  <2>6. taken'[c] <= Len(results'[c])
    BY <1>b, <1>t, <2>3
  <2> QED
    BY <1>a, <2>2, <2>3, <2>4, <2>5, <2>6 DEF ChanOK
<1> QED
  BY <1>2, <1>3, <1>4, <1>5, LegFrame

LEMMA LegStep ==
  ASSUME Types, QueryInv, StoreInv, [Next]_vars, NEW c \in Queries
  PROVE  LegOK(c)'
<1>a. LegOK(c)
  BY DEF QueryInv, QueryOK
<1>1. CASE Serve(c)
  BY <1>1, ServeEffect DEF LegOK
<1>2. CASE ~Serve(c)
  <2>1. InRace(c)' = InRace(c) /\ asked'[c] = asked[c]
    BY <1>2, AskedFrame DEF InRace
  <2>2. phase'[c] = phase[c] \/ phase'[c] = "done"
    <3>1. ASSUME NEW how, NEW by, NEW m, Decides(c, how, by, m) PROVE phase'[c] = "done"
      BY <3>1, ReturnEffect DEF Decides
    <3> QED
      BY <1>2, <3>1, LoopFrame DEF Continue
  <2>3. \A l \in Legs : legPc'[c][l] # "off" <=> legPc[c][l] # "off"
    <3>1. ASSUME NEW p \in Replicas, ServeProbe(c, p)
          PROVE  \A l \in Legs : legPc'[c][l] # "off" <=> legPc[c][l] # "off"
      BY <3>1, ServeProbeEffect
    <3>2. ASSUME NEW k \in Legs, NEW m \in Msgs, Ends(c, k, m)
          PROVE  \A l \in Legs : legPc'[c][l] # "off" <=> legPc[c][l] # "off"
      <4>1. Send(c, k, m) /\ legPc[c][k] # "off"
        BY <3>2 DEF Ends
      <4> QED
        BY <4>1, SendEffect
    <3> QED
      BY <1>2, <3>1, <3>2, LegFrame
  <2> QED
    BY <1>a, <2>1, <2>2, <2>3 DEF LegOK
<1> QED
  BY <1>1, <1>2

LEMMA PhaseStep ==
  ASSUME Types, QueryInv, StoreInv, [Next]_vars, NEW c \in Queries
  PROVE  PhaseOK(c)'
<1>a. PhaseOK(c) /\ taken[c] \in Nat /\ Len(results[c]) \in Nat /\ taken[c] <= Len(results[c])
  BY DEF QueryInv, QueryOK, ChanOK, Types
<1>b. \A i \in 1..taken[c] : legMsg'[c][results'[c][i]] = legMsg[c][results[c][i]]
  BY <1>a, ResultsStable
<1>1. CASE phase'[c] = phase[c] /\ taken'[c] = taken[c] /\ outcome'[c] = outcome[c] /\ given'[c] = given[c]
  <2>1. phase'[c] = "racing" => \A i \in 1..taken'[c] : ~useful(legMsg'[c][results'[c][i]])
    BY <1>1, <1>a, <1>b DEF PhaseOK
  <2> QED
    BY <1>1, <1>a, <2>1 DEF PhaseOK
<1>2. CASE Serve(c)
  <2>1. phase'[c] \in {"direct", "racing"} /\ outcome' = outcome /\ taken' = taken /\ outcome[c].how = "open"
    BY <1>2, <1>a, ServeEffect DEF Serve, PhaseOK
  <2>2. taken[c] = 0
    <3>1. Done(c) = {}
      BY <1>2 DEF Serve, Types, QueryInv, QueryOK, LegOK, InRace, Done
    <3> QED
      BY <1>a, <3>1, FS_EmptySet DEF QueryInv, QueryOK, ChanOK
  <2> QED
    BY <2>1, <2>2 DEF PhaseOK
<1>3. CASE Continue(c)
  <2>1. /\ phase' = phase /\ outcome' = outcome /\ phase[c] = "racing"
        /\ ~useful(legMsg[c][results[c][taken[c] + 1]])
        /\ UNCHANGED legVars
    BY <1>3 DEF Continue, Unread
  <2>2. taken'[c] = taken[c] + 1
    BY <1>3 DEF Continue, Types
  <2>3. \A i \in 1..taken'[c] : ~useful(legMsg[c][results[c][i]])
    BY <1>a, <2>1, <2>2 DEF PhaseOK
  <2> QED
    BY <1>a, <2>1, <2>3 DEF PhaseOK, legVars
<1>4. ASSUME NEW how \in Verdicts, NEW by \in Legs, NEW m \in Msgs, Decides(c, how, by, m)
      PROVE  PhaseOK(c)'
  <2>1. phase'[c] = "done" /\ outcome'[c] = [how |-> how, by |-> by]
    BY <1>4, ReturnEffect DEF Decides
  <2> QED
    BY <2>1 DEF PhaseOK, Verdicts
<1> QED
  BY <1>1, <1>2, <1>3, <1>4, LoopFrame

LEMMA NowFrame ==
  ASSUME Types, QueryInv, StoreInv, [Next]_vars
  PROVE  now' = now \/ Tick
BY StepCases DEF Serve, ServeProbe, Ends, Continue, Decides, clock

LEMMA TimelyBefore ==
  ASSUME NEW m \in Answers, NEW s \in Nat, NEW t \in Nat, s <= t, Timely(m, t)
  PROVE  Timely(m, s)
<1>1. m.ttl \in Nat /\ m.dies \in Nat /\ m.hops \in Nat
  BY DEF Answers
<1> QED
  BY <1>1 DEF Timely, Second, probeTimeout

\* The clock stops at a probe's deadline until the probe has ended.
LEMMA ProbeStepInv ==
  ASSUME Types, QueryInv, StoreInv, [Next]_vars, NEW c \in Queries
  PROVE  ProbeOK(c)'
<1> SUFFICES ASSUME NEW p \in Replicas
             PROVE  /\ legPc'[c][p] \in {"sent", "answered"} =>
                         sentAt'[c] <= now' /\ now' <= sentAt'[c] + probeTimeout
                    /\ legPc'[c][p] = "answered" /\ useful(legMsg'[c][p]) =>
                         Timely(legMsg'[c][p], sentAt'[c] + probeTimeout)
  BY DEF ProbeOK
<1>a. /\ legPc[c][p] \in {"sent", "answered"} => sentAt[c] <= now /\ now <= sentAt[c] + probeTimeout
      /\ legPc[c][p] = "answered" /\ useful(legMsg[c][p]) =>
           Timely(legMsg[c][p], sentAt[c] + probeTimeout)
  BY DEF QueryInv, QueryOK, ProbeOK
<1>b. now \in Nat /\ sentAt[c] \in Nat /\ p \in Legs
  BY MaxTimeAssumption DEF Types, Legs
<1>1. CASE Tick
  <2>1. UNCHANGED <<legPc, legMsg, sentAt>> /\ now' = now + 1
    BY <1>1 DEF Tick, legVars, asking
  <2>2. ASSUME legPc[c][p] \in {"sent", "answered"} PROVE now < sentAt[c] + probeTimeout
    <3>1. p \in asked[c]
      BY <1>b, <2>2, UpstreamAssumption DEF QueryInv, QueryOK, LegOK, InRace
    <3> QED
      BY <1>1, <1>b, <2>2, <3>1 DEF Tick, Overdue, probeTimeout
  <2> QED
    BY <1>a, <1>b, <2>1, <2>2 DEF probeTimeout
<1>2. CASE Serve(c)
  <2>1. legPc'[c][p] \in {"sent", "off"} /\ sentAt'[c] = now /\ now' = now
    BY <1>2, <1>b, ServeEffect DEF Serve, clock
  <2> QED
    BY <1>b, <2>1 DEF probeTimeout
<1>3. CASE ~Tick /\ ~Serve(c)
  <2>1. now' = now /\ sentAt'[c] = sentAt[c]
    BY <1>3, NowFrame, AskedFrame
  <2>2. CASE legPc'[c] = legPc[c] /\ legMsg'[c] = legMsg[c]
    BY <1>a, <2>1, <2>2
  <2>3. ASSUME NEW r \in Replicas, ServeProbe(c, r), r = p
        PROVE  /\ legPc[c][p] = "sent"
               /\ useful(legMsg'[c][p]) => Timely(legMsg'[c][p], sentAt[c] + probeTimeout)
    <3>1. /\ legPc[c][p] = "sent" /\ legMsg' \in [Queries -> [Legs -> Msgs]]
          /\ useful(legMsg'[c][p]) => Timely(legMsg'[c][p], now + probeTimeout)
      BY <2>3, ServeProbeEffect
    <3>2. ASSUME useful(legMsg'[c][p]) PROVE Timely(legMsg'[c][p], sentAt[c] + probeTimeout)
      <4>1. legMsg'[c][p] \in Answers
        BY <1>b, <3>1, <3>2, UsefulIsAnswer
      <4>2. /\ sentAt[c] + probeTimeout \in Nat /\ now + probeTimeout \in Nat
            /\ sentAt[c] + probeTimeout <= now + probeTimeout
        BY <1>a, <1>b, <3>1 DEF probeTimeout
      <4> QED
        BY <3>1, <3>2, <4>1, <4>2, TimelyBefore
    <3> QED
      BY <3>1, <3>2
  <2>4. ASSUME NEW r \in Replicas, ServeProbe(c, r), r # p
        PROVE  legPc'[c][p] = legPc[c][p] /\ legMsg'[c][p] = legMsg[c][p]
    BY <1>b, <2>4, ServeProbeEffect
  <2>5. ASSUME NEW l \in Legs, NEW m \in Msgs, Ends(c, l, m)
        PROVE  legPc'[c][p] = "done" \/ (legPc'[c][p] = legPc[c][p] /\ legMsg'[c][p] = legMsg[c][p])
    <3>1. Send(c, l, m)
      BY <2>5 DEF Ends
    <3> QED
      BY <1>b, <3>1, SendEffect
  <2> QED
    BY <1>a, <1>3, <2>1, <2>2, <2>3, <2>4, <2>5, LegFrame
<1> QED
  BY <1>1, <1>2, <1>3

\* Time does not pass while a result waits to be taken.
LEMMA UnreadStep ==
  ASSUME Types, QueryInv, StoreInv, [Next]_vars, NEW c \in Queries
  PROVE  UnreadOK(c)'
<1> SUFFICES ASSUME phase'[c] = "racing", NEW i \in 1..Len(results'[c]), i > taken'[c],
                    useful(legMsg'[c][results'[c][i]])
             PROVE  Timely(legMsg'[c][results'[c][i]], now')
  BY DEF UnreadOK
<1>a. /\ results[c] \in Seq(Legs) /\ taken[c] \in Nat /\ Len(results[c]) \in Nat
      /\ results'[c] \in Seq(Legs) /\ taken'[c] \in Nat /\ Len(results'[c]) \in Nat
  <2>1. Types'
    BY TypesStep
  <2>2. results \in [Queries -> Seq(Legs)] /\ taken \in [Queries -> Nat]
    BY DEF Types
  <2>3. results' \in [Queries -> Seq(Legs)] /\ taken' \in [Queries -> Nat]
    BY <2>1 DEF Types
  <2> QED
    BY <2>2, <2>3
<1>b. ChanOK(c) /\ UnreadOK(c) /\ LegOK(c)
  BY DEF QueryInv, QueryOK
<1>1. CASE Tick
  <2>1. UNCHANGED <<phase, taken, results, legMsg>> /\ ~Busy(c)
    BY <1>1 DEF Tick, legVars, ending
  <2>2. taken[c] <= Len(results[c]) /\ Len(results[c]) <= NumLegs(c) /\ NumLegs(c) \in Nat
    BY <1>b, DoneFinite DEF ChanOK
  <2>3. taken[c] = Len(results[c])
    BY <1>a, <2>1, <2>2 DEF Busy, Unread
  <2> QED
    BY <1>a, <2>1, <2>3
<1>2. CASE Serve(c)
  <2>1. Done(c) = {}
    BY <1>2 DEF Serve, Types, QueryInv, QueryOK, LegOK, InRace, Done
  <2>2. Len(results[c]) = 0 /\ results'[c] = results[c]
    BY <1>2, <1>b, <2>1, FS_EmptySet DEF ChanOK, Serve
  <2> QED
    BY <1>a, <2>2
<1>3. CASE ~Tick /\ ~Serve(c)
  <2>1. now' = now
    BY <1>3, NowFrame
  <2>2. phase[c] = "racing" /\ taken[c] <= taken'[c]
    <3>1. ASSUME NEW how, NEW by, NEW m, Decides(c, how, by, m) PROVE FALSE
      BY <3>1, ReturnEffect DEF Decides
    <3>2. CASE Continue(c)
      BY <1>a, <3>2 DEF Continue, Unread, Types
    <3> QED
      BY <1>3, <1>a, <3>1, <3>2, LoopFrame
  <2>3. CASE i \in 1..Len(results[c])
    <3>1. results'[c][i] = results[c][i] /\ legMsg'[c][results[c][i]] = legMsg[c][results[c][i]]
      BY <2>3, ResultsStable
    <3>2. i > taken[c]
      BY <1>a, <2>2
    <3> QED
      BY <1>b, <2>1, <2>2, <2>3, <3>1, <3>2 DEF UnreadOK
  <2>4. ASSUME i \notin 1..Len(results[c]), NEW l \in Legs, NEW m \in Msgs, Ends(c, l, m)
        PROVE  Timely(legMsg'[c][results'[c][i]], now')
    <3>1. results'[c] = Append(results[c], l) /\ legMsg'[c][l] = m
      BY <2>4, SendEffect DEF Ends
    <3>2. i = Len(results[c]) + 1
      BY <1>a, <2>4, <3>1
    <3>3. results'[c][i] = l
      BY <1>a, <3>1, <3>2
    <3> QED
      BY <2>1, <2>4, <3>1, <3>3 DEF Ends
  <2>5. results'[c] = results[c] \/ \E l \in Legs, m \in Msgs : Ends(c, l, m)
    BY <1>3, LegFrame DEF ServeProbe
  <2> QED
    BY <2>3, <2>4, <2>5
<1> QED
  BY <1>1, <1>2, <1>3

LEMMA MsgStep ==
  ASSUME Types, QueryInv, StoreInv, [Next]_vars, NEW c \in Queries
  PROVE  MsgOK(c)'
<1>a. query' = query
  BY AskedFrame
<1> SUFFICES ASSUME NEW l \in Legs PROVE Sound(c, legMsg'[c][l])
  BY <1>a DEF MsgOK, Sound
<1>b. Sound(c, legMsg[c][l])
  BY DEF QueryInv, QueryOK, MsgOK
<1>1. CASE Serve(c)
  BY <1>1, <1>b DEF Serve
<1>2. ASSUME NEW p \in Replicas, ServeProbe(c, p) PROVE Sound(c, legMsg'[c][l])
  <2>1. CASE l = p
    BY <1>2, <2>1, ServeProbeEffect
  <2>2. CASE l # p
    <3>1. legMsg'[c][l] = legMsg[c][l]
      BY <1>2, <2>2, ServeProbeEffect
    <3> QED
      BY <1>b, <3>1
  <2> QED
    BY <2>1, <2>2
<1>3. ASSUME NEW k \in Legs, NEW m \in Msgs, Ends(c, k, m) PROVE Sound(c, legMsg'[c][l])
  <2>1. Send(c, k, m) /\ Sound(c, m)
    BY <1>3 DEF Ends
  <2>2. legMsg'[c][l] = IF l = k THEN m ELSE legMsg[c][l]
    BY <2>1, SendEffect
  <2> QED
    BY <1>b, <2>1, <2>2
<1>4. CASE legMsg'[c] = legMsg[c]
  BY <1>4, <1>b
<1> QED
  BY <1>1, <1>2, <1>3, <1>4, LegFrame

LEMMA GivenStep ==
  ASSUME Types, QueryInv, StoreInv, [Next]_vars, NEW c \in Queries
  PROVE  GivenOK(c)'
<1>a. query' = query
  BY AskedFrame
<1>b. GivenOK(c)
  BY DEF QueryInv, QueryOK
<1>1. CASE given'[c] = given[c]
  BY <1>1, <1>a, <1>b DEF GivenOK, Sound
<1>2. ASSUME NEW how \in Verdicts, NEW by \in Legs, NEW m \in Msgs, Decides(c, how, by, m)
      PROVE  GivenOK(c)'
  <2>1. /\ given'[c] = IF m = NoMsg THEN NoEntry ELSE Entry(m, now)
        /\ useful(m) => Sound(c, m) /\ Timely(m, now)
    <3>1. Return(c, how, by, m) /\ (useful(m) => Sound(c, m) /\ Timely(m, now))
      BY <1>2 DEF Decides
    <3>2. given'[c] = IF m = NoMsg THEN NoEntry ELSE Entry(m, now)
      BY <3>1 DEF Return, Types
    <3> QED
      BY <3>1, <3>2
  <2>2. CASE m = NoMsg
    <3>1. given'[c].held = FALSE
      BY <2>1, <2>2 DEF NoEntry
    <3> QED
      BY <3>1, Zenon DEF GivenOK
  <2>3. CASE m # NoMsg
    <3>1. given'[c].msg = m /\ given'[c].stored = now
      BY <2>1, <2>3, EntryMade
    <3> QED
      BY <1>a, <2>1, <3>1 DEF GivenOK, Sound
  <2> QED
    BY <2>2, <2>3
<1> QED
  BY <1>1, <1>2, LoopFrame DEF Serve, Continue

-------------------------------------------------------------------------------
(***************************************************************************)
(* The invariant and what follows from it.                                 *)
(***************************************************************************)

LEMMA IInvInit == Init => IInv
<1> SUFFICES ASSUME Init PROVE IInv
  OBVIOUS
<1>1. Types
  BY TypesInit
<1>2. NoEntry.held = FALSE
  BY DEF NoEntry
<1>3. StoreInv
  <2> SUFFICES ASSUME NEW r \in Replicas, NEW k \in Keys PROVE EntryOK(store[r][k])
    BY DEF StoreInv
  <2>1. store[r][k] = NoEntry
    BY DEF Init
  <2> QED
    BY <1>2, <2>1, Zenon DEF EntryOK
<1>4. ASSUME NEW q \in Queries PROVE QueryOK(q)
  <2>1. /\ asked[q] = {} /\ results[q] = <<>> /\ taken[q] = 0 /\ phase[q] = "idle"
        /\ given[q] = NoEntry /\ outcome[q].how = "open"
        /\ \A l \in Legs : legPc[q][l] = "off" /\ legMsg[q][l] = NoMsg
    BY DEF Init
  <2>2. Done(q) = {}
    BY <2>1 DEF Done
  <2>3. ChanOK(q)
    BY <2>1, <2>2, FS_EmptySet DEF ChanOK
  <2>4. LegOK(q) /\ PhaseOK(q) /\ UnreadOK(q)
    BY <2>1 DEF LegOK, InRace, PhaseOK, UnreadOK
  <2>5. ProbeOK(q)
    BY <2>1 DEF ProbeOK, Legs
  <2>6. MsgOK(q)
    BY <2>1 DEF MsgOK, Sound, useful, NoMsg
  <2>7. GivenOK(q)
    BY <1>2, <2>1, Zenon DEF GivenOK
  <2> QED
    BY <2>3, <2>4, <2>5, <2>6, <2>7 DEF QueryOK
<1> QED
  BY <1>1, <1>3, <1>4 DEF IInv, QueryInv

LEMMA IInvStep == IInv /\ [Next]_vars => IInv'
<1> SUFFICES ASSUME Types, QueryInv, StoreInv, [Next]_vars PROVE IInv'
  BY DEF IInv
<1>1. Types' /\ StoreInv'
  BY TypesStep, StoreStep
<1>2. ASSUME NEW q \in Queries PROVE QueryOK(q)'
  BY ChanStep, LegStep, PhaseStep, ProbeStepInv, UnreadStep, MsgStep, GivenStep DEF QueryOK
<1> QED
  BY <1>1, <1>2 DEF IInv, QueryInv

LEMMA Invariance == Spec => []IInv
BY IInvInit, IInvStep, PTL DEF Spec

(***************************************************************************)
(* Type correctness, the bound on the channel included: each leg sends one *)
(* result, so the channel peercache.go makes for all of them never blocks  *)
(* a leg, for any peer set.                                                *)
(***************************************************************************)
THEOREM TypeCorrect == Spec => []TypeOK
<1>1. IInv => TypeOK
  <2> SUFFICES ASSUME Types, QueryInv PROVE TypeOK
    BY DEF IInv
  <2>1. \A q \in Queries : Len(results[q]) <= NumLegs(q) /\ taken[q] <= Len(results[q])
    BY DoneFinite DEF QueryInv, QueryOK, ChanOK
  <2> QED
    BY <2>1 DEF TypeOK, Types, Hows, Pcs, Msgs
<1> QED
  BY <1>1, Invariance, PTL

(***************************************************************************)
(* The loop never returns the "no leg produced an answer" error: once it   *)
(* has a result from every leg, it has the upstream's.                     *)
(***************************************************************************)
THEOREM UpstreamHeard == Spec => []UpstreamIsHeard
<1>1. IInv => UpstreamIsHeard
  BY DEF IInv, QueryInv, QueryOK, PhaseOK, UpstreamIsHeard
<1> QED
  BY <1>1, Invariance, PTL

\* What is held and what was given satisfies the invariant's bounds.
LEMMA HeldFacts ==
  ASSUME IInv, NEW e \in Held
  PROVE  /\ e.msg \in Answers
         /\ e.msg.ttl >= minServeTTL
         /\ e.msg.ttl + e.msg.hops <= e.msg.ttl0
         /\ Timely(e.msg, e.stored)
<1>1. PICK r \in Replicas, k \in Keys : e = store[r][k]
  BY DEF Held
<1>2. e.held
  <2> DEFINE All == {store[r0][k0] : r0 \in Replicas, k0 \in Keys}
  <2>1. Held = {x \in All : x.held}
    BY DEF Held
  <2> HIDE DEF All
  <2> QED
    BY <2>1, Zenon
<1>3. EntryOK(e) /\ e \in Entries(Answers)
  BY <1>1 DEF IInv, StoreInv, Types
<1>4. e.msg \in Answers
  BY <1>2, <1>3, EntryType
<1> QED
  BY <1>2, <1>3, <1>4, Zenon DEF EntryOK

LEMMA GivenFacts ==
  ASSUME IInv, NEW e \in Given
  PROVE  e.msg.ttl + e.msg.hops <= e.msg.ttl0 /\ Timely(e.msg, e.stored)
<1>1. PICK q \in Queries : e = given[q]
  BY DEF Given
<1>2. e.held /\ useful(e.msg)
  BY Zenon DEF Given
<1>3. GivenOK(q)
  BY DEF IInv, QueryInv, QueryOK
<1> QED
  BY <1>1, <1>2, <1>3, Zenon DEF GivenOK, Sound

(***************************************************************************)
(* An answer that travels from store to store loses at least a second on   *)
(* every hop, so however many siblings pass it on it makes at most         *)
(* ttl0 - minServeTTL hops.                                                *)
(***************************************************************************)
THEOREM HopsShrink == Spec => []HopsShrinkTTL
<1>1. IInv => HopsShrinkTTL
  <2> SUFFICES ASSUME IInv PROVE HopsShrinkTTL
    OBVIOUS
  <2>1. \A e \in Held \cup Given : e.msg.ttl + e.msg.hops <= e.msg.ttl0
    BY HeldFacts, GivenFacts
  <2>2. ASSUME NEW e \in Held PROVE e.msg.hops + minServeTTL <= e.msg.ttl0
    <3>1. e.msg.ttl \in Nat /\ e.msg.ttl0 \in Nat /\ e.msg.hops \in Nat
      BY HeldFacts DEF Answers
    <3> QED
      BY <3>1, HeldFacts DEF minServeTTL
  <2> QED
    BY <2>1, <2>2 DEF HopsShrinkTTL
<1> QED
  BY <1>1, Invariance, PTL

(***************************************************************************)
(* However long the chain of stores an answer came through, it is believed *)
(* at most probeTimeout per hop longer than the upstream meant it.         *)
(***************************************************************************)
THEOREM ExpiryKept == Spec => []NotMuchBeyondUpstreamExpiry
<1>1. IInv => NotMuchBeyondUpstreamExpiry
  BY HeldFacts, GivenFacts DEF NotMuchBeyondUpstreamExpiry, Timely
<1> QED
  BY <1>1, Invariance, PTL

(***************************************************************************)
(* Whichever leg won, the client's answer was resolved with the DO and CD  *)
(* bits of its own query.                                                  *)
(***************************************************************************)
THEOREM BitsKept == Spec => []OwnBits
<1>1. IInv => OwnBits
  <2> SUFFICES ASSUME IInv, NEW q \in Queries, given[q].held /\ useful(given[q].msg)
               PROVE  given[q].msg.dnssec = query[q].dnssec
    BY DEF OwnBits
  <2>1. GivenOK(q)
    BY DEF IInv, QueryInv, QueryOK
  <2> QED
    BY <2>1, Zenon DEF GivenOK, Sound
<1> QED
  BY <1>1, Invariance, PTL

-------------------------------------------------------------------------------
(***************************************************************************)
(* PeerCache implements Contest.                                           *)
(***************************************************************************)

reports == [q \in Queries |-> [l \in Legs |-> ReportOf(q, l)]]
verdicts == [q \in Queries |-> VerdictOf(q)]

LEMMA InitRefines == Init => C!Init
<1> SUFFICES ASSUME Init PROVE C!Init
  OBVIOUS
<1>1. reports = [q \in Queries |-> [l \in Legs |-> "pending"]]
  BY DEF Init, reports, ReportOf
<1>2. verdicts = [q \in Queries |-> [how |-> "open", by |-> "none"]]
  BY DEF Init, verdicts, VerdictOf
<1>3. results = [q \in Queries |-> <<>>]
  BY DEF Init
<1> QED
  BY <1>1, <1>2, <1>3 DEF C!Init, C!Open, reports, verdicts

\* A report is fixed by the peer list, the leg's state and, once it is done,
\* its message.
LEMMA ReportSame ==
  ASSUME NEW q \in Queries, NEW l \in Legs, asked'[q] = asked[q],
         legPc'[q][l] = "off" <=> legPc[q][l] = "off",
         legPc'[q][l] = "done" <=> legPc[q][l] = "done",
         legPc[q][l] = "done" => legMsg'[q][l] = legMsg[q][l]
  PROVE  ReportOf(q, l)' = ReportOf(q, l)
BY DEF ReportOf

LEMMA QuietReports ==
  ASSUME UNCHANGED <<asked, legVars>>
  PROVE  reports' = reports /\ results' = results
BY DEF reports, ReportOf, legVars

\* The end of a leg is its report.
LEMMA EndsRefines ==
  ASSUME Types, QueryInv, NEW q \in Queries, NEW l \in Legs, NEW m \in Msgs, Ends(q, l, m)
  PROVE  C!Report(q, l)
<1>0. Send(q, l, m) /\ legPc[q][l] \in {"sent", "answered"}
  BY DEF Ends
<1>1. UNCHANGED <<asked, outcome>>
  BY DEF Ends, asking, ending
<1>2. asked[q] # {}
  BY <1>0 DEF QueryInv, QueryOK, LegOK, InRace
<1>3. ReportOf(q, l) = "pending"
  BY <1>0, <1>2 DEF ReportOf
<1>4. ReportOf(q, l)' \in C!Reports \ {"pending", "absent"}
  <2>1. legPc'[q][l] = "done" /\ asked'[q] # {}
    BY <1>0, <1>1, <1>2, SendEffect
  <2> QED
    BY <2>1 DEF ReportOf, C!Reports
<1>5. \A p \in Queries, k \in Legs : ~(p = q /\ k = l) => ReportOf(p, k)' = ReportOf(p, k)
  <2> SUFFICES ASSUME NEW p \in Queries, NEW k \in Legs, ~(p = q /\ k = l)
               PROVE  ReportOf(p, k)' = ReportOf(p, k)
    OBVIOUS
  <2>1. legPc'[p][k] = legPc[p][k] /\ legMsg'[p][k] = legMsg[p][k]
    BY <1>0, SendEffect
  <2> QED
    BY <1>1, <2>1, ReportSame
<1>6. reports' = [reports EXCEPT ![q][l] = ReportOf(q, l)']
  BY <1>5 DEF reports
<1>7. results' = [results EXCEPT ![q] = Append(@, l)]
  BY <1>0 DEF Send
<1>8. verdicts' = verdicts
  BY <1>1 DEF verdicts, VerdictOf
<1>9. reports[q][l] = "pending"
  BY <1>3 DEF reports
<1> QED
  BY <1>4, <1>6, <1>7, <1>8, <1>9 DEF C!Report, reports, verdicts

\* The start of ServeDNS leaves out the replicas that are not in the peer list.
LEMMA ServeRefines ==
  ASSUME Types, QueryInv, NEW q \in Queries, Serve(q)
  PROVE  C!LeaveOut(q) \/ UNCHANGED C!vars
<1>0. LegOK(q) /\ PhaseOK(q)
  BY DEF QueryInv, QueryOK
<1>1. asked[q] = {} /\ outcome[q].how = "open"
  BY <1>0 DEF Serve, LegOK, PhaseOK
<1>2. UNCHANGED <<outcome, results, legMsg>>
  BY DEF Serve
<1>3. verdicts' = verdicts /\ results' = results
  BY <1>2 DEF verdicts, VerdictOf
<1>4. ASSUME NEW p \in Queries, p # q, NEW l \in Legs PROVE ReportOf(p, l)' = ReportOf(p, l)
  <2>1. asked'[p] = asked[p] /\ legPc'[p][l] = legPc[p][l]
    BY <1>4, ServeEffect
  <2> QED
    BY <1>2, <2>1, ReportSame
<1>5. \A l \in Legs : ReportOf(q, l) = "pending"
  BY <1>1 DEF ReportOf
<1>6. \A l \in Legs : legPc'[q][l] = IF l \in InRace(q)' THEN "sent" ELSE "off"
  BY ServeEffect
<1>7. CASE asked'[q] = {}
  <2>1. \A l \in Legs : ReportOf(q, l)' = "pending"
    BY <1>7 DEF ReportOf
  <2>2. reports' = reports
    BY <1>4, <1>5, <2>1 DEF reports
  <2> QED
    BY <1>3, <2>2 DEF C!vars, reports, verdicts
<1>8. CASE asked'[q] # {}
  <2> DEFINE out == Replicas \ asked'[q]
  <2>1. InRace(q)' = asked'[q] \cup {Upstream}
    BY <1>8 DEF InRace
  <2>2. \A l \in Legs : l \in out <=> l \notin InRace(q)'
    BY <2>1, UpstreamAssumption DEF Legs
  <2>3. \A l \in Legs : ReportOf(q, l)' = IF l \in out THEN "absent" ELSE "pending"
    BY <1>6, <1>8, <2>2 DEF ReportOf
  <2>4. out \in SUBSET (Legs \ {Upstream})
    BY UpstreamAssumption DEF Legs
  <2> HIDE DEF out
  <2>5. reports' = [reports EXCEPT ![q] = [l \in Legs |-> IF l \in out THEN "absent" ELSE "pending"]]
    BY <1>4, <2>3 DEF reports
  <2>6. verdicts[q] = C!Open
    BY <1>1 DEF verdicts, VerdictOf, C!Open
  <2>7. \A l \in Legs : reports[q][l] = "pending"
    BY <1>5 DEF reports
  <2>8. C!LeaveOut(q)
    BY <1>3, <2>4, <2>5, <2>6, <2>7 DEF C!LeaveOut, reports, verdicts
  <2> QED
    BY <2>8
<1> QED
  BY <1>7, <1>8

\* Whatever ends a query decides it, and decides it once.
LEMMA ReturnRefines ==
  ASSUME Types, QueryInv, NEW q \in Queries, NEW how \in Hows, NEW by \in Legs, NEW m,
         Return(q, how, by, m), phase[q] \in {"direct", "racing"}, UNCHANGED <<asked, legVars>>
  PROVE  /\ results' = results /\ reports' = reports
         /\ C!Verdict(q, C!Decided(IF how = "direct" THEN "delegated" ELSE how,
                                   IF how \in {"won", "fallback"} THEN by ELSE "none"))
<1>1. results' = results /\ reports' = reports
  BY QuietReports
<1>2. outcome[q].how = "open"
  BY DEF QueryInv, QueryOK, PhaseOK
<1>3. verdicts[q] = C!Open
  BY <1>2 DEF verdicts, VerdictOf, C!Open
<1>4. outcome'[q] = [how |-> how, by |-> by]
      /\ \A p \in Queries : p # q => outcome'[p] = outcome[p]
  BY ReturnEffect
<1> DEFINE v == [how |-> IF how = "direct" THEN "delegated" ELSE how,
                 by |-> IF how \in {"won", "fallback"} THEN by ELSE "none"]
<1>5. VerdictOf(q)' = v
  BY <1>4 DEF VerdictOf
<1>6. \A p \in Queries : p # q => VerdictOf(p)' = VerdictOf(p)
  BY <1>4 DEF VerdictOf
<1>7. verdicts' = [verdicts EXCEPT ![q] = v]
  BY <1>5, <1>6 DEF verdicts
<1>8. v = C!Decided(IF how = "direct" THEN "delegated" ELSE how,
                    IF how \in {"won", "fallback"} THEN by ELSE "none")
  BY DEF C!Decided
<1> HIDE DEF v
<1> QED
  BY <1>1, <1>3, <1>7, <1>8 DEF C!Verdict, reports, verdicts

\* The message a finished leg of a race came back with is what it reported.
LEMMA DoneReport ==
  ASSUME QueryInv, NEW q \in Queries, NEW l \in Done(q)
  PROVE  reports[q][l] = IF useful(legMsg[q][l]) THEN "useful"
                         ELSE IF legMsg[q][l] = NoMsg THEN "nothing" ELSE "unusable"
<1>1. l \in Legs /\ legPc[q][l] = "done"
  BY DEF Done
<1>2. asked[q] # {}
  BY <1>1 DEF QueryInv, QueryOK, LegOK, InRace
<1> QED
  BY <1>1, <1>2 DEF reports, ReportOf

LEMMA DirectRefines ==
  ASSUME Types, QueryInv, NEW q \in Queries, Direct(q)
  PROVE  C!Delegate(q)
<1>1. /\ \E m : Return(q, "direct", Upstream, m)
      /\ phase[q] = "direct" /\ UNCHANGED <<asked, legVars>>
  BY DEF Direct, asking
<1>2. PICK m : Return(q, "direct", Upstream, m)
  BY <1>1
<1>3. "direct" \in Hows /\ Upstream \in Legs
  BY DEF Hows, Legs
<1>4. C!Verdict(q, C!Decided("delegated", "none"))
  BY <1>1, <1>2, <1>3, ReturnRefines
<1>5. results[q] = <<>>
  <2>1. Done(q) = {}
    BY <1>1 DEF QueryInv, QueryOK, LegOK, InRace, Done
  <2>2. Len(results[q]) = 0 /\ results[q] \in Seq(Legs)
    BY <2>1, FS_EmptySet DEF QueryInv, QueryOK, ChanOK, Types
  <2> QED
    BY <2>2
<1> QED
  BY <1>4, <1>5 DEF C!Delegate

LEMMA WinRefines ==
  ASSUME Types, QueryInv, StoreInv, NEW q \in Queries, Win(q)
  PROVE  C!Win(q)
<1> DEFINE n == taken[q] + 1
           l == results[q][n]
<1>1. /\ taken[q] \in Nat /\ n \in 1..Len(results[q]) /\ l \in Done(q) /\ l \in Legs
      /\ phase[q] = "racing" /\ useful(legMsg[q][l]) /\ UNCHANGED <<asked, legVars>>
  BY IncomingFacts DEF Win, asking
<1>2. PICK m \in Msgs : Return(q, "won", l, m)
  BY WinDecides DEF Decides
<1>3. "won" \in Hows
  BY DEF Hows
<1>4. C!Verdict(q, C!Decided("won", l))
  BY <1>1, <1>2, <1>3, ReturnRefines
<1>5. reports[q][l] = "useful"
  BY <1>1, DoneReport
<1>6. ASSUME NEW j \in 1..(n - 1) PROVE reports[q][results[q][j]] # "useful"
  <2>1. j \in 1..taken[q] /\ j \in 1..Len(results[q])
    BY <1>1
  <2>2. ~useful(legMsg[q][results[q][j]]) /\ results[q][j] \in Done(q)
    BY <1>1, <2>1 DEF QueryInv, QueryOK, PhaseOK, ChanOK
  <2> QED
    BY <2>2, DoneReport
<1> QED
  BY <1>1, <1>4, <1>5, <1>6 DEF C!Win, reports

LEMMA GiveUpRefines ==
  ASSUME Types, QueryInv, NEW q \in Queries, GiveUp(q)
  PROVE  C!FallBack(q) \/ C!Fail(q)
<1>1. phase[q] = "racing" /\ taken[q] = NumLegs(q) /\ UNCHANGED <<asked, legVars>>
  BY DEF GiveUp, asking
<1>2. /\ \A l \in Done(q) : ~useful(legMsg[q][l])
      /\ Done(q) = asked[q] \cup {Upstream}
      /\ legMsg[q][Upstream] \in {NoMsg, Unusable}
  BY <1>1, AllIn
<1>3. PICK how \in {"failed", "fallback"}, m \in {NoMsg, Unusable} :
        Return(q, how, Upstream, m) /\ (how = "failed" <=> legMsg[q][Upstream] = NoMsg)
  BY GiveUpCases
<1>4. Upstream \in Legs /\ how \in Hows /\ asked[q] # {}
  BY <1>1 DEF Legs, Hows, QueryInv, QueryOK, LegOK
<1>5. C!Verdict(q, C!Decided(how, IF how \in {"won", "fallback"} THEN Upstream ELSE "none"))
  <2>1. how # "direct"
    OBVIOUS
  <2> QED
    BY <1>1, <1>3, <1>4, <2>1, ReturnRefines
<1>6. C!NothingUseful(q)
  <2> SUFFICES ASSUME NEW l \in Legs PROVE reports[q][l] \in {"unusable", "nothing", "absent"}
    BY DEF C!NothingUseful, reports
  <2>1. CASE l \in Done(q)
    BY <1>2, <2>1, DoneReport
  <2>2. CASE l \notin Done(q)
    <3>1. l \notin InRace(q)
      BY <1>2, <1>4, <2>2 DEF InRace
    <3>2. legPc[q][l] = "off"
      BY <3>1 DEF QueryInv, QueryOK, LegOK
    <3> QED
      BY <1>4, <3>2 DEF reports, ReportOf
  <2> QED
    BY <2>1, <2>2
<1>7. reports[q][Upstream] = IF how = "failed" THEN "nothing" ELSE "unusable"
  BY <1>2, <1>3, DoneReport
<1>8. CASE how = "failed"
  BY <1>5, <1>6, <1>7, <1>8 DEF C!Fail, reports
<1>9. CASE how = "fallback"
  BY <1>5, <1>6, <1>7, <1>9 DEF C!FallBack, reports
<1> QED
  BY <1>8, <1>9

LEMMA CancelRefines ==
  ASSUME Types, QueryInv, NEW q \in Queries, Cancelled(q)
  PROVE  C!Cancel(q)
<1>1. Return(q, "cancelled", Upstream, NoMsg) /\ phase[q] = "racing" /\ UNCHANGED <<asked, legVars>>
  BY DEF Cancelled, asking
<1>2. "cancelled" \in Hows /\ Upstream \in Legs
  BY DEF Hows, Legs
<1> QED
  BY <1>1, <1>2, ReturnRefines DEF C!Cancel

LEMMA StepRefines == IInv /\ [Next]_vars => [C!Next]_(C!vars)
<1> SUFFICES ASSUME Types, QueryInv, StoreInv, [Next]_vars PROVE [C!Next]_(C!vars)
  BY DEF IInv
<1>0. ASSUME UNCHANGED <<asked, legVars, outcome>> PROVE UNCHANGED C!vars
  <2>1. reports' = reports /\ results' = results
    BY <1>0, QuietReports
  <2>2. verdicts' = verdicts
    BY <1>0 DEF verdicts, VerdictOf
  <2> QED
    BY <2>1, <2>2 DEF C!vars, reports, verdicts
<1>1. CASE Tick \/ (\E r \in Replicas : Republish(r)) \/ (\E r \in Replicas, k \in Keys : Evict(r, k))
           \/ UNCHANGED vars
  BY <1>0, <1>1 DEF Tick, Republish, Evict, asking, ending, vars
<1>2. ASSUME NEW q \in Queries, CtxDone(q) \/ Continue(q) PROVE UNCHANGED C!vars
  BY <1>0, <1>2 DEF CtxDone, Continue, asking, ending
<1>3. ASSUME NEW q \in Queries, NEW p \in Replicas, ServeProbe(q, p) PROVE UNCHANGED C!vars
  <2>1. UNCHANGED <<asked, results, outcome>>
    BY <1>3 DEF ServeProbe, asking, ending
  <2>2. ASSUME NEW c \in Queries, NEW l \in Legs PROVE ReportOf(c, l)' = ReportOf(c, l)
    <3>1. /\ legPc'[c][l] = "off" <=> legPc[c][l] = "off"
          /\ legPc'[c][l] = "done" <=> legPc[c][l] = "done"
          /\ legPc[c][l] = "done" => legMsg'[c][l] = legMsg[c][l]
      BY <1>3, ServeProbeEffect
    <3> QED
      BY <2>1, <3>1, ReportSame
  <2>3. reports' = reports
    BY <2>2 DEF reports
  <2>4. verdicts' = verdicts
    BY <2>1 DEF verdicts, VerdictOf
  <2> QED
    BY <2>1, <2>3, <2>4 DEF C!vars, reports, verdicts
<1>4. ASSUME NEW q \in Queries, Serve(q) PROVE [C!Next]_(C!vars)
  BY <1>4, ServeRefines DEF C!Next
<1>5. ASSUME NEW q \in Queries,
             UpstreamReturns(q) \/ \E p \in Replicas : ProbeReturns(q, p) \/ ProbeFails(q, p)
      PROVE  C!Next
  <2>1. PICK l \in Legs, m \in Msgs : Ends(q, l, m)
    BY <1>5, LegEnds
  <2>2. C!Report(q, l)
    BY <2>1, EndsRefines
  <2> QED
    BY <2>2 DEF C!Next
<1>6. ASSUME NEW q \in Queries, Direct(q) \/ Win(q) \/ GiveUp(q) \/ Cancelled(q) PROVE C!Next
  BY <1>6, DirectRefines, WinRefines, GiveUpRefines, CancelRefines DEF C!Next
<1> QED
  BY <1>1, <1>2, <1>3, <1>4, <1>5, <1>6 DEF Next, LoopStep, ProbeStep

(***************************************************************************)
(* The race of siblings and upstream implements the contest, for any peer  *)
(* set: the first useful result in channel order wins, the upstream's own  *)
(* failure is returned only when every leg was heard and none was useful,  *)
(* and every query is decided once.                                        *)
(***************************************************************************)
THEOREM Refinement == Spec => ImplementsContest
BY InitRefines, StepRefines, Invariance, PTL DEF Spec, ImplementsContest, C!Spec
===============================================================================
