------------------------------ MODULE ServerProofs -----------------------------
(***************************************************************************)
(* Theorems about Server, for every sequence of directives in which        *)
(* CoreDNS has cache before forward, every Corefile and every number of    *)
(* replicas, names and queries.                                            *)
(***************************************************************************)
EXTENDS Server, TLAPS, SequenceTheorems

(***************************************************************************)
(* The inductive invariant.                                                *)
(*                                                                         *)
(* In d every plugin of S has blocklist above it.                          *)
(***************************************************************************)
Guarded(d, S) == \A i \in DOMAIN d : d[i] \in S => \E j \in 1..(i - 1) : d[j] = "blocklist"

\* The provers do not see that a string in quotes is a member of STRING.
Directive == STRING \cup {"blocklist", "k8s_gateway", "peercache", "race"}

Answering == {"cache", "peercache", "race", "forward"}

\* What the inserts made so far have seen to.  peercache and race are no part
\* of it before their own insert: only then is it known that CoreDNS has none.
GuardedSoFar ==
  IF boot # "init" THEN Answering
  ELSE IF step = 4 THEN {"cache", "forward", "peercache"} ELSE {"cache", "forward"}

OrderInv ==
  /\ boot \in {"init", "setup", "serving", "failed"}
  /\ step \in Nat \ {0} /\ directives \in Seq(Directive)
  /\ boot = "init" => step \in 1..4
  /\ boot = "init" /\ step = 1 => directives \in Shipped
  /\ boot # "failed" /\ (boot = "init" => step > 1) => Guarded(directives, GuardedSoFar)

ChainInv ==
  /\ chain \in Seq(Directive)
  /\ boot = "init" => chain = <<>>
  /\ boot = "setup" /\ "blocklist" \in corefile =>
       \A j \in DOMAIN directives :
         j < step /\ directives[j] = "blocklist" => \E k \in DOMAIN chain : chain[k] = "blocklist"
  /\ "blocklist" \in corefile => Guarded(chain, Answering)

\* A blocklist being configured: every line leaves the numbers in their ranges.
BlocklistDraft(d) ==
  /\ d \in [ok : BOOLEAN, urls : Nat, allow : Nat, bootstrap : Nat, refresh : Int, readyTimeout : Int]
  /\ d.refresh >= Minute /\ d.readyTimeout > 0

\* A race being configured: addresses to come until its block ends, proxies after.
RaceDraft(d, s) ==
  /\ d = [ok |-> d.ok, to |-> d.to, tlsServerName |-> d.tlsServerName, expire |-> d.expire, proxies |-> d.proxies]
  /\ d.to \in Seq(Words) /\ Len(d.to) >= 2
  /\ d.expire \in Int /\ d.expire > 0
  /\ s = "block" => d.proxies = {}
  /\ s # "block" =>
       /\ d.proxies # {}
       /\ \A x \in d.proxies : x.serverName = d.tlsServerName /\ x.expire = d.expire /\ x.transport # "other"

PeerCacheDraft(d) ==
  d \in [ok : BOOLEAN, selector : Words \cup {""}, port : 1..maxPort]

Draft(plugin, d, s) ==
  /\ plugin = "blocklist" => BlocklistDraft(d) /\ (s = "accepted" => d.urls > 0 /\ d.bootstrap > 0)
  /\ plugin = "race" => RaceDraft(d, s)
  /\ plugin = "peercache" => PeerCacheDraft(d) /\ (s = "accepted" => d.selector # "")

DraftInv ==
  /\ stage \in {"start", "block", "ended", "accepted"}
  /\ boot = "init" => stage = "start"
  /\ boot = "setup" /\ stage # "start" =>
       /\ SettingUp /\ Current \in DOMAIN New
       /\ Draft(Current, draft, stage)

\* While every list since its arrival has blocked q's name, q has met no blocklist.
WalkInv(q) ==
  /\ boot # "serving" => pos[q] = 0
  /\ pos[q] > 0 /\ ~blocked(query[q].at, query[q].name) => clear[q]
  /\ pos[q] > 0 /\ ~clear[q] => \A i \in DOMAIN chain : i < pos[q] => chain[i] # "blocklist"
  /\ reply[q] = NoReply => ~upstream[q]
  /\ reply[q].how = "answer" \/ upstream[q] => clear[q]

ServeInv ==
  /\ list \in [Replicas -> SUBSET Names]
  /\ query \in [Queries -> [at : Replicas, name : Names]]
  /\ pos \in [Queries -> Nat]
  /\ clear \in [Queries -> BOOLEAN] /\ upstream \in [Queries -> BOOLEAN]
  /\ reply = [q \in Queries |-> reply[q]]
  /\ "blocklist" \notin corefile => \A r \in Replicas : list[r] = {}
  /\ \A q \in Queries : WalkInv(q)

IInv == OrderInv /\ ChainInv /\ DraftInv /\ ServeInv

-------------------------------------------------------------------------------
(***************************************************************************)
(* Splicing.                                                               *)
(***************************************************************************)
\* A prefix and a suffix of a sequence, element by element.
LEMMA Pieces ==
  ASSUME NEW S, NEW s \in Seq(S), NEW i \in 1..Len(s)
  PROVE  /\ SubSeq(s, 1, i - 1) \in Seq(S) /\ Len(SubSeq(s, 1, i - 1)) = i - 1
         /\ \A k \in 1..(i - 1) : SubSeq(s, 1, i - 1)[k] = s[k]
         /\ SubSeq(s, i, Len(s)) \in Seq(S) /\ Len(SubSeq(s, i, Len(s))) = Len(s) - i + 1
         /\ \A k \in 1..(Len(s) - i + 1) : SubSeq(s, i, Len(s))[k] = s[i + k - 1]
OBVIOUS

\* insertBefore's copy of the slices: what is where in the spliced sequence t.
Spliced(t, s, i, e) ==
  /\ Len(t) = Len(s) + 1
  /\ \A k \in 1..(i - 1) : t[k] = s[k]
  /\ t[i] = e
  /\ \A k \in i..Len(s) : t[k + 1] = s[k]

\* What insertBefore makes is such a sequence.
LEMMA Inserted ==
  ASSUME NEW S, NEW s \in Seq(S), NEW i \in 1..Len(s), NEW e \in S
  PROVE  InsertAt(s, i, e) \in Seq(S) /\ Spliced(InsertAt(s, i, e), s, i, e)
<1> DEFINE t == InsertAt(s, i, e)
<1> DEFINE a == SubSeq(s, 1, i - 1)
           b == SubSeq(s, i, Len(s))
<1>1. /\ a \in Seq(S) /\ Len(a) = i - 1
      /\ \A k \in 1..(i - 1) : a[k] = s[k]
      /\ b \in Seq(S) /\ Len(b) = Len(s) - i + 1
      /\ \A k \in 1..(Len(s) - i + 1) : b[k] = s[i + k - 1]
  BY Pieces
<1>2. t = (a \o <<e>>) \o b
  BY DEF InsertAt
<1> HIDE DEF a, b, t
<1> DEFINE c == a \o <<e>>
<1>3. /\ c \in Seq(S) /\ Len(c) = i
      /\ \A k \in 1..(i - 1) : c[k] = s[k]
      /\ c[i] = e
  BY <1>1
<1>4. t = c \o b
  BY <1>2
<1> HIDE DEF c
<1>5. t \in Seq(S) /\ Len(t) = Len(c) + Len(b)
  <2>1. c \in Seq(S) /\ b \in Seq(S)
    BY <1>1, <1>3
  <2>2. c \o b \in Seq(S) /\ Len(c \o b) = Len(c) + Len(b)
    BY <2>1, ConcatProperties
  <2> QED
    BY <2>2, <1>4, Zenon
<1>6. \A k \in 1..i : t[k] = c[k]
  BY <1>1, <1>3, <1>4
<1>7. \A k \in i..Len(s) : t[k + 1] = b[k + 1 - i]
  BY <1>1, <1>3, <1>4
<1>8. \A k \in i..Len(s) : b[k + 1 - i] = s[k]
  <2> TAKE k \in i..Len(s)
  <2>1. k + 1 - i \in 1..(Len(s) - i + 1) /\ i + (k + 1 - i) - 1 = k
    OBVIOUS
  <2> QED
    BY <1>1, <2>1
<1>9. Len(t) = Len(s) + 1
  BY <1>1, <1>3, <1>5
<1>10. \A k \in i..Len(s) : t[k + 1] = s[k]
  BY <1>7, <1>8
<1>11. t[i] = e
  BY <1>3, <1>6
<1>12. \A k \in 1..(i - 1) : t[k] = s[k]
  BY <1>3, <1>6
<1> QED
  BY <1>5, <1>9, <1>10, <1>11, <1>12 DEF Spliced, t

\* The splice keeps what is above what, and above the new plugin is what was
\* above the plugin it is placed before.
LEMMA GuardedKept ==
  ASSUME NEW s \in Seq(Directive), NEW i \in 1..Len(s), NEW e \in Directive, NEW S,
         Guarded(s, S), e \notin S \/ s[i] \in S
  PROVE  Guarded(InsertAt(s, i, e), S)
<1> DEFINE t == InsertAt(s, i, e)
<1>0. t \in Seq(Directive) /\ Spliced(t, s, i, e)
  BY Inserted
<1>1. /\ t \in Seq(Directive) /\ Len(t) = Len(s) + 1
      /\ \A k \in 1..(i - 1) : t[k] = s[k]
      /\ t[i] = e
      /\ \A k \in i..Len(s) : t[k + 1] = s[k]
  BY <1>0 DEF Spliced
<1> HIDE DEF t
<1> SUFFICES ASSUME NEW k \in DOMAIN t, t[k] \in S
             PROVE  \E j \in 1..(k - 1) : t[j] = "blocklist"
  BY DEF Guarded, t
<1>2. \A m \in 1..Len(s) : s[m] \in S => \E j \in 1..(m - 1) : s[j] = "blocklist"
  BY DEF Guarded
<1>3. \A m \in 1..Len(s) : s[m] \in S => \E j \in 1..m : t[j] = "blocklist" /\ (m <= i => j < m)
  <2> TAKE m \in 1..Len(s)
  <2> HAVE s[m] \in S
  <2>1. PICK j \in 1..(m - 1) : s[j] = "blocklist"
    BY <1>2
  <2>2. CASE j < i
    BY <2>1, <2>2, <1>1
  <2>3. CASE j >= i
    <3>1. t[j + 1] = "blocklist" /\ j + 1 \in 1..m /\ m > i
      BY <2>1, <2>3, <1>1
    <3> QED
      BY <3>1
  <2> QED
    BY <2>2, <2>3
<1>4. k \in 1..(Len(s) + 1)
  BY <1>1
<1>5. CASE k < i
  <2>1. k \in 1..Len(s) /\ t[k] = s[k] /\ s[k] \in S
    BY <1>1, <1>4, <1>5
  <2>2. PICK j \in 1..k : t[j] = "blocklist" /\ (k <= i => j < k)
    BY <2>1, <1>3
  <2> QED
    BY <2>2, <1>5, <1>4
<1>6. CASE k = i
  <2>1. k \in 1..Len(s) /\ s[k] \in S
    BY <1>1, <1>4, <1>6
  <2>2. PICK j \in 1..k : t[j] = "blocklist" /\ (k <= i => j < k)
    BY <2>1, <1>3
  <2> QED
    BY <2>2, <1>6, <1>4
<1>7. CASE k > i
  <2>1. k - 1 \in i..Len(s) /\ t[k] = s[k - 1] /\ s[k - 1] \in S
    BY <1>1, <1>4, <1>7
  <2> QED
    BY <2>1, <1>3
<1> QED
  BY <1>4, <1>5, <1>6, <1>7

\* The first insert: cache and forward end up below blocklist.
LEMMA BlocklistFirst ==
  ASSUME NEW s \in Seq(Directive), NEW i \in 1..Len(s), s[i] = "cache",
         \A k \in 1..(i - 1) : s[k] # "cache",
         \A k \in DOMAIN s : s[k] = "forward" => \E j \in 1..(k - 1) : s[j] = "cache"
  PROVE  Guarded(InsertAt(s, i, "blocklist"), {"cache", "forward"})
<1> DEFINE t == InsertAt(s, i, "blocklist")
<1>0. t \in Seq(Directive) /\ Spliced(t, s, i, "blocklist")
  <2>1. "blocklist" \in Directive
    BY DEF Directive
  <2> QED
    BY <2>1, Inserted
<1>1. /\ t \in Seq(Directive) /\ Len(t) = Len(s) + 1
      /\ \A k \in 1..(i - 1) : t[k] = s[k]
      /\ t[i] = "blocklist"
      /\ \A k \in i..Len(s) : t[k + 1] = s[k]
  BY <1>0 DEF Spliced
<1> HIDE DEF t
<1> SUFFICES ASSUME NEW k \in DOMAIN t, t[k] \in {"cache", "forward"}
             PROVE  \E j \in 1..(k - 1) : t[j] = "blocklist"
  BY DEF Guarded, t
<1>2. k \in 1..(Len(s) + 1) /\ k # i
  BY <1>1
<1>3. ~(k < i)
  <2> SUFFICES ASSUME k < i
               PROVE  FALSE
    OBVIOUS
  <2>1. s[k] = "forward" /\ k \in DOMAIN s
    BY <1>1, <1>2
  <2> QED
    BY <2>1, <1>2
<1> QED
  BY <1>1, <1>2, <1>3

-------------------------------------------------------------------------------
(***************************************************************************)
(* Steps, by what they leave alone.                                        *)
(***************************************************************************)
ParseStep == ReadHead \/ ReadLine \/ ReadBlockEnd \/ ReadSecondStanza \/ ReadConfigEnd

ServeStep ==
  \/ \E r \in Replicas : Refresh(r)
  \/ \E r \in Replicas, n \in Names : Expire(r, n)
  \/ \E q \in Queries : Walk(q)

\* parseConfig has no effect but on the draft, and on whether the server starts.
LEMMA ParseLeaves ==
  ASSUME ParseStep
  PROVE  /\ SettingUp /\ Current \in DOMAIN New
         /\ boot' \in {"setup", "failed"}
         /\ UNCHANGED <<step, directives, corefile, chain, serving>>
<1>1. \A d, s : Becomes(d, s) /\ boot = "setup" => boot' \in {"setup", "failed"}
  BY DEF Becomes
<1>2. CASE ReadHead
  BY <1>1, <1>2 DEF ReadHead, Parsing, SettingUp
<1>3. CASE ReadLine
  BY <1>1, <1>3 DEF ReadLine, Parsing, SettingUp
<1>4. CASE ReadBlockEnd
  BY <1>1, <1>4 DEF ReadBlockEnd, Parsing, SettingUp
<1>5. CASE ReadSecondStanza
  BY <1>1, <1>5 DEF ReadSecondStanza, Parsing, SettingUp
<1>6. CASE ReadConfigEnd
  BY <1>1, <1>6 DEF ReadConfigEnd, Parsing, SettingUp
<1> QED
  BY <1>2, <1>3, <1>4, <1>5, <1>6 DEF ParseStep

\* Once the server runs, its chain is fixed.
LEMMA ServeLeaves ==
  ASSUME ServeStep
  PROVE  UNCHANGED bootVars
<1>1. ASSUME NEW r \in Replicas, Refresh(r)
      PROVE  UNCHANGED bootVars
  BY <1>1 DEF Refresh
<1>2. ASSUME NEW r \in Replicas, NEW n \in Names, Expire(r, n)
      PROVE  UNCHANGED bootVars
  BY <1>2 DEF Expire
<1>3. ASSUME NEW q \in Queries, Walk(q)
      PROVE  UNCHANGED bootVars
  <2>1. CASE Arrive(q)
    BY <2>1 DEF Arrive
  <2>2. CASE Through(q)
    BY <2>2 DEF Through, Pass
  <2>3. CASE Blocklist(q)
    BY <2>3 DEF Blocklist, Pass
  <2>4. CASE Cache(q)
    BY <2>4 DEF Cache, Pass
  <2>5. CASE UpstreamLeg(q)
    BY <2>5 DEF UpstreamLeg, Pass
  <2>6. CASE \E p \in Replicas : PeerAnswers(q, p)
    BY <2>6 DEF PeerAnswers
  <2>7. CASE Forward(q)
    BY <2>7 DEF Forward
  <2> QED
    BY <1>3, <2>1, <2>2, <2>3, <2>4, <2>5, <2>6, <2>7 DEF Walk
<1> QED
  BY <1>1, <1>2, <1>3 DEF ServeStep

\* Every step is one of these.
LEMMA Steps ==
  ASSUME [Next]_vars
  PROVE  \/ Splice \/ Panic \/ ParseStep \/ SkipDirective \/ AddPlugin \/ StartServing
         \/ ServeStep
         \/ UNCHANGED vars
BY DEF Next, Boot, ParseStep, ServeStep

-------------------------------------------------------------------------------
(***************************************************************************)
(* The order of the directives.                                            *)
(***************************************************************************)
\* Each insert keeps what the earlier ones have seen to and adds its own.
LEMMA SpliceOrder ==
  ASSUME OrderInv, Splice
  PROVE  OrderInv'
<1> DEFINE anchor == Inserts[step][1]
           name == Inserts[step][2]
<1>1. /\ boot = "init" /\ step \in 1..4 /\ directives \in Seq(Directive)
      /\ step = 1 => directives \in Shipped
      /\ step > 1 => Guarded(directives, GuardedSoFar)
  BY DEF OrderInv, Splice
<1>2. /\ step = 1 => anchor = "cache" /\ name = "blocklist"
      /\ step = 2 => anchor = "kubernetes" /\ name = "k8s_gateway"
      /\ step = 3 => anchor = "forward" /\ name = "peercache"
      /\ step = 4 => anchor = "forward" /\ name = "race"
  BY DEF Inserts
<1>3. Len(Inserts) = 4
  BY DEF Inserts
<1>4. /\ CanInsert(anchor, name)
      /\ \E i \in DOMAIN directives : IsFirst(i, anchor) /\ directives' = InsertAt(directives, i, name)
      /\ IF step = 4 THEN boot' = "setup" /\ step' = 1 ELSE step' = step + 1 /\ boot' = boot
  BY <1>3 DEF Splice, insertBefore
<1>5. name \in Directive
  BY <1>1, <1>2 DEF Directive
<1> HIDE DEF anchor, name
<1>6. PICK i \in 1..Len(directives) :
        IsFirst(i, anchor) /\ directives' = InsertAt(directives, i, name)
  BY <1>1, <1>4
<1>7. directives[i] = anchor /\ \A j \in 1..(i - 1) : directives[j] # anchor
  BY <1>6 DEF IsFirst
<1>8. directives' \in Seq(Directive)
  BY <1>1, <1>5, <1>6, Inserted
<1>9. \A k \in DOMAIN directives : directives[k] # name
  BY <1>4 DEF CanInsert, ToSet
<1>10. ASSUME step = 1
       PROVE  Guarded(directives', {"cache", "forward"})
  <2>1. \A k \in DOMAIN directives : directives[k] = "forward" => \E j \in 1..(k - 1) : directives[j] = "cache"
    <3>1. "cache" \in ToSet(directives)
      BY <1>2, <1>4, <1>10 DEF CanInsert
    <3> QED
      BY <3>1, <1>1, <1>10, ShippedAssumption
  <2> QED
    BY <2>1, <1>1, <1>2, <1>6, <1>7, <1>10, BlocklistFirst
<1>11. ASSUME NEW T, Guarded(directives, T \ {name}), name \notin T \/ anchor \in T
       PROVE  Guarded(directives', T)
  <2>1. Guarded(directives, T)
    BY <1>9, <1>11 DEF Guarded
  <2>2. Guarded(InsertAt(directives, i, name), T)
    BY <1>1, <1>5, <1>7, <1>11, <2>1, GuardedKept
  <2> QED
    BY <2>2, <1>6
<1>12. CASE step = 1
  <2>1. GuardedSoFar' = {"cache", "forward"} /\ boot' = "init" /\ step' = 2
    BY <1>1, <1>4, <1>12 DEF GuardedSoFar
  <2> QED
    BY <2>1, <1>8, <1>10, <1>12 DEF OrderInv
<1>13. CASE step = 2
  <2>1. GuardedSoFar = {"cache", "forward"} /\ GuardedSoFar' = {"cache", "forward"} /\ boot' = "init" /\ step' = 3
    BY <1>1, <1>4, <1>13 DEF GuardedSoFar
  <2>2. Guarded(directives', {"cache", "forward"})
    <3>1. {"cache", "forward"} \ {name} = {"cache", "forward"} /\ name \notin {"cache", "forward"}
      BY <1>2, <1>13
    <3> QED
      BY <2>1, <3>1, <1>1, <1>11, <1>13
  <2> QED
    BY <2>1, <2>2, <1>8 DEF OrderInv
<1>14. CASE step = 3
  <2> DEFINE T == {"cache", "forward", "peercache"}
  <2>1. GuardedSoFar = {"cache", "forward"} /\ GuardedSoFar' = T /\ boot' = "init" /\ step' = 4
    BY <1>1, <1>4, <1>14 DEF GuardedSoFar
  <2>2. T \ {name} = {"cache", "forward"} /\ anchor \in T
    BY <1>2, <1>14
  <2>3. Guarded(directives', T)
    <3> HIDE DEF T
    <3> QED
      BY <2>1, <2>2, <1>1, <1>11, <1>14
  <2> QED
    BY <2>1, <2>3, <1>8 DEF OrderInv
<1>15. CASE step = 4
  <2>1. GuardedSoFar = {"cache", "forward", "peercache"} /\ GuardedSoFar' = Answering /\ boot' = "setup" /\ step' = 1
    BY <1>1, <1>4, <1>15 DEF GuardedSoFar
  <2>2. Answering \ {name} = {"cache", "forward", "peercache"} /\ anchor \in Answering
    BY <1>2, <1>15 DEF Answering
  <2>3. Guarded(directives', Answering)
    BY <2>1, <2>2, <1>1, <1>11, <1>15
  <2> QED
    BY <2>1, <2>3, <1>8 DEF OrderInv
<1> QED
  BY <1>1, <1>12, <1>13, <1>14, <1>15

\* The order stands from the last insert on.
LEMMA OrderKept ==
  ASSUME OrderInv, [Next]_vars
  PROVE  OrderInv'
<1>1. CASE Splice
  BY <1>1, SpliceOrder
<1>2. CASE Panic
  BY <1>2 DEF Panic, OrderInv
<1>3. CASE ParseStep
  <2>1. boot = "setup" /\ boot' \in {"setup", "failed"} /\ UNCHANGED <<step, directives>>
    BY <1>3, ParseLeaves DEF SettingUp
  <2> QED
    BY <2>1 DEF OrderInv, GuardedSoFar
<1>4. CASE SkipDirective \/ AddPlugin
  <2>1. boot = "setup" /\ boot' = boot /\ step' = step + 1 /\ directives' = directives
    BY <1>4 DEF SkipDirective, AddPlugin, SettingUp
  <2> QED
    BY <2>1 DEF OrderInv, GuardedSoFar
<1>5. CASE StartServing
  BY <1>5 DEF StartServing, OrderInv, GuardedSoFar
<1>6. CASE ServeStep \/ UNCHANGED vars
  <2>1. UNCHANGED <<boot, step, directives>>
    BY <1>6, ServeLeaves DEF bootVars, vars
  <2> QED
    BY <2>1 DEF OrderInv, GuardedSoFar
<1> QED
  BY <1>1, <1>2, <1>3, <1>4, <1>5, <1>6, Steps

-------------------------------------------------------------------------------
(***************************************************************************)
(* The chain: caddy keeps the order of the directives.                     *)
(***************************************************************************)
\* A plugin below a blocklist of the directives is added below it.
LEMMA ChainGrows ==
  ASSUME OrderInv, ChainInv, AddPlugin
  PROVE  ChainInv'
<1>1. /\ boot = "setup" /\ step \in Nat \ {0} /\ step <= Len(directives) /\ directives[step] \in corefile
      /\ chain' = Append(chain, directives[step])
      /\ step' = step + 1 /\ UNCHANGED <<boot, directives, corefile>>
  BY DEF AddPlugin, SettingUp, Current, OrderInv
<1>2. directives \in Seq(Directive) /\ Guarded(directives, Answering) /\ chain \in Seq(Directive)
  BY <1>1 DEF OrderInv, GuardedSoFar, ChainInv
<1>3. step \in DOMAIN directives /\ directives[step] \in Directive
  BY <1>1, <1>2
<1>4. /\ chain' \in Seq(Directive) /\ Len(chain') = Len(chain) + 1
      /\ \A k \in 1..Len(chain) : chain'[k] = chain[k]
      /\ chain'[Len(chain) + 1] = directives[step]
  BY <1>1, <1>2, <1>3
<1>5. ASSUME "blocklist" \in corefile
      PROVE  \A j \in DOMAIN directives :
               j < step + 1 /\ directives[j] = "blocklist" => \E k \in DOMAIN chain' : chain'[k] = "blocklist"
  <2> TAKE j \in DOMAIN directives
  <2> HAVE j < step + 1 /\ directives[j] = "blocklist"
  <2>1. CASE j = step
    <3>1. Len(chain) + 1 \in DOMAIN chain' /\ chain'[Len(chain) + 1] = "blocklist"
      BY <2>1, <1>2, <1>4
    <3> QED
      BY <3>1
  <2>2. CASE j < step
    <3>1. PICK k \in DOMAIN chain : chain[k] = "blocklist"
      BY <1>1, <1>5, <2>2 DEF ChainInv
    <3>2. k \in 1..Len(chain) /\ k \in DOMAIN chain'
      BY <3>1, <1>2, <1>4
    <3> QED
      BY <3>1, <3>2, <1>4
  <2>3. j \in Int
    BY <1>2
  <2> QED
    BY <1>1, <2>1, <2>2, <2>3
<1>6. ASSUME "blocklist" \in corefile
      PROVE  Guarded(chain', Answering)
  <2> SUFFICES ASSUME NEW i \in DOMAIN chain', chain'[i] \in Answering
               PROVE  \E j \in 1..(i - 1) : chain'[j] = "blocklist"
    BY DEF Guarded
  <2>1. i \in 1..(Len(chain) + 1) /\ Len(chain) \in Nat
    BY <1>2, <1>4
  <2>2. CASE i <= Len(chain)
    <3>1. i \in DOMAIN chain /\ chain[i] \in Answering
      BY <2>1, <2>2, <1>2, <1>4
    <3>2. PICK j \in 1..(i - 1) : chain[j] = "blocklist"
      BY <3>1, <1>6 DEF ChainInv, Guarded
    <3>3. j \in 1..Len(chain)
      BY <2>1, <2>2
    <3> QED
      BY <3>2, <3>3, <1>4
  <2>3. CASE i = Len(chain) + 1
    <3>1. PICK m \in 1..(step - 1) : directives[m] = "blocklist"
      BY <2>3, <1>2, <1>3, <1>4 DEF Guarded
    <3>2. m \in DOMAIN directives /\ m < step
      BY <3>1, <1>1, <1>2
    <3>3. PICK k \in DOMAIN chain : chain[k] = "blocklist"
      BY <3>1, <3>2, <1>1, <1>6 DEF ChainInv
    <3>4. k \in 1..Len(chain)
      BY <3>3, <1>2
    <3> QED
      BY <2>3, <3>3, <3>4, <1>4
  <2> QED
    BY <2>1, <2>2, <2>3
<1> QED
  BY <1>1, <1>4, <1>5, <1>6 DEF ChainInv

\* No other step adds to the chain.
LEMMA ChainKept ==
  ASSUME OrderInv, ChainInv, [Next]_vars
  PROVE  ChainInv'
<1>1. CASE Splice
  <2>1. /\ boot = "init" /\ UNCHANGED <<corefile, chain>>
        /\ boot' = "init" \/ (boot' = "setup" /\ step' = 1)
    BY <1>1 DEF Splice, insertBefore
  <2>2. chain' = <<>> /\ chain' \in Seq(Directive)
    BY <2>1 DEF ChainInv
  <2>3. Guarded(chain', Answering)
    BY <2>2 DEF Guarded
  <2>4. directives' \in Seq(Directive)
    BY <1>1, SpliceOrder DEF OrderInv
  <2>5. \A j \in DOMAIN directives' : ~(j < 1)
    BY <2>4
  <2> QED
    BY <2>1, <2>2, <2>3, <2>5 DEF ChainInv
<1>2. CASE Panic
  BY <1>2 DEF Panic, ChainInv
<1>3. CASE ParseStep
  <2>1. boot = "setup" /\ boot' \in {"setup", "failed"} /\ UNCHANGED <<step, directives, corefile, chain>>
    BY <1>3, ParseLeaves DEF SettingUp
  <2> QED
    BY <2>1 DEF ChainInv
<1>4. CASE SkipDirective
  <2>1. /\ boot = "setup" /\ step' = step + 1 /\ directives[step] \notin corefile
        /\ UNCHANGED <<boot, directives, corefile, chain>>
    BY <1>4 DEF SkipDirective, Current
  <2>2. step \in Nat /\ directives \in Seq(Directive)
    BY DEF OrderInv
  <2>3. \A j \in DOMAIN directives : j < step + 1 => j < step \/ j = step
    BY <2>2
  <2> QED
    BY <2>1, <2>3 DEF ChainInv
<1>5. CASE AddPlugin
  BY <1>5, ChainGrows
<1>6. CASE StartServing
  BY <1>6 DEF StartServing, ChainInv
<1>7. CASE ServeStep \/ UNCHANGED vars
  <2>1. UNCHANGED <<boot, step, directives, corefile, chain>>
    BY <1>7, ServeLeaves DEF bootVars, vars
  <2> QED
    BY <2>1 DEF ChainInv
<1> QED
  BY <1>1, <1>2, <1>3, <1>4, <1>5, <1>6, <1>7, Steps

-------------------------------------------------------------------------------
(***************************************************************************)
(* The drafts: what parseConfig keeps of a configuration at every token.   *)
(***************************************************************************)
\* The arguments of a line are a sequence of words.
LEMMA ArgsAreWords ==
  ASSUME NEW args \in ArgLists
  PROVE  args \in Seq(Words)
<1>1. PICK n \in 0..MaxArgs : args \in [1..n -> Words]
  BY DEF ArgLists
<1> QED
  BY <1>1, BoundsAssumption

\* durationArg lets no error and no zero pass.
LEMMA DurationArgs ==
  ASSUME NEW args \in Seq(Words), durationArg(args)
  PROVE  duration[args[1]] \in Int /\ duration[args[1]] > 0
<1>1. Len(args) = 1 /\ duration[args[1]] > 0
  BY DEF durationArg
<1>2. 1 \in 1..Len(args)
  BY <1>1
<1>3. args[1] \in Words
  BY <1>2
<1> QED
  BY <1>1, <1>3, WordsAssumption

\* No line of a blocklist block takes a number out of its range.
LEMMA BlocklistLines ==
  ASSUME NEW d, BlocklistDraft(d), NEW prop, NEW args \in Seq(Words)
  PROVE  blocklistLine(d, prop, args) = Rejected \/ BlocklistDraft(blocklistLine(d, prop, args))
<1>1. /\ d \in [ok : BOOLEAN, urls : Nat, allow : Nat, bootstrap : Nat, refresh : Int, readyTimeout : Int]
      /\ d.refresh >= Minute /\ d.readyTimeout > 0
  BY DEF BlocklistDraft
<1>2. Len(args) \in Nat
  OBVIOUS
<1>3. durationArg(args) => duration[args[1]] \in Int /\ duration[args[1]] > 0
  BY DurationArgs
<1>4. CASE prop = "url"
  <2>1. BlocklistDraft([d EXCEPT !.urls = @ + Len(args)])
    BY <1>1, <1>2 DEF BlocklistDraft
  <2> QED
    BY <1>4, <2>1 DEF blocklistLine, Require
<1>5. CASE prop = "allow"
  <2>1. BlocklistDraft([d EXCEPT !.allow = @ + Len(args)])
    BY <1>1, <1>2 DEF BlocklistDraft
  <2> QED
    BY <1>5, <2>1 DEF blocklistLine, Require
<1>6. CASE prop = "bootstrap_dns"
  <2>1. BlocklistDraft([d EXCEPT !.bootstrap = @ + Len(args)])
    BY <1>1, <1>2 DEF BlocklistDraft
  <2> QED
    BY <1>6, <2>1 DEF blocklistLine, Require
<1>7. CASE prop = "refresh"
  <2>1. ASSUME durationArg(args), duration[args[1]] >= Minute
        PROVE  BlocklistDraft([d EXCEPT !.refresh = duration[args[1]]])
    BY <1>1, <1>3, <2>1 DEF BlocklistDraft
  <2> QED
    BY <1>7, <2>1 DEF blocklistLine, Require
<1>8. CASE prop = "ready_timeout"
  <2>1. ASSUME durationArg(args)
        PROVE  BlocklistDraft([d EXCEPT !.readyTimeout = duration[args[1]]])
    BY <1>1, <1>3, <2>1 DEF BlocklistDraft
  <2> QED
    BY <1>8, <2>1 DEF blocklistLine, Require
<1>9. CASE prop \notin {"url", "allow", "bootstrap_dns", "refresh", "ready_timeout"}
  BY <1>9 DEF blocklistLine
<1> QED
  BY <1>4, <1>5, <1>6, <1>7, <1>8, <1>9

\* The end of a blocklist: a URL, and the default servers where none are given.
LEMMA BlocklistEnds ==
  ASSUME NEW d, BlocklistDraft(d)
  PROVE  \/ blocklistEnd(d) = Rejected
         \/ BlocklistDraft(blocklistEnd(d)) /\ blocklistEnd(d).urls > 0 /\ blocklistEnd(d).bootstrap > 0
<1>1. /\ d \in [ok : BOOLEAN, urls : Nat, allow : Nat, bootstrap : Nat, refresh : Int, readyTimeout : Int]
      /\ d.refresh >= Minute /\ d.readyTimeout > 0
  BY DEF BlocklistDraft
<1> DEFINE e == [d EXCEPT !.bootstrap = IF @ = 0 THEN 2 ELSE @]
<1>2. BlocklistDraft(e) /\ e.urls = d.urls /\ e.bootstrap > 0
  BY <1>1 DEF BlocklistDraft
<1>3. blocklistEnd(d) = Rejected \/ (d.urls > 0 /\ blocklistEnd(d) = e)
  BY DEF blocklistEnd, Require
<1> HIDE DEF e
<1> QED
  BY <1>2, <1>3

\* No line of a peercache block leaves a port that cannot be bound.
LEMMA PeerCacheLines ==
  ASSUME NEW d, PeerCacheDraft(d), NEW prop, NEW args
  PROVE  peercacheLine(d, prop, args) = Rejected \/ PeerCacheDraft(peercacheLine(d, prop, args))
<1>1. d \in [ok : BOOLEAN, selector : Words \cup {""}, port : 1..maxPort]
  BY DEF PeerCacheDraft
<1>2. CASE prop = "selector"
  <2>1. ASSUME args[1] \in ValidSelectors
        PROVE  PeerCacheDraft([d EXCEPT !.selector = args[1]])
    BY <1>1, <2>1, WordsAssumption DEF PeerCacheDraft
  <2> QED
    BY <1>2, <2>1 DEF peercacheLine, Require
<1>3. CASE prop = "port"
  <2>1. ASSUME number[args[1]] \in 1..maxPort
        PROVE  PeerCacheDraft([d EXCEPT !.port = number[args[1]]])
    BY <1>1, <2>1 DEF PeerCacheDraft
  <2> QED
    BY <1>3, <2>1 DEF peercacheLine, Require
<1>4. CASE prop \notin {"selector", "port"}
  BY <1>4 DEF peercacheLine
<1> QED
  BY <1>2, <1>3, <1>4

\* A race draft with one field replaced.
LEMMA RaceUpdates ==
  ASSUME NEW d, NEW x,
         d = [ok |-> d.ok, to |-> d.to, tlsServerName |-> d.tlsServerName, expire |-> d.expire, proxies |-> d.proxies]
  PROVE  /\ [d EXCEPT !.to = x] =
              [ok |-> d.ok, to |-> x, tlsServerName |-> d.tlsServerName, expire |-> d.expire, proxies |-> d.proxies]
         /\ [d EXCEPT !.tlsServerName = x] =
              [ok |-> d.ok, to |-> d.to, tlsServerName |-> x, expire |-> d.expire, proxies |-> d.proxies]
         /\ [d EXCEPT !.expire = x] =
              [ok |-> d.ok, to |-> d.to, tlsServerName |-> d.tlsServerName, expire |-> x, proxies |-> d.proxies]
OBVIOUS

\* The head of a race stanza names two addresses or more; no proxy is built yet.
LEMMA RaceHeads ==
  ASSUME NEW args \in Seq(Words)
  PROVE  raceHead(newRace, args) = Rejected \/ RaceDraft(raceHead(newRace, args), "block")
<1>1. ASSUME Len(args) >= 3
      PROVE  Tail(args) \in Seq(Words) /\ Len(Tail(args)) >= 2
  BY <1>1
<1> DEFINE d == newRace
           e == [newRace EXCEPT !.to = Tail(args)]
<1>2. /\ d = [ok |-> d.ok, to |-> d.to, tlsServerName |-> d.tlsServerName, expire |-> d.expire, proxies |-> d.proxies]
      /\ d.expire = 10 /\ d.proxies = {}
  BY DEF newRace
<1>3. e = [ok |-> d.ok, to |-> Tail(args), tlsServerName |-> d.tlsServerName, expire |-> d.expire, proxies |-> d.proxies]
  BY <1>2, RaceUpdates
<1>4. raceHead(d, args) = Rejected \/ (Len(args) >= 3 /\ raceHead(d, args) = e)
  BY DEF raceHead, Require
<1> HIDE DEF d, e
<1>5. ASSUME Len(args) >= 3
      PROVE  RaceDraft(e, "block")
  <2>1. Tail(args) \in Seq(Words) /\ Len(Tail(args)) >= 2
    BY <1>1, <1>5
  <2> DEFINE tail == Tail(args)
  <2>2. /\ e = [ok |-> d.ok, to |-> tail, tlsServerName |-> d.tlsServerName, expire |-> d.expire, proxies |-> d.proxies]
        /\ tail \in Seq(Words) /\ Len(tail) >= 2
    BY <1>3, <2>1
  <2> HIDE DEF tail
  <2>3. /\ e.ok = d.ok /\ e.to = tail /\ e.tlsServerName = d.tlsServerName
        /\ e.expire = d.expire /\ e.proxies = d.proxies
    BY <2>2
  <2> QED
    BY <1>2, <2>2, <2>3 DEF RaceDraft
<1> QED
  BY <1>4, <1>5 DEF d

\* The block changes the server name and the expiry, and builds no proxy.
LEMMA RaceLines ==
  ASSUME NEW d, RaceDraft(d, "block"), NEW prop, NEW args \in Seq(Words)
  PROVE  raceLine(d, prop, args) = Rejected \/ RaceDraft(raceLine(d, prop, args), "block")
<1>1. /\ d = [ok |-> d.ok, to |-> d.to, tlsServerName |-> d.tlsServerName, expire |-> d.expire, proxies |-> d.proxies]
      /\ d.to \in Seq(Words) /\ Len(d.to) >= 2
      /\ d.expire \in Int /\ d.expire > 0
      /\ d.proxies = {}
  BY DEF RaceDraft
<1>2. CASE prop = "tls_servername"
  <2> DEFINE e == [d EXCEPT !.tlsServerName = args[1]]
  <2>1. e = [ok |-> d.ok, to |-> d.to, tlsServerName |-> args[1], expire |-> d.expire, proxies |-> d.proxies]
    BY <1>1, RaceUpdates
  <2>2. raceLine(d, prop, args) = Rejected \/ raceLine(d, prop, args) = e
    BY <1>2 DEF raceLine, Require
  <2> HIDE DEF e
  <2>3. RaceDraft(e, "block")
    BY <1>1, <2>1 DEF RaceDraft
  <2> QED
    BY <2>2, <2>3
<1>3. CASE prop = "expire"
  <2> DEFINE e == [d EXCEPT !.expire = duration[args[1]]]
  <2>1. e = [ok |-> d.ok, to |-> d.to, tlsServerName |-> d.tlsServerName, expire |-> duration[args[1]],
             proxies |-> d.proxies]
    BY <1>1, RaceUpdates
  <2>2. raceLine(d, prop, args) = Rejected \/ (durationArg(args) /\ raceLine(d, prop, args) = e)
    BY <1>3 DEF raceLine, Require
  <2> HIDE DEF e
  <2>3. ASSUME durationArg(args)
        PROVE  RaceDraft(e, "block")
    BY <1>1, <2>1, <2>3, DurationArgs DEF RaceDraft
  <2> QED
    BY <2>2, <2>3
<1>4. CASE prop \notin {"tls_servername", "expire"}
  BY <1>4 DEF raceLine
<1> QED
  BY <1>2, <1>3, <1>4

\* The end of the block: a proxy at least, all of them of a transport there is
\* and built with the block's last word.
LEMMA RaceEnds ==
  ASSUME NEW d, RaceDraft(d, "block"), NEW s, s # "block"
  PROVE  addUpstreams(d) = Rejected \/ RaceDraft(addUpstreams(d), s)
<1>1. /\ d = [ok |-> d.ok, to |-> d.to, tlsServerName |-> d.tlsServerName, expire |-> d.expire, proxies |-> d.proxies]
      /\ d.to \in Seq(Words) /\ Len(d.to) >= 2
      /\ d.expire \in Int /\ d.expire > 0
      /\ d.proxies = {}
  BY DEF RaceDraft
<1> DEFINE p == UNION {legs(d, k) : k \in DOMAIN d.to}
           built == HostPortOrFile(d.to) /\ \A k \in DOMAIN d.to : "other" \notin WordsOf(hosts[d.to[k]])
           e == [d EXCEPT !.proxies = @ \cup p]
<1>2. e = [ok |-> d.ok, to |-> d.to, tlsServerName |-> d.tlsServerName, expire |-> d.expire, proxies |-> p]
  <2> HIDE DEF p
  <2> QED
    BY <1>1
<1>3. addUpstreams(d) = Rejected \/ (built /\ addUpstreams(d) = e)
  BY DEF addUpstreams, Require
<1>4. ASSUME NEW k \in DOMAIN d.to, NEW x \in legs(d, k)
      PROVE  x.serverName = d.tlsServerName /\ x.expire = d.expire
  BY DEF legs
<1>5. ASSUME built
      PROVE  p # {}
  <2>1. PICK k \in DOMAIN d.to : hosts[d.to[k]] # <<>>
    BY <1>5 DEF HostPortOrFile
  <2>2. hosts[d.to[k]] \in Seq({"dns", "tls", "other"})
    BY <1>1, WordsAssumption
  <2>3. 1 \in DOMAIN hosts[d.to[k]]
    BY <2>1, <2>2
  <2>4. legs(d, k) # {}
    BY <2>3 DEF legs
  <2> QED
    BY <2>4
<1>6. ASSUME built, NEW x \in p
      PROVE  x.transport # "other"
  <2>1. PICK k \in DOMAIN d.to : x \in legs(d, k)
    BY <1>6
  <2>2. PICK j \in DOMAIN hosts[d.to[k]] : x.transport = hosts[d.to[k]][j]
    BY <2>1 DEF legs
  <2>3. "other" \notin WordsOf(hosts[d.to[k]])
    BY <1>6
  <2> QED
    BY <2>2, <2>3 DEF WordsOf
<1>7. \A x \in p : x.serverName = d.tlsServerName /\ x.expire = d.expire
  BY <1>4
<1> HIDE DEF p, e, built
<1>8. ASSUME built
      PROVE  RaceDraft(e, s)
  BY <1>1, <1>2, <1>5, <1>6, <1>7, <1>8 DEF RaceDraft
<1> QED
  BY <1>3, <1>8

\* Each of parseConfig's steps gives an error or a draft in order.
LEMMA DraftSteps ==
  ASSUME NEW plugin \in {"blocklist", "race", "peercache"}, NEW d, NEW prop, NEW args \in Seq(Words)
  PROVE  /\ \/ StanzaHead(plugin, New[plugin], args) = Rejected
            \/ Draft(plugin, StanzaHead(plugin, New[plugin], args), "block")
         /\ Draft(plugin, d, "block") =>
              \/ BlockLine(plugin, d, prop, args) = Rejected
              \/ Draft(plugin, BlockLine(plugin, d, prop, args), "block")
         /\ Draft(plugin, d, "block") =>
              \/ BlockEnd(plugin, d) = Rejected
              \/ Draft(plugin, BlockEnd(plugin, d), "ended")
         /\ Draft(plugin, d, "ended") =>
              \/ ConfigEnd(plugin, d) = Rejected
              \/ Draft(plugin, ConfigEnd(plugin, d), "accepted")
<1>1. CASE plugin = "blocklist"
  <2>1. BlocklistDraft(newBlocklist)
    BY DEF BlocklistDraft, newBlocklist, Minute
  <2>2. StanzaHead(plugin, New[plugin], args) \in {Rejected, newBlocklist}
    BY <1>1 DEF StanzaHead, New, Require
  <2>3. /\ BlockLine(plugin, d, prop, args) = blocklistLine(d, prop, args)
        /\ BlockEnd(plugin, d) = d
        /\ ConfigEnd(plugin, d) = blocklistEnd(d)
    BY <1>1 DEF BlockLine, BlockEnd, ConfigEnd
  <2>4. /\ \A e : Draft(plugin, e, "block") <=> BlocklistDraft(e)
        /\ \A e : Draft(plugin, e, "ended") <=> BlocklistDraft(e)
        /\ \A e : Draft(plugin, e, "accepted") <=> BlocklistDraft(e) /\ e.urls > 0 /\ e.bootstrap > 0
    BY <1>1 DEF Draft
  <2>5. StanzaHead(plugin, New[plugin], args) = Rejected \/ Draft(plugin, StanzaHead(plugin, New[plugin], args), "block")
    BY <2>1, <2>2, <2>4
  <2> QED
    BY <2>3, <2>4, <2>5, BlocklistLines, BlocklistEnds
<1>2. CASE plugin = "race"
  <2>1. StanzaHead(plugin, New[plugin], args) = raceHead(newRace, args)
    BY <1>2 DEF StanzaHead, New
  <2>2. /\ BlockLine(plugin, d, prop, args) = raceLine(d, prop, args)
        /\ BlockEnd(plugin, d) = addUpstreams(d)
        /\ ConfigEnd(plugin, d) = d
    BY <1>2 DEF BlockLine, BlockEnd, ConfigEnd
  <2>3. \A e, s : Draft(plugin, e, s) <=> RaceDraft(e, s)
    BY <1>2 DEF Draft
  <2>4. RaceDraft(d, "ended") => RaceDraft(d, "accepted")
    BY DEF RaceDraft
  <2>5. RaceDraft(d, "block") => addUpstreams(d) = Rejected \/ RaceDraft(addUpstreams(d), "ended")
    BY RaceEnds
  <2> QED
    BY <2>1, <2>2, <2>3, <2>4, <2>5, RaceHeads, RaceLines
<1>3. CASE plugin = "peercache"
  <2>1. PeerCacheDraft(newPeerCache)
    BY DEF PeerCacheDraft, newPeerCache, maxPort
  <2>2. StanzaHead(plugin, New[plugin], args) \in {Rejected, newPeerCache}
    BY <1>3 DEF StanzaHead, New, Require
  <2>3. /\ BlockLine(plugin, d, prop, args) = peercacheLine(d, prop, args)
        /\ BlockEnd(plugin, d) = d
        /\ ConfigEnd(plugin, d) = peercacheEnd(d)
    BY <1>3 DEF BlockLine, BlockEnd, ConfigEnd
  <2>4. /\ \A e : Draft(plugin, e, "block") <=> PeerCacheDraft(e)
        /\ \A e : Draft(plugin, e, "ended") <=> PeerCacheDraft(e)
        /\ \A e : Draft(plugin, e, "accepted") <=> PeerCacheDraft(e) /\ e.selector # ""
    BY <1>3 DEF Draft
  <2>5. peercacheEnd(d) = Rejected \/ (peercacheEnd(d) = d /\ d.selector # "")
    BY DEF peercacheEnd, Require
  <2>6. StanzaHead(plugin, New[plugin], args) = Rejected \/ Draft(plugin, StanzaHead(plugin, New[plugin], args), "block")
    BY <2>1, <2>2, <2>4
  <2> QED
    BY <2>3, <2>4, <2>5, <2>6, PeerCacheLines
<1> QED
  BY <1>1, <1>2, <1>3

\* A draft is taken over, or it is an error and the server does not start.
LEMMA TakenOver ==
  ASSUME SettingUp, Current \in DOMAIN New, UNCHANGED <<step, directives, corefile>>,
         NEW d, NEW s \in {"block", "ended", "accepted"}, Becomes(d, s),
         d = Rejected \/ Draft(Current, d, s)
  PROVE  DraftInv'
<1>1. /\ draft' = d /\ stage' = s /\ boot = "setup"
      /\ d = Rejected => boot' = "failed"
      /\ boot' \in {"setup", "failed"}
  BY DEF Becomes, Rejected, SettingUp
<1>2. boot' = "setup" => SettingUp' /\ Current' = Current
  BY DEF SettingUp, Current
<1>3. boot' = "setup" => Draft(Current', draft', stage')
  BY <1>1, <1>2
<1>4. (DOMAIN New)' = DOMAIN New
  BY DEF New, newBlocklist, newRace, newPeerCache
<1> QED
  BY <1>1, <1>2, <1>3, <1>4 DEF DraftInv

\* parseConfig, one token at a time.
LEMMA ParseKept ==
  ASSUME DraftInv, ParseStep
  PROVE  DraftInv'
<1>1. SettingUp /\ Current \in DOMAIN New /\ UNCHANGED <<step, directives, corefile>>
  BY ParseLeaves
<1>2. Current \in {"blocklist", "race", "peercache"}
  BY <1>1 DEF New
<1>3. stage # "start" => Draft(Current, draft, stage)
  BY <1>1 DEF DraftInv, SettingUp
<1>4. CASE ReadHead
  <2>1. PICK args \in ArgLists : Becomes(StanzaHead(Current, New[Current], args), "block")
    BY <1>4 DEF ReadHead
  <2>2. args \in Seq(Words)
    BY ArgsAreWords
  <2>3. StanzaHead(Current, New[Current], args) = Rejected \/ Draft(Current, StanzaHead(Current, New[Current], args), "block")
    BY <1>2, <2>2, DraftSteps
  <2> QED
    BY <1>1, <2>1, <2>3, TakenOver
<1>5. CASE ReadLine
  <2>1. PICK prop \in Properties, args \in ArgLists : Becomes(BlockLine(Current, draft, prop, args), "block")
    BY <1>5 DEF ReadLine
  <2>2. args \in Seq(Words)
    BY ArgsAreWords
  <2>3. Draft(Current, draft, "block")
    BY <1>3, <1>5 DEF ReadLine, Parsing
  <2>4. BlockLine(Current, draft, prop, args) = Rejected \/ Draft(Current, BlockLine(Current, draft, prop, args), "block")
    BY <1>2, <2>2, <2>3, DraftSteps
  <2> QED
    BY <1>1, <2>1, <2>4, TakenOver
<1>6. CASE ReadBlockEnd
  <2>1. Becomes(BlockEnd(Current, draft), "ended") /\ Draft(Current, draft, "block")
    BY <1>3, <1>6 DEF ReadBlockEnd, Parsing
  <2>2. BlockEnd(Current, draft) = Rejected \/ Draft(Current, BlockEnd(Current, draft), "ended")
    <3>1. <<>> \in Seq(Words)
      OBVIOUS
    <3> QED
      BY <1>2, <2>1, <3>1, DraftSteps
  <2> QED
    BY <1>1, <2>1, <2>2, TakenOver
<1>7. CASE ReadSecondStanza
  <2>1. Becomes(Rejected, "ended")
    BY <1>7 DEF ReadSecondStanza
  <2> QED
    BY <1>1, <2>1, TakenOver
<1>8. CASE ReadConfigEnd
  <2>1. Becomes(ConfigEnd(Current, draft), "accepted") /\ Draft(Current, draft, "ended")
    BY <1>3, <1>8 DEF ReadConfigEnd, Parsing
  <2>2. ConfigEnd(Current, draft) = Rejected \/ Draft(Current, ConfigEnd(Current, draft), "accepted")
    <3>1. <<>> \in Seq(Words)
      OBVIOUS
    <3> QED
      BY <1>2, <2>1, <3>1, DraftSteps
  <2> QED
    BY <1>1, <2>1, <2>2, TakenOver
<1> QED
  BY <1>4, <1>5, <1>6, <1>7, <1>8 DEF ParseStep

\* No other step touches a draft but to start the next one.
LEMMA DraftKept ==
  ASSUME DraftInv, [Next]_vars
  PROVE  DraftInv'
<1>1. CASE Splice \/ Panic
  <2>1. boot = "init" /\ stage' = stage
    BY <1>1 DEF Splice, Panic, parsing
  <2>2. stage' = "start"
    BY <2>1 DEF DraftInv
  <2> QED
    BY <2>2 DEF DraftInv
<1>2. CASE ParseStep
  BY <1>2, ParseKept
<1>3. CASE SkipDirective
  <2>1. boot = "setup" /\ ~SettingUp /\ stage' = stage
    BY <1>3 DEF SkipDirective, SettingUp, parsing
  <2>2. stage' = "start"
    BY <2>1 DEF DraftInv
  <2> QED
    BY <2>2 DEF DraftInv
<1>4. CASE AddPlugin
  BY <1>4 DEF AddPlugin, DraftInv
<1>5. CASE StartServing
  BY <1>5 DEF StartServing, parsing, DraftInv
<1>6. CASE ServeStep \/ UNCHANGED vars
  <2>1. UNCHANGED <<boot, step, directives, corefile, stage, draft>>
    BY <1>6, ServeLeaves DEF bootVars, vars
  <2>2. UNCHANGED <<SettingUp, Current>> /\ (DOMAIN New)' = DOMAIN New
    BY <2>1 DEF SettingUp, Current, New, newBlocklist, newRace, newPeerCache
  <2> QED
    BY <2>1, <2>2 DEF DraftInv
<1> QED
  BY <1>1, <1>2, <1>3, <1>4, <1>5, <1>6, Steps

-------------------------------------------------------------------------------
(***************************************************************************)
(* Serving.                                                                *)
(***************************************************************************)
\* A query that has come to a plugin that answers has passed a list that did
\* not block its name, or there is no blocklist in the chain.
LEMMA AnsweredIsClear ==
  ASSUME ChainInv, ServeInv, NEW q \in Queries,
         pos[q] \in DOMAIN chain, chain[pos[q]] \in Answering
  PROVE  clear[q]
<1>1. chain \in Seq(Directive) /\ pos[q] \in Nat /\ WalkInv(q)
  BY DEF ChainInv, ServeInv
<1>2. pos[q] \in 1..Len(chain)
  BY <1>1
<1>3. CASE "blocklist" \in corefile
  <2>1. PICK j \in 1..(pos[q] - 1) : chain[j] = "blocklist"
    BY <1>3 DEF ChainInv, Guarded
  <2>2. j \in DOMAIN chain /\ j < pos[q] /\ pos[q] > 0
    BY <1>1, <1>2
  <2> QED
    BY <1>1, <2>1, <2>2 DEF WalkInv
<1>4. CASE "blocklist" \notin corefile
  <2>1. query[q].at \in Replicas
    BY DEF ServeInv
  <2>2. ~blocked(query[q].at, query[q].name)
    BY <1>4, <2>1 DEF ServeInv, blocked
  <2> QED
    BY <1>1, <1>2, <2>2 DEF WalkInv
<1> QED
  BY <1>3, <1>4

\* Queries walk the chain apart from each other.
LEMMA OthersKept ==
  ASSUME ServeInv, NEW q \in Queries, NEW o \in Queries, o # q,
         UNCHANGED <<boot, chain, list, query>>,
         pos'[o] = pos[o], clear'[o] = clear[o], upstream'[o] = upstream[o], reply'[o] = reply[o]
  PROVE  WalkInv(o)'
<1>1. WalkInv(o)
  BY DEF ServeInv
<1>2. blocked(query[o].at, query[o].name)' <=> blocked(query[o].at, query[o].name)
  BY DEF blocked
<1> QED
  BY <1>1, <1>2 DEF WalkInv

\* On to the next plugin: from any but blocklist, or from blocklist with the name clear.
LEMMA PassKept ==
  ASSUME ChainInv, ServeInv, NEW q \in Queries, pos[q] \in DOMAIN chain, Pass(q),
         chain[pos[q]] # "blocklist" \/ clear[q]
  PROVE  ServeInv'
<1>1. /\ UNCHANGED <<boot, chain, corefile, list, query, clear, upstream, reply>>
      /\ pos' = [pos EXCEPT ![q] = @ + 1]
  BY DEF Pass, bootVars
<1>2. pos \in [Queries -> Nat] /\ chain \in Seq(Directive) /\ WalkInv(q)
  BY DEF ServeInv, ChainInv
<1>3. pos' \in [Queries -> Nat] /\ pos'[q] = pos[q] + 1 /\ pos[q] > 0
  BY <1>1, <1>2
<1>4. boot = "serving"
  BY <1>2, <1>3 DEF WalkInv
<1>5. \A i \in DOMAIN chain : i < pos[q] + 1 => i < pos[q] \/ i = pos[q]
  BY <1>2
<1>6. WalkInv(q)'
  <2>1. blocked(query[q].at, query[q].name)' <=> blocked(query[q].at, query[q].name)
    BY <1>1 DEF blocked
  <2> QED
    BY <1>1, <1>2, <1>3, <1>4, <1>5, <2>1 DEF WalkInv
<1>7. ASSUME NEW o \in Queries, o # q
      PROVE  WalkInv(o)'
  <2>1. pos'[o] = pos[o]
    BY <1>1, <1>2, <1>7
  <2> QED
    BY <1>1, <1>7, <2>1, OthersKept
<1>8. \A o \in Queries : WalkInv(o)'
  BY <1>6, <1>7
<1> QED
  BY <1>1, <1>3, <1>8 DEF ServeInv

\* A reply, which is an answer of a plugin or follows a query upstream only
\* where the name is clear.
LEMMA ReplyKept ==
  ASSUME ServeInv, NEW q \in Queries, NEW r, Reply(q, r), r # NoReply,
         UNCHANGED <<boot, chain, corefile, list, query, clear>>,
         NEW u \in BOOLEAN, upstream' = [upstream EXCEPT ![q] = u],
         r.how = "answer" \/ u => clear[q]
  PROVE  ServeInv'
<1>1. pos' = [pos EXCEPT ![q] = 0] /\ reply' = [reply EXCEPT ![q] = r]
  BY DEF Reply
<1>2. /\ pos \in [Queries -> Nat] /\ upstream \in [Queries -> BOOLEAN]
      /\ reply = [o \in Queries |-> reply[o]]
  BY DEF ServeInv
<1>3. pos' \in [Queries -> Nat] /\ pos'[q] = 0 /\ \A o \in Queries : o # q => pos'[o] = pos[o]
  BY <1>1, <1>2
<1>4. upstream' \in [Queries -> BOOLEAN]
  BY <1>2
<1>5. upstream'[q] = u /\ \A o \in Queries : o # q => upstream'[o] = upstream[o]
  BY <1>2, Zenon
<1>6. /\ reply' = [o \in Queries |-> reply'[o]] /\ reply'[q] = r
      /\ \A o \in Queries : o # q => reply'[o] = reply[o]
  BY <1>1, <1>2
<1>7. WalkInv(q)'
  <2>1. ~(pos'[q] > 0)
    BY <1>3
  <2> QED
    BY <1>3, <1>5, <1>6, <2>1 DEF WalkInv
<1>8. ASSUME NEW o \in Queries, o # q
      PROVE  WalkInv(o)'
  <2>1. pos'[o] = pos[o] /\ clear'[o] = clear[o] /\ upstream'[o] = upstream[o] /\ reply'[o] = reply[o]
    BY <1>3, <1>5, <1>6, <1>8
  <2> QED
    BY <1>8, <2>1, OthersKept
<1>9. \A o \in Queries : WalkInv(o)'
  BY <1>7, <1>8
<1> QED
  BY <1>3, <1>4, <1>6, <1>9 DEF ServeInv

\* A reload: a list that does not block a name clears the queries for it.
LEMMA RefreshKept ==
  ASSUME ServeInv, NEW r \in Replicas, Refresh(r)
  PROVE  ServeInv'
<1>1. /\ "blocklist" \in corefile
      /\ UNCHANGED <<boot, chain, corefile, query, pos, upstream, reply>>
  BY DEF Refresh, bootVars
<1>2. PICK names \in SUBSET Names :
        /\ list' = [list EXCEPT ![r] = names]
        /\ clear' = [q \in Queries |->
             clear[q] \/ (pos[q] > 0 /\ query[q].at = r /\ query[q].name \notin names)]
  BY DEF Refresh
<1>3. list \in [Replicas -> SUBSET Names] /\ list' \in [Replicas -> SUBSET Names]
  BY <1>2 DEF ServeInv
<1>4. clear' \in [Queries -> BOOLEAN]
  BY <1>2
<1>5. ASSUME NEW q \in Queries
      PROVE  WalkInv(q)'
  <2>1. WalkInv(q) /\ query[q].at \in Replicas
    BY DEF ServeInv
  <2>2. clear'[q] <=> clear[q] \/ (pos[q] > 0 /\ query[q].at = r /\ query[q].name \notin names)
    BY <1>2, Zenon
  <2>3. query[q].at = r => list'[query[q].at] = names
    BY <1>2, <1>3
  <2>4. query[q].at # r => list'[query[q].at] = list[query[q].at]
    BY <1>2, <1>3, <2>1
  <2>5. pos[q] > 0 /\ ~blocked(query[q].at, query[q].name)' => clear'[q]
    BY <1>1, <2>1, <2>2, <2>3, <2>4 DEF WalkInv, blocked
  <2> QED
    BY <1>1, <2>1, <2>2, <2>5 DEF WalkInv
<1> QED
  BY <1>1, <1>3, <1>4, <1>5 DEF ServeInv

\* A query comes in, with the list of its replica deciding whether it is clear.
LEMMA ArriveKept ==
  ASSUME ChainInv, ServeInv, NEW q \in Queries, Arrive(q)
  PROVE  ServeInv'
<1>1. /\ boot = "serving" /\ reply[q] = NoReply
      /\ UNCHANGED <<boot, chain, corefile, list, query, upstream, reply>>
      /\ pos' = [pos EXCEPT ![q] = 1]
      /\ clear' = [clear EXCEPT ![q] = ~blocked(query[q].at, query[q].name)]
  BY DEF Arrive, bootVars
<1>2. pos \in [Queries -> Nat] /\ clear \in [Queries -> BOOLEAN] /\ WalkInv(q) /\ chain \in Seq(Directive)
  BY DEF ServeInv, ChainInv
<1>3. pos' \in [Queries -> Nat] /\ pos'[q] = 1 /\ \A o \in Queries : o # q => pos'[o] = pos[o]
  BY <1>1, <1>2
<1>4. clear' \in [Queries -> BOOLEAN]
  BY <1>1, <1>2 DEF blocked
<1>5. /\ clear'[q] <=> ~blocked(query[q].at, query[q].name)
      /\ \A o \in Queries : o # q => clear'[o] = clear[o]
  BY <1>1, <1>2, Zenon
<1>6. WalkInv(q)'
  <2>1. blocked(query[q].at, query[q].name)' <=> blocked(query[q].at, query[q].name)
    BY <1>1 DEF blocked
  <2>2. \A i \in DOMAIN chain : ~(i < 1)
    BY <1>2
  <2>3. ~upstream[q] /\ reply[q].how # "answer"
    BY <1>1, <1>2 DEF WalkInv, NoReply
  <2> QED
    BY <1>1, <1>3, <1>5, <2>1, <2>2, <2>3 DEF WalkInv
<1>7. ASSUME NEW o \in Queries, o # q
      PROVE  WalkInv(o)'
  BY <1>1, <1>3, <1>5, <1>7, OthersKept
<1>8. \A o \in Queries : WalkInv(o)'
  BY <1>6, <1>7
<1> QED
  BY <1>1, <1>3, <1>4, <1>8 DEF ServeInv

\* One plugin's turn.
LEMMA WalkKept ==
  ASSUME ChainInv, ServeInv, NEW q \in Queries, Walk(q)
  PROVE  ServeInv'
<1>1. upstream \in [Queries -> BOOLEAN] /\ upstream = [upstream EXCEPT ![q] = upstream[q]]
  BY DEF ServeInv
<1>2. /\ [how |-> "nxdomain"] # NoReply /\ [how |-> "nxdomain"].how # "answer"
      /\ [how |-> "servfail"] # NoReply /\ [how |-> "servfail"].how # "answer"
  BY DEF NoReply
<1>3. CASE Arrive(q)
  BY <1>3, ArriveKept
<1>4. CASE Through(q)
  BY <1>4, PassKept DEF Through
<1>5. CASE Blocklist(q)
  <2>1. pos[q] \in DOMAIN chain
    BY <1>5 DEF Blocklist, At
  <2>2. CASE blocked(query[q].at, query[q].name)
    <3>1. /\ Reply(q, [how |-> "nxdomain"]) /\ UNCHANGED <<boot, chain, corefile, list, query, clear, upstream>>
      BY <1>5, <2>2 DEF Blocklist, bootVars
    <3>2. upstream[q] \in BOOLEAN /\ (upstream[q] => clear[q])
      BY <1>1 DEF ServeInv, WalkInv
    <3>3. upstream' = [upstream EXCEPT ![q] = upstream[q]]
      BY <1>1, <3>1
    <3> QED
      BY <1>2, <3>1, <3>2, <3>3, ReplyKept
  <2>3. CASE ~blocked(query[q].at, query[q].name)
    <3>1. Pass(q)
      BY <1>5, <2>3 DEF Blocklist
    <3>2. pos[q] > 0
      BY <2>1 DEF ChainInv
    <3>3. clear[q]
      BY <2>3, <3>2 DEF ServeInv, WalkInv
    <3> QED
      BY <2>1, <3>1, <3>3, PassKept
  <2> QED
    BY <2>2, <2>3
<1>6. CASE Cache(q)
  <2>1. pos[q] \in DOMAIN chain /\ chain[pos[q]] = "cache"
    BY <1>6 DEF Cache, At
  <2>2. clear[q]
    BY <2>1, AnsweredIsClear DEF Answering
  <2>3. CASE query[q].name \in cached[query[q].at]
    <3> DEFINE r == [how |-> "answer", by |-> "cache"]
    <3>1. Reply(q, r) /\ UNCHANGED <<boot, chain, corefile, list, query, clear, upstream>>
      BY <1>6, <2>3 DEF Cache, bootVars
    <3>2. r # NoReply
      BY DEF NoReply
    <3>3. upstream' = [upstream EXCEPT ![q] = upstream[q]] /\ upstream[q] \in BOOLEAN
      BY <1>1, <3>1
    <3> HIDE DEF r
    <3> QED
      BY <2>2, <3>1, <3>2, <3>3, ReplyKept
  <2>4. CASE query[q].name \notin cached[query[q].at]
    <3>1. Pass(q)
      BY <1>6, <2>4 DEF Cache
    <3> QED
      BY <2>1, <3>1, PassKept
  <2> QED
    BY <2>3, <2>4
<1>7. CASE UpstreamLeg(q)
  BY <1>7, PassKept DEF UpstreamLeg, At
<1>8. ASSUME NEW p \in Replicas, PeerAnswers(q, p)
      PROVE  ServeInv'
  <2>1. pos[q] \in DOMAIN chain /\ chain[pos[q]] = "peercache"
    BY <1>8 DEF PeerAnswers, At
  <2>2. clear[q]
    BY <2>1, AnsweredIsClear DEF Answering
  <2> DEFINE r == [how |-> "answer", by |-> p, blockedThere |-> blocked(p, query[q].name)]
  <2>3. /\ Reply(q, r) /\ UNCHANGED <<boot, chain, corefile, list, query, clear>>
        /\ upstream' = [upstream EXCEPT ![q] = TRUE]
    BY <1>8 DEF PeerAnswers, Answer, bootVars
  <2>4. r # NoReply
    BY DEF NoReply
  <2> HIDE DEF r
  <2> QED
    BY <2>2, <2>3, <2>4, ReplyKept
<1>9. CASE Forward(q)
  <2>1. pos[q] \in DOMAIN chain /\ chain[pos[q]] \in Answering
    BY <1>9 DEF Forward, At, Answering
  <2>2. clear[q]
    BY <2>1, AnsweredIsClear
  <2> DEFINE r == [how |-> "answer", by |-> "upstream"]
  <2>3. /\ Reply(q, r) \/ Reply(q, [how |-> "servfail"])
        /\ UNCHANGED <<boot, chain, corefile, list, query, clear>>
        /\ upstream' = [upstream EXCEPT ![q] = TRUE]
    BY <1>9 DEF Forward, Answer, bootVars
  <2>4. r # NoReply
    BY DEF NoReply
  <2> HIDE DEF r
  <2> QED
    BY <1>2, <2>2, <2>3, <2>4, ReplyKept
<1> QED
  BY <1>3, <1>4, <1>5, <1>6, <1>7, <1>8, <1>9 DEF Walk

\* Booting leaves what is served alone; the chain is final when the first query comes.
LEMMA ServeKept ==
  ASSUME OrderInv, ChainInv, ServeInv, [Next]_vars
  PROVE  ServeInv'
<1>1. ASSUME boot # "serving", UNCHANGED <<corefile, serving>>
      PROVE  ServeInv'
  <2>1. UNCHANGED <<list, query, pos, clear, upstream, reply>>
    BY <1>1 DEF serving, asking
  <2>2. ASSUME NEW q \in Queries
        PROVE  WalkInv(q)'
    <3>1. WalkInv(q) /\ pos[q] = 0
      BY <1>1 DEF ServeInv, WalkInv
    <3> QED
      BY <2>1, <3>1 DEF WalkInv
  <2> QED
    BY <1>1, <2>1, <2>2 DEF ServeInv
<1>2. CASE Splice \/ Panic
  BY <1>1, <1>2 DEF Splice, Panic
<1>3. CASE ParseStep
  <2>1. boot = "setup" /\ UNCHANGED <<corefile, serving>>
    BY <1>3, ParseLeaves DEF SettingUp
  <2> QED
    BY <1>1, <2>1
<1>4. CASE SkipDirective \/ AddPlugin \/ StartServing
  <2>1. boot = "setup" /\ UNCHANGED <<corefile, serving>>
    BY <1>4 DEF SkipDirective, AddPlugin, StartServing, SettingUp
  <2> QED
    BY <1>1, <2>1
<1>5. CASE ServeStep
  <2>1. ASSUME NEW r \in Replicas, Refresh(r)
        PROVE  ServeInv'
    BY <2>1, RefreshKept
  <2>2. ASSUME NEW r \in Replicas, NEW n \in Names, Expire(r, n)
        PROVE  ServeInv'
    <3>1. UNCHANGED <<boot, chain, corefile, list, query, pos, clear, upstream, reply>>
      BY <2>2 DEF Expire, bootVars, asking
    <3> QED
      BY <3>1 DEF ServeInv, WalkInv, blocked
  <2>3. ASSUME NEW q \in Queries, Walk(q)
        PROVE  ServeInv'
    BY <2>3, WalkKept
  <2> QED
    BY <1>5, <2>1, <2>2, <2>3 DEF ServeStep
<1>6. CASE UNCHANGED vars
  <2>1. UNCHANGED <<boot, chain, corefile, list, query, pos, clear, upstream, reply>>
    BY <1>6 DEF vars, bootVars, asking
  <2> QED
    BY <2>1 DEF ServeInv, WalkInv, blocked
<1> QED
  BY <1>2, <1>3, <1>4, <1>5, <1>6, Steps

-------------------------------------------------------------------------------
(***************************************************************************)
(* The theorems.                                                           *)
(***************************************************************************)
\* Before init of the package main has run.
LEMMA InitInv ==
  ASSUME Init
  PROVE  IInv
<1>1. OrderInv
  <2>1. directives \in Shipped /\ boot = "init" /\ step = 1
    BY DEF Init
  <2>2. directives \in Seq(STRING)
    BY <2>1, ShippedAssumption
  <2>3. directives \in Seq(Directive)
    BY <2>2 DEF Directive
  <2> QED
    BY <2>1, <2>3 DEF OrderInv
<1>2. ChainInv
  <2>1. chain = <<>> /\ chain \in Seq(Directive) /\ boot = "init"
    BY DEF Init
  <2> QED
    BY <2>1 DEF ChainInv, Guarded
<1>3. DraftInv
  BY DEF Init, DraftInv
<1>4. ServeInv
  <2>1. /\ list = [r \in Replicas |-> {}]
        /\ query \in [Queries -> [at : Replicas, name : Names]]
        /\ pos = [q \in Queries |-> 0]
        /\ clear = [q \in Queries |-> FALSE] /\ upstream = [q \in Queries |-> FALSE]
        /\ reply = [q \in Queries |-> NoReply]
    BY DEF Init
  <2>2. clear \in [Queries -> BOOLEAN] /\ upstream \in [Queries -> BOOLEAN]
    BY <2>1
  <2>3. list \in [Replicas -> SUBSET Names] /\ pos \in [Queries -> Nat] /\ reply = [q \in Queries |-> reply[q]]
    BY <2>1
  <2>4. ASSUME NEW q \in Queries
        PROVE  WalkInv(q)
    <3>1. pos[q] = 0 /\ reply[q] = NoReply
      BY <2>1
    <3>2. ~upstream[q]
      BY <2>1, Zenon
    <3>3. reply[q].how # "answer"
      BY <3>1 DEF NoReply
    <3> QED
      BY <3>1, <3>2, <3>3 DEF WalkInv
  <2>5. \A r \in Replicas : list[r] = {}
    BY <2>1
  <2> QED
    BY <2>1, <2>2, <2>3, <2>4, <2>5 DEF ServeInv
<1> QED
  BY <1>1, <1>2, <1>3, <1>4 DEF IInv

\* IInv is an invariant of Server.
LEMMA Invariance == Spec => []IInv
<1>1. Init => IInv
  BY InitInv
<1>2. IInv /\ [Next]_vars => IInv'
  BY OrderKept, ChainKept, DraftKept, ServeKept DEF IInv
<1> QED
  BY <1>1, <1>2, PTL DEF Spec

(***************************************************************************)
(* Whatever the order of the stanzas and of the lines in them, a           *)
(* configuration parseConfig accepts is one the plugin can run with: every *)
(* token leaves the draft in order or ends in an error.                    *)
(***************************************************************************)
THEOREM AcceptedIsRunnable == Spec => []ConfigIsRunnable
<1>1. IInv => ConfigIsRunnable
  <2> SUFFICES ASSUME IInv
               PROVE  ConfigIsRunnable
    OBVIOUS
  <2>1. ASSUME NEW plugin, Accepted(plugin)
        PROVE  Draft(plugin, draft, "accepted")
    BY <2>1 DEF Accepted, IInv, DraftInv
  <2>2. ASSUME Accepted("blocklist")
        PROVE  draft.urls > 0 /\ draft.bootstrap > 0 /\ draft.refresh >= Minute /\ draft.readyTimeout > 0
    BY <2>1, <2>2 DEF Draft, BlocklistDraft
  <2>3. ASSUME Accepted("race")
        PROVE  draft.proxies # {} /\ \A x \in draft.proxies : x.expire > 0 /\ x.transport # "other"
    <3>1. RaceDraft(draft, "accepted")
      BY <2>1, <2>3 DEF Draft
    <3>2. /\ draft.expire > 0 /\ draft.proxies # {}
          /\ \A x \in draft.proxies : x.expire = draft.expire /\ x.transport # "other"
      BY <3>1 DEF RaceDraft
    <3> QED
      BY <3>2
  <2>4. ASSUME Accepted("peercache")
        PROVE  draft.port \in 1..maxPort /\ draft.selector # ""
    BY <2>1, <2>4 DEF Draft, PeerCacheDraft
  <2> QED
    BY <2>2, <2>3, <2>4 DEF ConfigIsRunnable
<1> QED
  BY <1>1, Invariance, PTL

(***************************************************************************)
(* The proxies of race carry the server name and the expiry of the block's *)
(* last lines, for any number of addresses and files of them: none is      *)
(* built before the block has ended.                                       *)
(***************************************************************************)
THEOREM ProxiesAreBuiltLast == Spec => []ProxiesSeeTheBlock
<1>1. IInv => ProxiesSeeTheBlock
  <2> SUFFICES ASSUME IInv, Accepted("race")
               PROVE  \A x \in draft.proxies : x.serverName = draft.tlsServerName /\ x.expire = draft.expire
    BY DEF ProxiesSeeTheBlock
  <2>1. RaceDraft(draft, "accepted")
    BY DEF Accepted, IInv, DraftInv, Draft
  <2> QED
    BY <2>1 DEF RaceDraft
<1> QED
  BY <1>1, Invariance, PTL

(***************************************************************************)
(* init's four inserts suffice: in whatever sequence of directives has     *)
(* cache before forward, for any Corefile, no name that every list in      *)
(* force has blocked since the query came is answered from the cache, by a *)
(* sibling or from upstream, or sent upstream.                             *)
(***************************************************************************)
THEOREM BlockedStaysUnanswered == Spec => []BlockedIsNeverAnswered
<1>1. IInv => BlockedIsNeverAnswered
  BY DEF IInv, ServeInv, WalkInv, BlockedIsNeverAnswered
<1> QED
  BY <1>1, Invariance, PTL

===============================================================================
