-------------------------------- MODULE Server ---------------------------------
(***************************************************************************)
(* The homedns binary on every replica: main's init splices its plugins    *)
(* into CoreDNS's directives (directives.go), caddy then runs the setup of *)
(* every plugin the Corefile has, in the order of the directives (the      *)
(* plugins' setup.go), which builds the chain, and the chain serves        *)
(* queries.                                                                *)
(*                                                                         *)
(* All replicas run the same binary and the same Corefile, so they share   *)
(* one chain.  Blocklist, PeerCache and Race model what the plugins do;    *)
(* here each is what the others see of it: the list in force, the answers  *)
(* cached, the answers in the probe store.                                 *)
(***************************************************************************)
EXTENDS Setup, SequencesExt

CONSTANTS
  Shipped,        \* sequences of directives a CoreDNS release may come with
  Corefiles,      \* sets of directives a server block may have
  MaxLines,       \* bound on the lines of a stanza's block
  MaxArgs,        \* bound on the arguments of a line
  Replicas, Names, Queries

\* The order CoreDNS ships, which directives_test.go pins down: cache, where there is one, before any forward.
ASSUME ShippedAssumption ==
  \A s \in Shipped :
    /\ s \in Seq(STRING)
    /\ \A i \in DOMAIN s : s[i] = "forward" /\ "cache" \in ToSet(s) => \E j \in 1..(i - 1) : s[j] = "cache"

ASSUME BoundsAssumption == MaxLines \in Nat /\ MaxArgs \in Nat

VARIABLES
  boot,           \* "init", "setup", "serving" or "failed"
  step,           \* the next insert of init, then the directive whose turn it is
  directives,     \* dnsserver.Directives
  corefile,       \* the directives the server block has
  stage,          \* where parseConfig is: "start", "block", "ended" or "accepted"
  draft,          \* the plugin being configured
  lines,          \* lines of the block read so far
  chain,          \* the plugins added, the first one outermost
  list,           \* list[r]: names the list in force at r blocks
  cached,         \* cached[r]: names in r's cache
  stored,         \* stored[r]: names in r's probe store
  query,          \* query[q]: the name asked, of which replica
  pos,            \* pos[q]: index of the plugin whose turn it is; 0 before and after
  clear,          \* clear[q]: some list in force since q came did not block its name
  upstream,       \* upstream[q]: q was sent to an upstream
  reply           \* reply[q]: what the client got, and of whom

bootVars == <<boot, step, directives, corefile, stage, draft, lines, chain>>
answers == <<cached, stored>>
asking == <<query, pos, clear, upstream, reply>>
vars == <<bootVars, list, answers, asking>>
parsing == <<stage, draft, lines>>
serving == <<list, answers, asking>>

NoReply == [how |-> "none"]
Nothing == [ok |-> TRUE]

Init ==
  /\ boot = "init" /\ step = 1
  /\ directives \in Shipped /\ corefile \in Corefiles
  /\ stage = "start" /\ draft = Nothing /\ lines = 0
  /\ chain = <<>>
  /\ list = [r \in Replicas |-> {}]
  /\ cached = [r \in Replicas |-> {}] /\ stored = [r \in Replicas |-> {}]
  /\ query \in [Queries -> [at : Replicas, name : Names]]
  /\ pos = [q \in Queries |-> 0]
  /\ clear = [q \in Queries |-> FALSE] /\ upstream = [q \in Queries |-> FALSE]
  /\ reply = [q \in Queries |-> NoReply]

-------------------------------------------------------------------------------
(***************************************************************************)
(* init: four calls of insertBefore, as <<anchor, name>>.                  *)
(***************************************************************************)
InsertsTooLate ==                           \* mutant: blocklist is placed before forward
  << <<"forward", "blocklist">>, <<"kubernetes", "k8s_gateway">>,
     <<"forward", "peercache">>, <<"forward", "race">> >>
Inserts ==
  << <<"cache", "blocklist">>, <<"kubernetes", "k8s_gateway">>,
     <<"forward", "peercache">>, <<"forward", "race">> >>

CanInsert(anchor, name) == name \notin ToSet(directives) /\ anchor \in ToSet(directives)

IsFirst(i, d) == directives[i] = d /\ \A j \in 1..(i - 1) : directives[j] # d

insertBefore(anchor, name) ==
  /\ CanInsert(anchor, name)
  /\ \E i \in DOMAIN directives : IsFirst(i, anchor) /\ directives' = InsertAt(directives, i, name)
  /\ IF step = Len(Inserts) THEN boot' = "setup" /\ step' = 1 ELSE step' = step + 1 /\ UNCHANGED boot

Splice ==
  /\ boot = "init"
  /\ insertBefore(Inserts[step][1], Inserts[step][2])
  /\ UNCHANGED <<corefile, parsing, chain, serving>>

Panic ==
  /\ boot = "init"
  /\ ~CanInsert(Inserts[step][1], Inserts[step][2])
  /\ boot' = "failed"
  /\ UNCHANGED <<step, directives, corefile, parsing, chain, serving>>

-------------------------------------------------------------------------------
(***************************************************************************)
(* Setup.  caddy takes the directives in order, whatever the order of the  *)
(* stanzas, and passes over those the server block does not have.          *)
(***************************************************************************)
Current == directives[step]
SettingUp == boot = "setup" /\ step <= Len(directives) /\ Current \in corefile

SkipDirective ==
  /\ boot = "setup" /\ step <= Len(directives) /\ Current \notin corefile
  /\ step' = step + 1
  /\ UNCHANGED <<boot, directives, corefile, parsing, chain, serving>>

Parsing(s) == SettingUp /\ Current \in DOMAIN New /\ stage = s

ArgLists == UNION {[1..n -> Words] : n \in 0..MaxArgs}

\* The draft becomes d, or the server does not start.
Becomes(d, s) ==
  /\ draft' = d
  /\ stage' = s
  /\ boot' = IF d.ok THEN boot ELSE "failed"

ReadHead ==
  /\ Parsing("start")
  /\ \E args \in ArgLists : Becomes(StanzaHead(Current, New[Current], args), "block")
  /\ UNCHANGED <<step, directives, corefile, lines, chain, serving>>

ReadLine ==
  /\ Parsing("block")
  /\ lines < MaxLines
  /\ \E prop \in Properties, args \in ArgLists : Becomes(BlockLine(Current, draft, prop, args), "block")
  /\ lines' = lines + 1
  /\ UNCHANGED <<step, directives, corefile, chain, serving>>

ReadBlockEnd ==
  /\ Parsing("block")
  /\ Becomes(BlockEnd(Current, draft), "ended")
  /\ UNCHANGED <<step, directives, corefile, lines, chain, serving>>

\* "can only be configured once per server block"
ReadSecondStanza ==
  /\ Parsing("ended")
  /\ Becomes(Rejected, "ended")
  /\ UNCHANGED <<step, directives, corefile, lines, chain, serving>>

ReadConfigEnd ==
  /\ Parsing("ended")
  /\ Becomes(ConfigEnd(Current, draft), "accepted")
  /\ UNCHANGED <<step, directives, corefile, lines, chain, serving>>

\* A plugin of CoreDNS's own is set up in one step.
AddPlugin ==
  /\ SettingUp
  /\ Current \in DOMAIN New => stage = "accepted"
  /\ chain' = Append(chain, Current)
  /\ step' = step + 1
  /\ stage' = "start" /\ draft' = Nothing /\ lines' = 0
  /\ UNCHANGED <<boot, directives, corefile, serving>>

StartServing ==
  /\ boot = "setup" /\ step > Len(directives)
  /\ boot' = "serving"
  /\ UNCHANGED <<step, directives, corefile, parsing, chain, serving>>

-------------------------------------------------------------------------------
(***************************************************************************)
(* Serving.                                                                *)
(***************************************************************************)
blocked(r, n) == n \in list[r]

\* A reload publishes another list: the first one, or one with names more or less.
Refresh(r) ==
  /\ boot = "serving" /\ "blocklist" \in corefile
  /\ \E names \in SUBSET Names :
       /\ list' = [list EXCEPT ![r] = names]
       /\ clear' = [q \in Queries |->
            clear[q] \/ (pos[q] > 0 /\ query[q].at = r /\ query[q].name \notin names)]
  /\ UNCHANGED <<bootVars, answers, query, pos, upstream, reply>>

Expire(r, n) ==
  /\ boot = "serving"
  /\ \/ n \in cached[r] /\ cached' = [cached EXCEPT ![r] = @ \ {n}] /\ UNCHANGED stored
     \/ n \in stored[r] /\ stored' = [stored EXCEPT ![r] = @ \ {n}] /\ UNCHANGED cached
  /\ UNCHANGED <<bootVars, list, asking>>

Arrive(q) ==
  /\ boot = "serving"
  /\ pos[q] = 0 /\ reply[q] = NoReply
  /\ pos' = [pos EXCEPT ![q] = 1]
  /\ clear' = [clear EXCEPT ![q] = ~blocked(query[q].at, query[q].name)]
  /\ UNCHANGED <<bootVars, list, answers, query, upstream, reply>>

At(q, plugin) == pos[q] \in DOMAIN chain /\ chain[pos[q]] = plugin

Pass(q) ==
  /\ pos' = [pos EXCEPT ![q] = @ + 1]
  /\ UNCHANGED <<bootVars, list, answers, query, clear, upstream, reply>>

Reply(q, r) ==
  /\ pos' = [pos EXCEPT ![q] = 0]
  /\ reply' = [reply EXCEPT ![q] = r]

\* The answer passes every plugin above on its way back; cache and peercache keep it.
Above(q) == {chain[i] : i \in 1..(pos[q] - 1)}
Keep(f, q, keeper, plugins) ==
  IF keeper \in plugins THEN [f EXCEPT ![query[q].at] = @ \cup {query[q].name}] ELSE f
Answer(q, r, plugins) ==
  /\ Reply(q, r)
  /\ cached' = Keep(cached, q, "cache", plugins)
  /\ stored' = Keep(stored, q, "peercache", plugins)

\* A plugin that only watches (log, errors, prometheus), or has no data on the name (hosts, kubernetes).
Through(q) ==
  /\ pos[q] \in DOMAIN chain
  /\ chain[pos[q]] \notin {"blocklist", "cache", "peercache", "race", "forward"}
  /\ Pass(q)

Blocklist(q) ==
  /\ At(q, "blocklist")
  /\ IF blocked(query[q].at, query[q].name)
       THEN Reply(q, [how |-> "nxdomain"]) /\ UNCHANGED <<bootVars, list, answers, query, clear, upstream>>
       ELSE Pass(q)

Cache(q) ==
  /\ At(q, "cache")
  /\ IF query[q].name \in cached[query[q].at]
       THEN Reply(q, [how |-> "answer", by |-> "cache"])
            /\ UNCHANGED <<bootVars, list, answers, query, clear, upstream>>
       ELSE Pass(q)

\* A sibling's store wins the race; the upstream leg was sent all the same.
PeerAnswers(q, p) ==
  /\ At(q, "peercache")
  /\ p # query[q].at /\ query[q].name \in stored[p]
  /\ upstream' = [upstream EXCEPT ![q] = TRUE]
  /\ Answer(q, [how |-> "answer", by |-> p, blockedThere |-> blocked(p, query[q].name)],
            Above(q) \cup {"peercache"})
  /\ UNCHANGED <<bootVars, list, query, clear>>

UpstreamLeg(q) == At(q, "peercache") /\ Pass(q)

\* race, or forward where the Corefile has no race.
Forward(q) ==
  /\ At(q, "race") \/ At(q, "forward")
  /\ upstream' = [upstream EXCEPT ![q] = TRUE]
  /\ \/ Answer(q, [how |-> "answer", by |-> "upstream"], Above(q))
     \/ Reply(q, [how |-> "servfail"]) /\ UNCHANGED answers
  /\ UNCHANGED <<bootVars, list, query, clear>>

-------------------------------------------------------------------------------
Boot ==
  \/ Splice \/ Panic
  \/ ReadHead \/ ReadLine \/ ReadBlockEnd \/ ReadSecondStanza \/ ReadConfigEnd
  \/ SkipDirective \/ AddPlugin \/ StartServing

Walk(q) ==
  \/ Arrive(q)
  \/ Through(q)
  \/ Blocklist(q)
  \/ Cache(q)
  \/ UpstreamLeg(q)
  \/ \E p \in Replicas : PeerAnswers(q, p)
  \/ Forward(q)

Next ==
  \/ Boot
  \/ \E r \in Replicas : Refresh(r)
  \/ \E r \in Replicas, n \in Names : Expire(r, n)
  \/ \E q \in Queries : Walk(q)

Spec == Init /\ [][Next]_vars

-------------------------------------------------------------------------------
(***************************************************************************)
(* Properties.                                                             *)
(***************************************************************************)
Accepted(plugin) == stage = "accepted" /\ boot = "setup" /\ Current = plugin

(***************************************************************************)
(* Whatever lines a block has, in whatever order and how often, an         *)
(* accepted configuration is one the running plugins can work with: a list *)
(* to fetch, a bootstrap server to divide by (source.go, 34), a period     *)
(* NewTicker takes, a timer that does not fire at once, a leg to race, all *)
(* of them of a transport a proxy has, a port to bind and a selector that  *)
(* was given.                                                              *)
(***************************************************************************)
ConfigIsRunnable ==
  /\ Accepted("blocklist") =>
       draft.urls > 0 /\ draft.bootstrap > 0 /\ draft.refresh >= Minute /\ draft.readyTimeout > 0
  /\ Accepted("race") =>
       draft.proxies # {} /\ \A x \in draft.proxies : x.expire > 0 /\ x.transport # "other"
  /\ Accepted("peercache") => draft.port \in 1..maxPort /\ draft.selector # ""

(***************************************************************************)
(* Every proxy of race is built with the tls_servername and the expire the *)
(* block ends up with, although the addresses come before the block: "the  *)
(* block is read before the addresses, because tls_servername has to be    *)
(* known by the time a proxy's TLS config is built" (race/setup.go, 69).   *)
(***************************************************************************)
ProxiesSeeTheBlock ==
  Accepted("race") =>
    \A x \in draft.proxies : x.serverName = draft.tlsServerName /\ x.expire = draft.expire

(***************************************************************************)
(* "Blocking must precede cache, so a refreshed list applies immediately   *)
(* and no blocked name is ever forwarded upstream" (directives_test.go).   *)
(* A name that every list in force at a replica has blocked since the      *)
(* query came is given to no client of it, be it cached there, held by a   *)
(* sibling or known upstream, and is not sent upstream.                    *)
(***************************************************************************)
BlockedIsNeverAnswered ==
  \A q \in Queries : reply[q].how = "answer" \/ upstream[q] => clear[q]

(***************************************************************************)
(* What the README of peercache says (70-71): "Names blocked by blocklist  *)
(* never reach this plugin, so they never enter the store and can never be *)
(* served to a sibling."                                                   *)
(***************************************************************************)
BlockedNeverShared ==
  \A q \in Queries : reply[q].how = "answer" /\ reply[q].by \in Replicas => ~reply[q].blockedThere
===============================================================================
