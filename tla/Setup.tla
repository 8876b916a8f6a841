--------------------------------- MODULE Setup ---------------------------------
(***************************************************************************)
(* parseConfig of the blocklist, race and peercache plugins: what each     *)
(* makes of the tokens of its stanzas in a server block.                   *)
(*                                                                         *)
(* A draft is the plugin being configured.  Reading the head of a stanza,  *)
(* a line of its block, the end of the block or the end of the server      *)
(* block gives the next draft, or Rejected: the error that keeps the       *)
(* server from starting.  Words are the arguments; constants say what the  *)
(* parsers of arguments make of them.                                      *)
(***************************************************************************)
EXTENDS Integers, Sequences

CONSTANTS
  Words,          \* arguments a Corefile may give
  duration,       \* [Words -> Int]: time.ParseDuration, in seconds; at most 0 for an error
  number,         \* [Words -> Int]: strconv.Atoi; at most 0 for an error
  hosts,          \* [Words -> Seq(transports)]: what parse.HostPortOrFile makes of an address or a
                  \* file of nameservers; <<>> for a file without one
  ValidUpstreams, \* words that are an address or a file
  ValidURLs,      \* words validateURL accepts
  ValidNames,     \* words normalizeEntry accepts
  ValidAddrs,     \* words normalizeDNSAddr accepts
  ValidSelectors, \* words labels.Parse accepts; "" is one
  ValidZones      \* words that normalize to one zone

ASSUME WordsAssumption ==
  /\ duration \in [Words -> Int] /\ number \in [Words -> Int]
  /\ hosts \in [Words -> Seq({"dns", "tls", "other"})]
  /\ ValidURLs \cup ValidNames \cup ValidAddrs \cup ValidSelectors \cup ValidZones
       \cup ValidUpstreams \subseteq Words

Minute == 60
maxPort == 65535

Rejected == [ok |-> FALSE]
Require(condition, d) == IF condition THEN d ELSE Rejected

WordsOf(args) == {args[k] : k \in DOMAIN args}

-------------------------------------------------------------------------------
(***************************************************************************)
(* blocklist.                                                              *)
(***************************************************************************)
newBlocklist ==
  [ok |-> TRUE, urls |-> 0, allow |-> 0, bootstrap |-> 0, refresh |-> 24 * 60 * Minute, readyTimeout |-> Minute]

\* One argument or more, all of them valid.
All(args, valid) == args # <<>> /\ WordsOf(args) \subseteq valid

durationArgAny(args) == Len(args) = 1                            \* mutant: d <= 0 passes
durationArg(args) == Len(args) = 1 /\ duration[args[1]] > 0

blocklistLine(d, prop, args) ==
  CASE prop = "url" ->
         Require(All(args, ValidURLs), [d EXCEPT !.urls = @ + Len(args)])
    [] prop = "allow" ->
         Require(All(args, ValidNames), [d EXCEPT !.allow = @ + Len(args)])
    [] prop = "bootstrap_dns" ->
         Require(All(args, ValidAddrs), [d EXCEPT !.bootstrap = @ + Len(args)])
    [] prop = "refresh" ->
         Require(durationArg(args) /\ duration[args[1]] >= Minute, [d EXCEPT !.refresh = duration[args[1]]])
    [] prop = "ready_timeout" ->
         Require(durationArg(args), [d EXCEPT !.readyTimeout = duration[args[1]]])
    [] OTHER -> Rejected

\* Two servers are the default.
blocklistEnd(d) == Require(d.urls > 0, [d EXCEPT !.bootstrap = IF @ = 0 THEN 2 ELSE @])

-------------------------------------------------------------------------------
(***************************************************************************)
(* race.                                                                   *)
(***************************************************************************)
newRace == [ok |-> TRUE, to |-> <<>>, tlsServerName |-> "", expire |-> 10, proxies |-> {}]

\* A file of nameservers stands for any number of hosts: leg <<k, j>> is the j-th of the k-th address.
legs(d, k) ==
  {[leg |-> <<k, j>>, transport |-> hosts[d.to[k]][j], serverName |-> d.tlsServerName, expire |-> d.expire] :
     j \in DOMAIN hosts[d.to[k]]}

\* HostPortOrFile takes all addresses at once and wants one host of all of them.
HostPortOrFile(to) == WordsOf(to) \subseteq ValidUpstreams /\ \E k \in DOMAIN to : hosts[to[k]] # <<>>

addUpstreams(d) ==
  Require(HostPortOrFile(d.to) /\ \A k \in DOMAIN d.to : "other" \notin WordsOf(hosts[d.to[k]]),
          [d EXCEPT !.proxies = @ \cup UNION {legs(d, k) : k \in DOMAIN d.to}])

raceHeadEarly(d, args) ==                                   \* mutant: addresses are added before the block, too
  Require(Len(args) >= 3 /\ args[1] \in ValidZones, addUpstreams([d EXCEPT !.to = Tail(args)]))
raceHead(d, args) ==
  Require(Len(args) >= 3 /\ args[1] \in ValidZones, [d EXCEPT !.to = Tail(args)])

raceLine(d, prop, args) ==
  CASE prop = "tls_servername" -> Require(Len(args) = 1, [d EXCEPT !.tlsServerName = args[1]])
    [] prop = "expire" -> Require(durationArg(args), [d EXCEPT !.expire = duration[args[1]]])
    [] OTHER -> Rejected

-------------------------------------------------------------------------------
(***************************************************************************)
(* peercache.                                                              *)
(***************************************************************************)
newPeerCache == [ok |-> TRUE, selector |-> "", port |-> 8053]

peercacheLine(d, prop, args) ==
  CASE prop = "selector" ->
         Require(Len(args) = 1 /\ args[1] \in ValidSelectors, [d EXCEPT !.selector = args[1]])
    [] prop = "port" ->
         Require(Len(args) = 1 /\ number[args[1]] \in 1..maxPort, [d EXCEPT !.port = number[args[1]]])
    [] OTHER -> Rejected

peercacheEnd(d) == Require(d.selector # "", d)

-------------------------------------------------------------------------------
(***************************************************************************)
(* parseConfig of any of the three.                                        *)
(***************************************************************************)
New == [blocklist |-> newBlocklist, race |-> newRace, peercache |-> newPeerCache]

StanzaHead(plugin, d, args) ==
  IF plugin = "race" THEN raceHead(d, args) ELSE Require(args = <<>>, d)

BlockLine(plugin, d, prop, args) ==
  CASE plugin = "blocklist" -> blocklistLine(d, prop, args)
    [] plugin = "race"      -> raceLine(d, prop, args)
    [] plugin = "peercache" -> peercacheLine(d, prop, args)

BlockEnd(plugin, d) == IF plugin = "race" THEN addUpstreams(d) ELSE d

ConfigEnd(plugin, d) ==
  CASE plugin = "blocklist" -> blocklistEnd(d)
    [] plugin = "race"      -> d
    [] plugin = "peercache" -> peercacheEnd(d)

Properties == {"url", "allow", "bootstrap_dns", "refresh", "ready_timeout", "tls_servername", "expire",
               "selector", "port", "unknown"}
===============================================================================
