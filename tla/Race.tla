--------------------------------- MODULE Race ---------------------------------
(***************************************************************************)
(* The race plugin: every query is put to every upstream at once and the   *)
(* first useful reply is written back (plugin/race/race.go).               *)
(*                                                                         *)
(* Three kinds of process run concurrently:                                *)
(*   - one dispatch per query, which receives leg results from a buffered  *)
(*     channel until one is useful, all are in, or the context ends;       *)
(*   - one leg per query and upstream, a goroutine that runs exchange and  *)
(*     sends its result, and that nobody cancels or waits for;             *)
(*   - the plugin's lifecycle (start, stop), which reloads run while legs  *)
(*     are still out.                                                      *)
(* They share one connection pool per upstream (CoreDNS's pkg/proxy, which *)
(* is external: Dial, Yield and expiry below are modelled from how         *)
(* exchange uses them).                                                    *)
(*                                                                         *)
(* The channel of a query is a pair: sent[q] is every result ever sent, in *)
(* order, and taken[q] is how many of them dispatch has received.  Whether *)
(* a pooled connection is dead is only decided when a leg uses it.         *)
(***************************************************************************)
EXTENDS Naturals, Sequences, FiniteSets

CONSTANTS
  Queries,        \* the queries clients may send
  Upstreams,      \* rc.proxies
  MaxIdleConns,   \* maxIdleConns: connections each upstream keeps pooled
  Replies,        \* the messages an upstream may answer with
  NoLeg,          \* "no leg": a nil *legResult
  NoMsg           \* "no message": a nil *dns.Msg

Rcodes == {"NOERROR", "NXDOMAIN", "SERVFAIL", "REFUSED"}

ASSUME UpstreamsAssumption == IsFiniteSet(Upstreams) /\ Upstreams # {}
ASSUME MaxIdleConnsAssumption == MaxIdleConns \in Nat \ {0}
ASSUME RepliesAssumption == Replies \subseteq [rcode : Rcodes, tc : BOOLEAN]
ASSUME NoLegAssumption == NoLeg \notin Upstreams
ASSUME NoMsgAssumption == NoMsg \notin Replies

VARIABLES
  lifecycle,      \* "init" until start, "running" until stop, then "stopped"
  pool,           \* pool[u]: connections of upstream u waiting to be reused
  phase,          \* phase[q]: where dispatch of q is
  legPc,          \* legPc[q][u]: where the leg of q to u is
  conn,           \* conn[q][u]: the connection its current attempt uses
  attempts,       \* attempts[q][u]: attempts that ended with staleConn
  res,            \* res[q][u]: its legResult
  sent,           \* sent[q]: the legs that sent their result, in order
  taken,          \* taken[q]: how many of those dispatch has received
  fallback,       \* fallback[q]: the leg dispatch would fall back to
  lastErr,        \* lastErr[q]: the last error dispatch received
  outcome,        \* outcome[q]: how dispatch ended and with whose message
  replies,        \* replies[q]: messages written on q's client connection
  drained,        \* history: stale attempts that used a pooled connection
  refills         \* history: connections other legs pooled while this one ran

legVars == <<legPc, conn, attempts, res, drained, refills>>
chanVars == <<sent, taken>>
dispatchVars == <<phase, fallback, lastErr, outcome, replies>>
vars == <<lifecycle, pool, legVars, chanVars, dispatchVars>>

-------------------------------------------------------------------------------
(***************************************************************************)
(* Constants and pure helpers of race.go.                                  *)
(***************************************************************************)

\* maxConnectAttempts: attempts one leg makes before it gives up.
MaxConnectAttempts == MaxIdleConns + 2

\* The capacity dispatch gives the results channel.
CapacityForLosers == Cardinality(Upstreams) - 1    \* mutant: room for the losers only
Capacity == Cardinality(Upstreams)

\* dispatch has received the n-th result: is the loop over the legs done?
LastLegOffByOne(n) == n + 1 >= Cardinality(Upstreams)   \* mutant
LastLeg(n) == n = Cardinality(Upstreams)

\* A reply that can end the contest.
useful(m) == m # NoMsg /\ ~m.tc /\ m.rcode \in {"NOERROR", "NXDOMAIN"}

LegErrors == {"nil", "io", "stale", "mismatch"}
Errors == LegErrors \cup {"noAnswer"}
NoResult == [msg |-> NoMsg, err |-> "nil"]
Result(m, e) == [msg |-> m, err |-> e]

Undecided == [how |-> "open", by |-> NoLeg]

\* plugin.ClientWrite: for these codes ServeDNS vouches that the client has
\* been answered; for the others the server writes an error reply itself.
ClientWrite(rcode) == rcode \notin {"SERVFAIL", "REFUSED"}

Running(q, u) == legPc[q][u] \in {"dial", "io"}

-------------------------------------------------------------------------------
Init ==
  /\ lifecycle = "init"
  /\ pool = [u \in Upstreams |-> 0]
  /\ phase = [q \in Queries |-> "absent"]
  /\ legPc = [q \in Queries |-> [u \in Upstreams |-> "idle"]]
  /\ conn = [q \in Queries |-> [u \in Upstreams |-> "none"]]
  /\ attempts = [q \in Queries |-> [u \in Upstreams |-> 0]]
  /\ res = [q \in Queries |-> [u \in Upstreams |-> NoResult]]
  /\ sent = [q \in Queries |-> <<>>]
  /\ taken = [q \in Queries |-> 0]
  /\ fallback = [q \in Queries |-> NoLeg]
  /\ lastErr = [q \in Queries |-> "nil"]
  /\ outcome = [q \in Queries |-> Undecided]
  /\ replies = [q \in Queries |-> 0]
  /\ drained = [q \in Queries |-> [u \in Upstreams |-> 0]]
  /\ refills = [q \in Queries |-> [u \in Upstreams |-> 0]]

(***************************************************************************)
(* OnStartup starts every proxy's connection manager; OnShutdown stops     *)
(* them, which closes the pooled connections.                              *)
(***************************************************************************)
Start ==
  /\ lifecycle = "init"
  /\ lifecycle' = "running"
  /\ UNCHANGED <<pool, legVars, chanVars, dispatchVars>>

Stop ==
  /\ lifecycle = "running"
  /\ lifecycle' = "stopped"
  /\ pool' = [u \in Upstreams |-> 0]
  /\ UNCHANGED <<legVars, chanVars, dispatchVars>>

(***************************************************************************)
(* dispatch returns: ServeDNS hands rcode to the server after writing      *)
(* `wrote` messages, and the server writes one more if ClientWrite says no.*)
(***************************************************************************)
Return(q, how, by, rcode, wrote) ==
  /\ phase' = [phase EXCEPT ![q] = "returned"]
  /\ outcome' = [outcome EXCEPT ![q] = [how |-> how, by |-> by]]
  /\ replies' = [replies EXCEPT ![q] = @ + wrote + IF ClientWrite(rcode) THEN 0 ELSE 1]

\* reply: RcodeSuccess once the message is written, whatever its own rcode.
replyOwnRcode(q, how, by) ==                \* mutant: returns the rcode it wrote
  \/ Return(q, how, by, res[q][by].msg.rcode, 1)
  \/ Return(q, how, by, "SERVFAIL", 0)
reply(q, how, by) ==
  \/ Return(q, how, by, "NOERROR", 1)
  \/ Return(q, how, by, "SERVFAIL", 0)      \* WriteMsg failed

(***************************************************************************)
(* ServeDNS.  A name outside rc.from goes to the next plugin, which answers*)
(* it one way or another; any other is dispatched, with a leg launched for *)
(* every upstream.  The server listens once start has run; a query it read *)
(* before a reload may reach ServeDNS after stop.                          *)
(***************************************************************************)
Delegate(q) ==
  /\ lifecycle # "init"
  /\ phase[q] = "absent"
  /\ Return(q, "delegated", NoLeg, "NOERROR", 1)
  /\ UNCHANGED <<lifecycle, pool, legVars, chanVars, fallback, lastErr>>

Dispatch(q) ==
  /\ lifecycle # "init"
  /\ phase[q] = "absent"
  /\ phase' = [phase EXCEPT ![q] = "waiting"]
  /\ legPc' = [legPc EXCEPT ![q] = [u \in Upstreams |-> "dial"]]
  /\ UNCHANGED <<lifecycle, pool, conn, attempts, res, drained, refills,
                 chanVars, fallback, lastErr, outcome, replies>>

-------------------------------------------------------------------------------
(***************************************************************************)
(* One leg: exchange and the send of its result.                           *)
(***************************************************************************)

\* Connect takes a pooled connection if there is one and dials otherwise.
Dial(q, u) ==
  /\ legPc[q][u] = "dial"
  /\ legPc' = [legPc EXCEPT ![q][u] = "io"]
  /\ \/ /\ pool[u] > 0
        /\ pool' = [pool EXCEPT ![u] = @ - 1]
        /\ conn' = [conn EXCEPT ![q][u] = "pooled"]
     \/ /\ pool[u] = 0
        /\ conn' = [conn EXCEPT ![q][u] = "fresh"]
        /\ UNCHANGED pool
  /\ UNCHANGED <<lifecycle, attempts, res, drained, refills, chanVars, dispatchVars>>

\* The leg has its result and turns to the channel.
Finish(q, u, r) ==
  /\ legPc' = [legPc EXCEPT ![q][u] = "send"]
  /\ conn' = [conn EXCEPT ![q][u] = "none"]
  /\ res' = [res EXCEPT ![q][u] = r]

\* Connect closed the connection it failed on, and did not yield it.
DiscardIntoPool(u) == pool' = [pool EXCEPT ![u] = @ + 1]    \* mutant: kept
Discard(u) == UNCHANGED pool

\* Connect returned an error staleConn accepts: the connection is gone, the
\* leg tries again unless this was its last attempt.
StaleConn(q, u) ==
  /\ legPc[q][u] = "io"
  /\ attempts' = [attempts EXCEPT ![q][u] = @ + 1]
  /\ drained' = [drained EXCEPT ![q][u] = IF conn[q][u] = "pooled" THEN @ + 1 ELSE @]
  /\ \/ /\ attempts[q][u] + 1 < MaxConnectAttempts
        /\ legPc' = [legPc EXCEPT ![q][u] = "dial"]
        /\ conn' = [conn EXCEPT ![q][u] = "none"]
        /\ UNCHANGED res
     \/ /\ attempts[q][u] + 1 >= MaxConnectAttempts
        /\ Finish(q, u, Result(NoMsg, "stale"))
  /\ Discard(u)
  /\ UNCHANGED <<lifecycle, refills, chanVars, dispatchVars>>

\* Connect returned any other error: a refused dial, a timeout, a stopped
\* transport.  It is not retried.
FailedSilently(q, u) ==                     \* mutant: returns without a result
  /\ legPc[q][u] = "io"
  /\ legPc' = [legPc EXCEPT ![q][u] = "done"]
  /\ UNCHANGED <<lifecycle, pool, conn, attempts, res, drained, refills, chanVars, dispatchVars>>
Failed(q, u) ==
  /\ legPc[q][u] = "io"
  /\ Finish(q, u, Result(NoMsg, "io"))
  /\ Discard(u)
  /\ UNCHANGED <<lifecycle, attempts, drained, refills, chanVars, dispatchVars>>

\* Connect's trailing Yield: the connection goes back to the pool while the
\* transport runs and the pool has room, and is closed otherwise.
YieldUncapped(q, u) ==                      \* mutant: SetMaxIdleConns forgotten
  /\ pool' = [pool EXCEPT ![u] = @ + 1]
  /\ UNCHANGED refills
Yield(q, u) ==
  \/ /\ lifecycle = "running"
     /\ pool[u] < MaxIdleConns
     /\ pool' = [pool EXCEPT ![u] = @ + 1]
     /\ refills' = [p \in Queries |-> [v \in Upstreams |->
                      IF v = u /\ p # q /\ Running(p, v)
                      THEN refills[p][v] + 1 ELSE refills[p][v]]]
  \/ /\ lifecycle # "running" \/ pool[u] >= MaxIdleConns
     /\ UNCHANGED <<pool, refills>>

\* What exchange makes of the message Connect returned.
MismatchWithoutErr(q, u) == Finish(q, u, NoResult)      \* mutant: res.err not set
Mismatch(q, u) == Finish(q, u, Result(NoMsg, "mismatch"))

\* Connect returned a message.  One that answers a different question
\* (state.Match) is dropped; any other is the leg's result, useful or not.
Replied(q, u) ==
  /\ legPc[q][u] = "io"
  /\ \/ Mismatch(q, u)
     \/ \E m \in Replies : Finish(q, u, Result(m, "nil"))
  /\ Yield(q, u)
  /\ UNCHANGED <<lifecycle, attempts, drained, chanVars, dispatchVars>>

\* results <- ...: blocks while the buffer is full, whether or not dispatch
\* is still there to read it.
Send(q, u) ==
  /\ legPc[q][u] = "send"
  /\ Len(sent[q]) - taken[q] < Capacity
  /\ legPc' = [legPc EXCEPT ![q][u] = "done"]
  /\ sent' = [sent EXCEPT ![q] = Append(@, u)]
  /\ UNCHANGED <<lifecycle, pool, conn, attempts, res, drained, refills, taken, dispatchVars>>

\* The transport closes an idle connection of upstream u.
Expire(u) ==
  /\ pool[u] > 0
  /\ pool' = [pool EXCEPT ![u] = @ - 1]
  /\ UNCHANGED <<lifecycle, legVars, chanVars, dispatchVars>>

-------------------------------------------------------------------------------
(***************************************************************************)
(* dispatch's loop.                                                        *)
(***************************************************************************)

\* One received result, up to the next select or the return.
Receive(q) ==
  /\ phase[q] = "waiting"
  /\ taken[q] < Len(sent[q])
  /\ LET n  == taken[q] + 1
         u  == sent[q][n]
         r  == res[q][u]
         fb == IF r.msg # NoMsg THEN u ELSE fallback[q]
         le == IF r.err # "nil" THEN r.err ELSE lastErr[q]
     IN
     /\ taken' = [taken EXCEPT ![q] = n]
     /\ fallback' = [fallback EXCEPT ![q] = fb]
     /\ \/ /\ useful(r.msg)
           /\ lastErr' = [lastErr EXCEPT ![q] = le]
           /\ reply(q, "won", u)
        \/ /\ ~useful(r.msg)
           /\ ~LastLeg(n)
           /\ lastErr' = [lastErr EXCEPT ![q] = le]
           /\ UNCHANGED <<phase, outcome, replies>>
        \/ /\ ~useful(r.msg)
           /\ LastLeg(n)
           /\ fb # NoLeg
           /\ lastErr' = [lastErr EXCEPT ![q] = le]
           /\ reply(q, "fallback", fb)
        \/ /\ ~useful(r.msg)
           /\ LastLeg(n)
           /\ fb = NoLeg
           /\ lastErr' = [lastErr EXCEPT ![q] = IF le = "nil" THEN "noAnswer" ELSE le]
           /\ Return(q, "failed", NoLeg, "SERVFAIL", 0)
  /\ UNCHANGED <<lifecycle, pool, legVars, sent>>

\* ctx.Done(): select may choose this arm even when a result is waiting.
Cancel(q) ==
  /\ phase[q] = "waiting"
  /\ Return(q, "cancelled", NoLeg, "SERVFAIL", 0)
  /\ UNCHANGED <<lifecycle, pool, legVars, chanVars, fallback, lastErr>>

-------------------------------------------------------------------------------
LegStep(q, u) ==
  Dial(q, u) \/ StaleConn(q, u) \/ Failed(q, u) \/ Replied(q, u) \/ Send(q, u)

Next ==
  \/ Start
  \/ Stop
  \/ \E u \in Upstreams : Expire(u)
  \/ \E q \in Queries :
       \/ Delegate(q)
       \/ Dispatch(q)
       \/ Receive(q)
       \/ Cancel(q)
       \/ \E u \in Upstreams : LegStep(q, u)

(***************************************************************************)
(* Goroutines that can run do run, and an attempt always ends: Connect sets*)
(* a write and a read deadline on every exchange.  Nothing is assumed of   *)
(* clients, of the upstreams' answers or of the lifecycle.                 *)
(***************************************************************************)
Fairness ==
  \A q \in Queries :
    /\ WF_vars(Receive(q))
    /\ \A u \in Upstreams : WF_vars(LegStep(q, u))

Spec == Init /\ [][Next]_vars

FairSpec == Spec /\ Fairness

-------------------------------------------------------------------------------
(***************************************************************************)
(* Properties.                                                             *)
(***************************************************************************)

TypeOK ==
  /\ lifecycle \in {"init", "running", "stopped"}
  /\ pool \in [Upstreams -> 0..MaxIdleConns]
  /\ phase \in [Queries -> {"absent", "waiting", "returned"}]
  /\ legPc \in [Queries -> [Upstreams -> {"idle", "dial", "io", "send", "done"}]]
  /\ conn \in [Queries -> [Upstreams -> {"none", "pooled", "fresh"}]]
  /\ attempts \in [Queries -> [Upstreams -> 0..MaxConnectAttempts]]
  /\ res \in [Queries -> [Upstreams -> [msg : Replies \cup {NoMsg}, err : LegErrors]]]
  /\ sent \in [Queries -> Seq(Upstreams)]
  /\ taken \in [Queries -> Nat]
  /\ fallback \in [Queries -> Upstreams \cup {NoLeg}]
  /\ lastErr \in [Queries -> Errors]
  /\ outcome \in [Queries -> [how : {"open", "won", "fallback", "failed", "cancelled", "delegated"},
                              by  : Upstreams \cup {NoLeg}]]
  /\ replies \in [Queries -> Nat]
  /\ drained \in [Queries -> [Upstreams -> Nat]]
  /\ refills \in [Queries -> [Upstreams -> Nat]]

(***************************************************************************)
(* The client is answered exactly once: nothing is written before ServeDNS *)
(* returns and, counting the error reply the server adds when ServeDNS     *)
(* returns a failure code, one message is written when it has.  This is why*)
(* reply returns RcodeSuccess even for the SERVFAIL it wrote, and why legs *)
(* get a detached writer.                                                  *)
(***************************************************************************)
ExactlyOneReply ==
  \A q \in Queries : replies[q] = IF phase[q] = "returned" THEN 1 ELSE 0

(***************************************************************************)
(* No leg ever blocks on the results channel, even when dispatch has       *)
(* returned and nobody will read it again.                                 *)
(***************************************************************************)
SendNeverBlocks ==
  \A q \in Queries, u \in Upstreams :
    legPc[q][u] = "send" => Len(sent[q]) - taken[q] < Capacity

(***************************************************************************)
(* A leg never throws away more pooled connections than a full pool holds  *)
(* plus those other legs put back while it ran.  So with no refill or one, *)
(* a leg always has an attempt left that dials fresh: maxConnectAttempts   *)
(* exceeds the pool's depth by two.                                        *)
(***************************************************************************)
DrainBound ==
  \A q \in Queries, u \in Upstreams :
    drained[q][u] <= MaxIdleConns + refills[q][u]

\* The leg used up maxConnectAttempts without ever dialling a fresh connection.
GaveUpUndialled(q, u) ==
  /\ attempts[q][u] = MaxConnectAttempts
  /\ drained[q][u] = attempts[q][u]

(***************************************************************************)
(* What the comment on maxConnectAttempts (race.go, 38-40) says: "draining *)
(* a full pool and then dialling fresh fits inside this", so no leg gives  *)
(* up without having dialled.                                              *)
(***************************************************************************)
DrainFitsAttempts ==
  \A q \in Queries, u \in Upstreams : ~GaveUpUndialled(q, u)

(***************************************************************************)
(* A query that failed reports an upstream's error: the errNoAnswer branch *)
(* of dispatch is never taken, because a leg without a message always has  *)
(* an error.                                                               *)
(***************************************************************************)
FailureHasCause ==
  \A q \in Queries :
    outcome[q].how = "failed" => lastErr[q] \in {"io", "stale", "mismatch"}

\* Every query that was dispatched is answered.
QueryReturns ==
  \A q \in Queries : phase[q] = "waiting" ~> phase[q] = "returned"

\* Every leg that was launched ends, win or lose: no goroutine leaks.
LegsEnd ==
  \A q \in Queries, u \in Upstreams : legPc[q][u] = "dial" ~> legPc[q][u] = "done"

(***************************************************************************)
(* dispatch implements the contest: the first useful report in channel     *)
(* order wins, a failure is only returned once every leg is in and none    *)
(* was useful, and only if no leg brought so much as an unusable message.  *)
(***************************************************************************)
Report(q, u) ==
  IF legPc[q][u] # "done" THEN "pending"
  ELSE IF useful(res[q][u].msg) THEN "useful"
  ELSE IF res[q][u].msg # NoMsg THEN "unusable"
  ELSE "nothing"

Contest == INSTANCE Contest WITH
  Legs <- Upstreams,
  FallbackLegs <- Upstreams,
  order <- sent,
  report <- [q \in Queries |-> [u \in Upstreams |-> Report(q, u)]],
  verdict <- outcome

ImplementsContest == Contest!Spec
===============================================================================
