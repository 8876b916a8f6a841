------------------------------ MODULE RaceProofs ------------------------------
(***************************************************************************)
(* Proofs about Race, for any number of queries, upstreams and pooled      *)
(* connections and any set of replies.                                     *)
(***************************************************************************)
EXTENDS Race, FiniteSetTheorems, TLAPS

-------------------------------------------------------------------------------
(***************************************************************************)
(* The inductive invariant, in parts.                                      *)
(***************************************************************************)

\* A leg at work has an attempt left, a leg holds a connection exactly while
\* it uses it, and the counters of a leg start at zero.
LegOK(q, u) ==
  /\ Running(q, u) => attempts[q][u] < MaxConnectAttempts
  /\ conn[q][u] # "none" <=> legPc[q][u] = "io"
  /\ phase[q] = "absent" => legPc[q][u] = "idle"
  /\ legPc[q][u] = "idle" => attempts[q][u] = 0 /\ drained[q][u] = 0 /\ refills[q][u] = 0

LegInv == \A q \in Queries, u \in Upstreams : LegOK(q, u)

Held(q, u) == IF conn[q][u] = "pooled" THEN 1 ELSE 0

\* Every connection a leg has thrown away, holds, or may still find was in the
\* pool when the leg was launched or has been put back by another leg since.
PoolOK(q, u) ==
  /\ Running(q, u) =>
       pool[u] + drained[q][u] + Held(q, u) <= MaxIdleConns + refills[q][u]
  /\ drained[q][u] <= MaxIdleConns + refills[q][u]

PoolInv == \A q \in Queries, u \in Upstreams : PoolOK(q, u)

LEMMA ConstantFacts ==
  /\ MaxIdleConns \in Nat
  /\ MaxIdleConns > 0
  /\ MaxConnectAttempts \in Nat
  /\ MaxConnectAttempts = MaxIdleConns + 2
  /\ Cardinality(Upstreams) \in Nat
BY MaxIdleConnsAssumption, UpstreamsAssumption, FS_CardinalityType DEF MaxConnectAttempts

LEMMA TypeInit == Init => TypeOK /\ LegInv /\ PoolInv
BY ConstantFacts, RepliesAssumption
DEF Init, TypeOK, LegInv, LegOK, PoolInv, PoolOK, Held, Running, NoResult, Undecided, Errors, LegErrors

LEMMA TypeStep == TypeOK /\ LegInv /\ [Next]_vars => TypeOK'
<1> SUFFICES ASSUME TypeOK, LegInv, [Next]_vars PROVE TypeOK'
  OBVIOUS
<1> USE ConstantFacts
<1> DEFINE ResType == [msg : Replies \cup {NoMsg}, err : LegErrors]
<1>a. pool \in [Upstreams -> 0..MaxIdleConns]
  BY DEF TypeOK
<1>b. /\ legPc \in [Queries -> [Upstreams -> {"idle", "dial", "io", "send", "done"}]]
      /\ conn \in [Queries -> [Upstreams -> {"none", "pooled", "fresh"}]]
      /\ res \in [Queries -> [Upstreams -> ResType]]
  BY DEF TypeOK
<1>c. /\ attempts \in [Queries -> [Upstreams -> Nat]]
      /\ drained \in [Queries -> [Upstreams -> Nat]]
      /\ refills \in [Queries -> [Upstreams -> Nat]]
  BY DEF TypeOK
<1>d. ASSUME NEW q \in Queries, NEW u \in Upstreams, NEW r \in ResType, Finish(q, u, r)
      PROVE  /\ legPc' \in [Queries -> [Upstreams -> {"idle", "dial", "io", "send", "done"}]]
             /\ conn' \in [Queries -> [Upstreams -> {"none", "pooled", "fresh"}]]
             /\ res' \in [Queries -> [Upstreams -> ResType]]
  BY <1>b, <1>d DEF Finish
<1>1. CASE Start
  BY <1>1 DEF TypeOK, Start, legVars, chanVars, dispatchVars
<1>2. CASE Stop
  BY <1>2 DEF TypeOK, Stop, legVars, chanVars, dispatchVars
<1>3. ASSUME NEW u \in Upstreams, Expire(u) PROVE TypeOK'
  <2>1. pool' \in [Upstreams -> 0..MaxIdleConns]
    BY <1>3, <1>a DEF Expire
  <2> QED
    BY <1>3, <2>1 DEF TypeOK, Expire, legVars, chanVars, dispatchVars
<1>4. ASSUME NEW q \in Queries, Delegate(q) PROVE TypeOK'
  BY <1>4 DEF TypeOK, Delegate, Return, ClientWrite, legVars, chanVars
<1>5. ASSUME NEW q \in Queries, Dispatch(q) PROVE TypeOK'
  BY <1>5 DEF TypeOK, Dispatch, chanVars
<1>6. ASSUME NEW q \in Queries, Receive(q) PROVE TypeOK'
  <2> DEFINE n == taken[q] + 1
             u == sent[q][n]
  <2>0. taken[q] \in Nat /\ sent[q] \in Seq(Upstreams) /\ taken[q] < Len(sent[q])
    BY <1>6 DEF Receive, TypeOK
  <2>1. n \in Nat /\ u \in Upstreams
    BY <2>0
  <2>2. res[q][u].err \in Errors
    BY <2>1, <1>b DEF Errors
  <2>3. taken' \in [Queries -> Nat]
    <3>1. taken' = [taken EXCEPT ![q] = n]
      BY <1>6 DEF Receive
    <3>2. taken \in [Queries -> Nat]
      BY DEF TypeOK
    <3> QED
      BY <2>1, <3>1, <3>2
  <2>4. fallback' \in [Queries -> Upstreams \cup {NoLeg}]
    BY <1>6, <2>1 DEF Receive, TypeOK
  <2>5. lastErr' \in [Queries -> Errors]
    BY <1>6, <2>2 DEF Receive, TypeOK, Errors
  <2>6. \/ UNCHANGED <<phase, outcome, replies>>
        \/ \E how \in {"won", "fallback", "failed"}, by \in Upstreams \cup {NoLeg},
              rc \in {"NOERROR", "SERVFAIL"}, w \in {0, 1} : Return(q, how, by, rc, w)
    <3>1. fallback[q] \in Upstreams \cup {NoLeg}
      BY DEF TypeOK
    <3>2. ASSUME NEW how \in {"won", "fallback"}, NEW by \in Upstreams \cup {NoLeg}, reply(q, how, by)
          PROVE  \E rc \in {"NOERROR", "SERVFAIL"}, w \in {0, 1} : Return(q, how, by, rc, w)
      BY <3>2 DEF reply
    <3> QED
      BY <1>6, <2>1, <3>1, <3>2 DEF Receive
  <2>7. /\ phase' \in [Queries -> {"absent", "waiting", "returned"}]
        /\ outcome' \in [Queries -> [how : {"open", "won", "fallback", "failed", "cancelled", "delegated"},
                                     by  : Upstreams \cup {NoLeg}]]
        /\ replies' \in [Queries -> Nat]
    <3>1. CASE UNCHANGED <<phase, outcome, replies>>
      BY <3>1 DEF TypeOK
    <3>2. ASSUME NEW how \in {"won", "fallback", "failed"}, NEW by \in Upstreams \cup {NoLeg},
                 NEW rc, NEW w \in {0, 1}, Return(q, how, by, rc, w)
          PROVE  /\ phase' \in [Queries -> {"absent", "waiting", "returned"}]
                 /\ outcome' \in [Queries -> [how : {"open", "won", "fallback", "failed", "cancelled", "delegated"},
                                              by  : Upstreams \cup {NoLeg}]]
                 /\ replies' \in [Queries -> Nat]
      <4>1. phase' \in [Queries -> {"absent", "waiting", "returned"}]
        BY <3>2 DEF Return, TypeOK
      <4>2. outcome' \in [Queries -> [how : {"open", "won", "fallback", "failed", "cancelled", "delegated"},
                                     by  : Upstreams \cup {NoLeg}]]
        BY <3>2 DEF Return, TypeOK
      <4>3. replies' \in [Queries -> Nat]
        BY <3>2 DEF Return, TypeOK
      <4> QED
        BY <4>1, <4>2, <4>3
    <3> QED
      BY <2>6, <3>1, <3>2
  <2> QED
    BY <1>6, <2>3, <2>4, <2>5, <2>7 DEF Receive, legVars, TypeOK
<1>7. ASSUME NEW q \in Queries, Cancel(q) PROVE TypeOK'
  BY <1>7 DEF TypeOK, Cancel, Return, ClientWrite, legVars, chanVars
<1>8. ASSUME NEW q \in Queries, NEW u \in Upstreams, Dial(q, u) PROVE TypeOK'
  <2>1. pool' \in [Upstreams -> 0..MaxIdleConns]
    BY <1>8, <1>a DEF Dial
  <2>2. legPc' \in [Queries -> [Upstreams -> {"idle", "dial", "io", "send", "done"}]]
    BY <1>8, <1>b DEF Dial
  <2>3. PICK c \in {"pooled", "fresh"} : conn' = [conn EXCEPT ![q][u] = c]
    BY <1>8 DEF Dial
  <2>4. conn' \in [Queries -> [Upstreams -> {"none", "pooled", "fresh"}]]
    BY <2>3, <1>b
  <2> QED
    BY <1>8, <2>1, <2>2, <2>4 DEF TypeOK, Dial, chanVars, dispatchVars
<1>9. ASSUME NEW q \in Queries, NEW u \in Upstreams, StaleConn(q, u) PROVE TypeOK'
  <2>1. attempts[q][u] \in Nat /\ attempts[q][u] < MaxConnectAttempts
    BY <1>9, <1>c DEF StaleConn, LegInv, LegOK, Running
  <2>2. attempts' \in [Queries -> [Upstreams -> 0..MaxConnectAttempts]]
    BY <1>9, <2>1 DEF StaleConn, TypeOK
  <2>3. drained' \in [Queries -> [Upstreams -> Nat]]
    BY <1>9, <1>c DEF StaleConn
  <2>4. Result(NoMsg, "stale") \in ResType
    BY DEF Result, LegErrors
  <2>5. /\ legPc' \in [Queries -> [Upstreams -> {"idle", "dial", "io", "send", "done"}]]
        /\ conn' \in [Queries -> [Upstreams -> {"none", "pooled", "fresh"}]]
        /\ res' \in [Queries -> [Upstreams -> ResType]]
    <3>1. CASE Finish(q, u, Result(NoMsg, "stale"))
      BY <1>d, <2>4, <3>1
    <3>2. CASE /\ legPc' = [legPc EXCEPT ![q][u] = "dial"]
               /\ conn' = [conn EXCEPT ![q][u] = "none"]
               /\ UNCHANGED res
      <4>1. legPc' \in [Queries -> [Upstreams -> {"idle", "dial", "io", "send", "done"}]]
        BY <3>2, <1>b
      <4>2. conn' \in [Queries -> [Upstreams -> {"none", "pooled", "fresh"}]]
        BY <3>2, <1>b
      <4> QED
        BY <3>2, <4>1, <4>2, <1>b
    <3> QED
      BY <1>9, <3>1, <3>2 DEF StaleConn
  <2> QED
    BY <1>9, <2>2, <2>3, <2>5 DEF TypeOK, StaleConn, Discard, chanVars, dispatchVars
<1>10. ASSUME NEW q \in Queries, NEW u \in Upstreams, Failed(q, u) PROVE TypeOK'
  <2>1. Result(NoMsg, "io") \in ResType
    BY DEF Result, LegErrors
  <2> QED
    BY <1>10, <1>d, <2>1 DEF TypeOK, Failed, Discard, chanVars, dispatchVars
<1>11. ASSUME NEW q \in Queries, NEW u \in Upstreams, Replied(q, u) PROVE TypeOK'
  <2>1. pool' \in [Upstreams -> 0..MaxIdleConns]
    BY <1>11, <1>a DEF Replied, Yield
  <2>2. refills' \in [Queries -> [Upstreams -> Nat]]
    BY <1>11, <1>c DEF Replied, Yield
  <2>3. PICK r \in ResType : Finish(q, u, r)
    BY <1>11 DEF Replied, Mismatch, Result, LegErrors
  <2> QED
    BY <1>11, <1>d, <2>1, <2>2, <2>3 DEF TypeOK, Replied, chanVars, dispatchVars
<1>12. ASSUME NEW q \in Queries, NEW u \in Upstreams, Send(q, u) PROVE TypeOK'
  <2>1. legPc' \in [Queries -> [Upstreams -> {"idle", "dial", "io", "send", "done"}]]
    BY <1>12, <1>b DEF Send
  <2>2. sent' \in [Queries -> Seq(Upstreams)]
    BY <1>12 DEF Send, TypeOK
  <2> QED
    BY <1>12, <2>1, <2>2 DEF TypeOK, Send, dispatchVars
<1>13. CASE UNCHANGED vars
  BY <1>13 DEF TypeOK, vars, legVars, chanVars, dispatchVars
<1> QED
  BY <1>1, <1>2, <1>3, <1>4, <1>5, <1>6, <1>7, <1>8, <1>9, <1>10, <1>11, <1>12, <1>13
  DEF Next, LegStep

LEMMA LegStepInv == TypeOK /\ LegInv /\ [Next]_vars => LegInv'
<1> SUFFICES ASSUME TypeOK, LegInv, [Next]_vars, NEW p \in Queries, NEW v \in Upstreams
             PROVE  LegOK(p, v)'
  BY DEF LegInv
<1> USE ConstantFacts
<1>a. LegOK(p, v)
  BY DEF LegInv
<1>b. /\ legPc \in [Queries -> [Upstreams -> {"idle", "dial", "io", "send", "done"}]]
      /\ conn \in [Queries -> [Upstreams -> {"none", "pooled", "fresh"}]]
  BY DEF TypeOK
<1>c. /\ attempts \in [Queries -> [Upstreams -> Nat]]
      /\ drained \in [Queries -> [Upstreams -> Nat]]
      /\ refills \in [Queries -> [Upstreams -> Nat]]
  BY DEF TypeOK
<1>1. ASSUME UNCHANGED legVars, phase'[p] = "absent" => phase[p] = "absent"
      PROVE  LegOK(p, v)'
  BY <1>1, <1>a DEF legVars, LegOK, Running
<1>2. ASSUME NEW q \in Queries, Dispatch(q) PROVE LegOK(p, v)'
  <2>1. CASE p = q
    <3>1. phase'[p] = "waiting" /\ legPc'[p][v] = "dial" /\ legPc[p][v] = "idle"
      BY <1>2, <1>a, <1>b, <2>1 DEF Dispatch, LegOK, TypeOK
    <3> QED
      BY <1>2, <1>a, <3>1 DEF Dispatch, LegOK, Running
  <2>2. CASE p # q
    <3>1. phase'[p] = phase[p] /\ legPc'[p] = legPc[p]
      BY <1>2, <1>b, <2>2 DEF Dispatch, TypeOK
    <3> QED
      BY <1>2, <1>a, <3>1 DEF Dispatch, LegOK, Running
  <2> QED
    BY <2>1, <2>2
<1>3. ASSUME NEW q \in Queries, NEW u \in Upstreams, Dial(q, u) PROVE LegOK(p, v)'
  <2>1. CASE p = q /\ v = u
    BY <1>3, <1>a, <1>b, <2>1 DEF Dial, LegOK, Running, dispatchVars
  <2>2. CASE ~(p = q /\ v = u)
    <3>1. legPc'[p][v] = legPc[p][v] /\ conn'[p][v] = conn[p][v]
      BY <1>3, <1>b, <2>2 DEF Dial
    <3> QED
      BY <1>3, <1>a, <3>1 DEF Dial, LegOK, Running, dispatchVars
  <2> QED
    BY <2>1, <2>2
<1>d. ASSUME NEW q \in Queries, NEW u \in Upstreams, NEW r, Finish(q, u, r)
      PROVE  IF p = q /\ v = u THEN legPc'[p][v] = "send" /\ conn'[p][v] = "none"
                               ELSE legPc'[p][v] = legPc[p][v] /\ conn'[p][v] = conn[p][v]
  BY <1>b, <1>d DEF Finish
<1>4. ASSUME NEW q \in Queries, NEW u \in Upstreams, StaleConn(q, u) PROVE LegOK(p, v)'
  <2>1. CASE p = q /\ v = u
    <3>1. CASE Finish(q, u, Result(NoMsg, "stale"))
      BY <1>4, <1>a, <1>d, <2>1, <3>1 DEF StaleConn, LegOK, Running, dispatchVars
    <3>2. CASE /\ attempts[q][u] + 1 < MaxConnectAttempts
               /\ legPc' = [legPc EXCEPT ![q][u] = "dial"]
               /\ conn' = [conn EXCEPT ![q][u] = "none"]
      BY <1>4, <1>a, <1>b, <1>c, <2>1, <3>2 DEF StaleConn, LegOK, Running, dispatchVars
    <3> QED
      BY <1>4, <3>1, <3>2 DEF StaleConn
  <2>2. CASE ~(p = q /\ v = u)
    <3>1. attempts'[p][v] = attempts[p][v] /\ drained'[p][v] = drained[p][v]
      BY <1>4, <1>c, <2>2 DEF StaleConn
    <3>2. legPc'[p][v] = legPc[p][v] /\ conn'[p][v] = conn[p][v]
      BY <1>4, <1>b, <1>d, <2>2 DEF StaleConn
    <3> QED
      BY <1>4, <1>a, <3>1, <3>2 DEF StaleConn, LegOK, Running, dispatchVars
  <2> QED
    BY <2>1, <2>2
<1>5. ASSUME NEW q \in Queries, NEW u \in Upstreams, Failed(q, u) PROVE LegOK(p, v)'
  BY <1>5, <1>a, <1>d DEF Failed, LegOK, Running, dispatchVars
<1>6. ASSUME NEW q \in Queries, NEW u \in Upstreams, Replied(q, u) PROVE LegOK(p, v)'
  <2>1. PICK r : Finish(q, u, r)
    BY <1>6 DEF Replied, Mismatch
  <2>2. legPc[p][v] = "idle" => refills'[p][v] = refills[p][v]
    <3>1. CASE refills' = refills
      BY <3>1
    <3>2. CASE refills' = [x \in Queries |-> [y \in Upstreams |->
                             IF y = u /\ x # q /\ Running(x, y)
                             THEN refills[x][y] + 1 ELSE refills[x][y]]]
      <4>1. refills'[p][v] = IF v = u /\ p # q /\ Running(p, v)
                             THEN refills[p][v] + 1 ELSE refills[p][v]
        BY <3>2
      <4> QED
        BY <4>1 DEF Running
    <3> QED
      BY <1>6, <3>1, <3>2 DEF Replied, Yield
  <2>5. UNCHANGED <<phase, attempts, drained>>
    BY <1>6 DEF Replied, dispatchVars
  <2>3. CASE p = q /\ v = u
    <3>1. legPc'[p][v] = "send" /\ conn'[p][v] = "none" /\ legPc[p][v] = "io"
      BY <1>6, <1>d, <2>1, <2>3 DEF Replied
    <3> QED
      BY <1>a, <2>5, <3>1 DEF LegOK, Running
  <2>4. CASE ~(p = q /\ v = u)
    <3>1. legPc'[p][v] = legPc[p][v] /\ conn'[p][v] = conn[p][v]
      BY <1>d, <2>1, <2>4
    <3> QED
      BY <1>a, <2>2, <2>5, <3>1 DEF LegOK, Running
  <2> QED
    BY <2>3, <2>4
<1>7. ASSUME NEW q \in Queries, NEW u \in Upstreams, Send(q, u) PROVE LegOK(p, v)'
  <2>1. legPc'[p][v] = IF p = q /\ v = u THEN "done" ELSE legPc[p][v]
    BY <1>7, <1>b DEF Send
  <2> QED
    BY <1>7, <1>a, <2>1 DEF Send, LegOK, Running, dispatchVars
<1>8. CASE Start \/ Stop \/ (\E u \in Upstreams : Expire(u))
  BY <1>8, <1>1 DEF Start, Stop, Expire, dispatchVars
<1>9. ASSUME NEW q \in Queries, Delegate(q) \/ Receive(q) \/ Cancel(q) PROVE LegOK(p, v)'
  <2>1. phase' = phase \/ phase' = [phase EXCEPT ![q] = "returned"]
    BY <1>9 DEF Delegate, Receive, Cancel, reply, Return
  <2>2. phase'[p] = "absent" => phase[p] = "absent"
    BY <2>1 DEF TypeOK
  <2> QED
    BY <1>9, <1>1, <2>2 DEF Delegate, Receive, Cancel
<1>10. CASE UNCHANGED vars
  BY <1>10, <1>1 DEF vars, dispatchVars
<1> QED
  BY <1>2, <1>3, <1>4, <1>5, <1>6, <1>7, <1>8, <1>9, <1>10 DEF Next, LegStep

LEMMA PoolStepInv == TypeOK /\ LegInv /\ PoolInv /\ [Next]_vars => PoolInv'
<1> SUFFICES ASSUME TypeOK, LegInv, PoolInv, [Next]_vars, NEW p \in Queries, NEW v \in Upstreams
             PROVE  PoolOK(p, v)'
  BY DEF PoolInv
<1> USE ConstantFacts
<1>a. PoolOK(p, v) /\ LegOK(p, v)
  BY DEF PoolInv, LegInv
<1>b. /\ legPc \in [Queries -> [Upstreams -> {"idle", "dial", "io", "send", "done"}]]
      /\ conn \in [Queries -> [Upstreams -> {"none", "pooled", "fresh"}]]
  BY DEF TypeOK
<1>c. /\ drained \in [Queries -> [Upstreams -> Nat]]
      /\ refills \in [Queries -> [Upstreams -> Nat]]
      /\ drained[p][v] \in Nat
      /\ refills[p][v] \in Nat
  BY DEF TypeOK
<1>e. pool \in [Upstreams -> 0..MaxIdleConns] /\ pool[v] \in Nat /\ pool[v] <= MaxIdleConns
  BY DEF TypeOK
<1>f. Held(p, v) \in Nat
  BY DEF Held
<1>1. ASSUME UNCHANGED legVars, pool'[v] \in Nat, pool'[v] <= pool[v] PROVE PoolOK(p, v)'
  <2>1. Held(p, v)' = Held(p, v)
    BY <1>1 DEF legVars, Held
  <2> QED
    BY <1>1, <1>a, <1>c, <1>e, <1>f, <2>1 DEF legVars, PoolOK, Running
<1>2. ASSUME NEW q \in Queries, Dispatch(q) PROVE PoolOK(p, v)'
  <2>1. CASE p = q
    <3>1. Held(p, v)' = 0 /\ drained[p][v] = 0
      BY <1>2, <1>a, <2>1, <1>b DEF Held, LegOK, Dispatch
    <3> QED
      BY <1>2, <1>c, <1>e, <3>1 DEF Dispatch, PoolOK, Running
  <2>2. CASE p # q
    BY <1>2, <1>a, <1>b, <2>2 DEF Dispatch, PoolOK, Running, Held
  <2> QED
    BY <2>1, <2>2
<1>3. ASSUME NEW q \in Queries, NEW u \in Upstreams, Dial(q, u) PROVE PoolOK(p, v)'
  <2>1. CASE p = q /\ v = u
    <3>1. /\ legPc[p][v] = "dial" /\ conn[p][v] = "none"
          /\ drained'[p][v] = drained[p][v] /\ refills'[p][v] = refills[p][v]
      BY <1>3, <1>a, <2>1 DEF Dial, LegOK
    <3>2. CASE pool[u] > 0
      <4>1. pool'[v] = pool[v] - 1 /\ conn'[p][v] = "pooled"
        BY <1>3, <1>b, <1>e, <2>1, <3>2 DEF Dial
      <4> QED
        BY <1>a, <1>c, <1>e, <3>1, <4>1 DEF PoolOK, Held, Running
    <3>3. CASE pool[u] = 0
      <4>1. pool'[v] = pool[v] /\ conn'[p][v] = "fresh"
        BY <1>3, <1>b, <1>e, <2>1, <3>3 DEF Dial
      <4> QED
        BY <1>a, <1>c, <1>e, <3>1, <4>1 DEF PoolOK, Held, Running
    <3> QED
      BY <1>3, <2>1, <3>2, <3>3 DEF Dial
  <2>2. CASE ~(p = q /\ v = u)
    <3>1. legPc'[p][v] = legPc[p][v] /\ conn'[p][v] = conn[p][v]
      BY <1>3, <1>b, <2>2 DEF Dial
    <3>2. pool'[v] \in Nat /\ pool'[v] <= pool[v]
      BY <1>3, <1>e DEF Dial
    <3>3. drained' = drained /\ refills' = refills
      BY <1>3 DEF Dial
    <3> QED
      BY <1>a, <1>c, <1>e, <3>1, <3>2, <3>3 DEF PoolOK, Running, Held
  <2> QED
    BY <2>1, <2>2
<1>d. ASSUME NEW q \in Queries, NEW u \in Upstreams, NEW r, Finish(q, u, r)
      PROVE  IF p = q /\ v = u THEN legPc'[p][v] = "send" /\ conn'[p][v] = "none"
                               ELSE legPc'[p][v] = legPc[p][v] /\ conn'[p][v] = conn[p][v]
  BY <1>b, <1>d DEF Finish
<1>4. ASSUME NEW q \in Queries, NEW u \in Upstreams, StaleConn(q, u) PROVE PoolOK(p, v)'
  <2>1. pool' = pool /\ refills' = refills
    BY <1>4 DEF StaleConn, Discard
  <2>2. CASE p = q /\ v = u
    <3>1. /\ legPc[p][v] = "io"
          /\ drained'[p][v] = drained[p][v] + Held(p, v)
      BY <1>4, <1>c, <2>2 DEF StaleConn, Held
    <3>2. conn'[p][v] = "none"
      BY <1>4, <1>b, <1>d, <2>2 DEF StaleConn
    <3> QED
      BY <1>a, <1>c, <1>e, <1>f, <2>1, <3>1, <3>2 DEF PoolOK, Running, Held
  <2>3. CASE ~(p = q /\ v = u)
    <3>1. drained'[p][v] = drained[p][v]
      BY <1>4, <1>c, <2>3 DEF StaleConn
    <3>2. legPc'[p][v] = legPc[p][v] /\ conn'[p][v] = conn[p][v]
      BY <1>4, <1>b, <1>d, <2>3 DEF StaleConn
    <3> QED
      BY <1>a, <2>1, <3>1, <3>2 DEF PoolOK, Running, Held
  <2> QED
    BY <2>2, <2>3
<1>5. ASSUME NEW q \in Queries, NEW u \in Upstreams, Failed(q, u) PROVE PoolOK(p, v)'
  <2>1. pool' = pool /\ refills' = refills /\ drained' = drained
    BY <1>5 DEF Failed, Discard
  <2>2. CASE p = q /\ v = u
    BY <1>5, <1>a, <1>d, <2>1, <2>2 DEF Failed, PoolOK, Running
  <2>3. CASE ~(p = q /\ v = u)
    <3>1. legPc'[p][v] = legPc[p][v] /\ conn'[p][v] = conn[p][v]
      BY <1>5, <1>d, <2>3 DEF Failed
    <3> QED
      BY <1>a, <2>1, <3>1 DEF PoolOK, Running, Held
  <2> QED
    BY <2>2, <2>3
<1>6. ASSUME NEW q \in Queries, NEW u \in Upstreams, Replied(q, u) PROVE PoolOK(p, v)'
  <2>1. PICK r : Finish(q, u, r)
    BY <1>6 DEF Replied, Mismatch
  <2>2. drained' = drained
    BY <1>6 DEF Replied
  <2>3. refills'[p][v] \in Nat /\ refills'[p][v] >= refills[p][v]
    BY <1>6, <1>c DEF Replied, Yield
  <2>4. CASE p = q /\ v = u
    <3>1. legPc'[p][v] = "send"
      BY <1>d, <2>1, <2>4
    <3> QED
      BY <1>a, <1>c, <2>2, <2>3, <3>1 DEF PoolOK, Running
  <2>5. CASE ~(p = q /\ v = u)
    <3>1. legPc'[p][v] = legPc[p][v] /\ conn'[p][v] = conn[p][v]
      BY <1>d, <2>1, <2>5
    <3>2. Running(p, v) => /\ pool'[v] \in Nat
                           /\ pool'[v] - pool[v] <= refills'[p][v] - refills[p][v]
      BY <1>6, <1>c, <1>e, <2>5 DEF Replied, Yield
    <3> QED
      BY <1>a, <1>c, <1>e, <2>2, <2>3, <3>1, <3>2 DEF PoolOK, Running, Held
  <2> QED
    BY <2>4, <2>5
<1>7. ASSUME NEW q \in Queries, NEW u \in Upstreams, Send(q, u) PROVE PoolOK(p, v)'
  <2>1. legPc'[p][v] = IF p = q /\ v = u THEN "done" ELSE legPc[p][v]
    BY <1>7, <1>b DEF Send
  <2> QED
    BY <1>7, <1>a, <2>1 DEF Send, PoolOK, Running, Held
<1>8. CASE Start
  BY <1>8, <1>1, <1>e DEF Start
<1>9. CASE Stop
  BY <1>9, <1>1, <1>e DEF Stop
<1>10. ASSUME NEW u \in Upstreams, Expire(u) PROVE PoolOK(p, v)'
  BY <1>10, <1>1, <1>e DEF Expire
<1>11. ASSUME NEW q \in Queries, Delegate(q) \/ Receive(q) \/ Cancel(q) PROVE PoolOK(p, v)'
  BY <1>11, <1>1, <1>e DEF Delegate, Receive, Cancel
<1>12. CASE UNCHANGED vars
  BY <1>12, <1>1, <1>e DEF vars
<1> QED
  BY <1>2, <1>3, <1>4, <1>5, <1>6, <1>7, <1>8, <1>9, <1>10, <1>11, <1>12 DEF Next, LegStep

(***************************************************************************)
(* Every reachable state is well typed: in particular no pool ever exceeds *)
(* maxIdleConns and no leg makes more than maxConnectAttempts attempts.    *)
(***************************************************************************)
THEOREM TypeCorrect == Spec => []TypeOK
<1>1. Init => TypeOK /\ LegInv
  BY TypeInit
<1>2. TypeOK /\ LegInv /\ [Next]_vars => (TypeOK /\ LegInv)'
  BY TypeStep, LegStepInv
<1> QED
  BY <1>1, <1>2, PTL DEF Spec

(***************************************************************************)
(* A leg throws away at most a full pool plus what other legs put back     *)
(* while it ran, whatever the pool's depth and the number of queries.      *)
(***************************************************************************)
THEOREM DrainIsBounded == Spec => []DrainBound
<1>1. Init => TypeOK /\ LegInv /\ PoolInv
  BY TypeInit
<1>2. TypeOK /\ LegInv /\ PoolInv /\ [Next]_vars => (TypeOK /\ LegInv /\ PoolInv)'
  BY TypeStep, LegStepInv, PoolStepInv
<1>3. PoolInv => DrainBound
  BY DEF PoolInv, PoolOK, DrainBound
<1> QED
  BY <1>1, <1>2, <1>3, PTL DEF Spec

-------------------------------------------------------------------------------
(***************************************************************************)
(* The contest: what the channel and dispatch's tally say about the legs.  *)
(***************************************************************************)

Done(q) == {u \in Upstreams : legPc[q][u] = "done"}

Causes == {"io", "stale", "mismatch"}

\* The channel has carried every finished leg exactly once.
ChanOK(q) ==
  /\ Len(sent[q]) = Cardinality(Done(q))
  /\ \A i \in 1..Len(sent[q]) : sent[q][i] \in Done(q)
  /\ \A u \in Done(q) : \E i \in 1..Len(sent[q]) : sent[q][i] = u
  /\ taken[q] <= Len(sent[q])

\* A leg without a message has an error.
ResOK(q) ==
  \A u \in Upstreams :
    legPc[q][u] \in {"send", "done"} => \/ res[q][u].msg # NoMsg
                                        \/ res[q][u].err \in Causes

\* Where dispatch is, what the client has seen.
PhaseOK(q) ==
  /\ phase[q] # "returned" => outcome[q] = Undecided /\ replies[q] = 0
  /\ phase[q] = "returned" => replies[q] = 1
  /\ phase[q] = "absent" => /\ sent[q] = <<>>
                            /\ taken[q] = 0
                            /\ fallback[q] = NoLeg
                            /\ lastErr[q] = "nil"
  /\ outcome[q].how = "failed" => lastErr[q] \in Causes

\* While dispatch waits, nothing it has received was useful, and fallback and
\* lastErr summarise what it has received.
TallyOK(q) ==
  phase[q] = "waiting" =>
    /\ \A i \in 1..taken[q] : ~useful(res[q][sent[q][i]].msg)
    /\ fallback[q] = NoLeg => \A i \in 1..taken[q] : res[q][sent[q][i]].msg = NoMsg
    /\ fallback[q] # NoLeg => fallback[q] \in Done(q) /\ res[q][fallback[q]].msg # NoMsg
    /\ lastErr[q] \in Causes \cup {"nil"}
    /\ (\E i \in 1..taken[q] : res[q][sent[q][i]].msg = NoMsg) => lastErr[q] # "nil"

DispatchInv == \A q \in Queries : ChanOK(q) /\ ResOK(q) /\ PhaseOK(q) /\ TallyOK(q)

IInv == TypeOK /\ LegInv /\ DispatchInv

LEMMA DispatchInit == Init => DispatchInv
<1> SUFFICES ASSUME Init, NEW q \in Queries PROVE ChanOK(q) /\ ResOK(q) /\ PhaseOK(q) /\ TallyOK(q)
  BY DEF DispatchInv
<1>1. Done(q) = {}
  BY DEF Init, Done
<1>2. Len(sent[q]) = 0 /\ Cardinality(Done(q)) = 0
  BY <1>1, FS_EmptySet DEF Init
<1>3. ChanOK(q)
  BY <1>1, <1>2 DEF Init, ChanOK
<1> QED
  BY <1>3 DEF Init, ResOK, PhaseOK, TallyOK, Undecided

\* A finished leg keeps its result, and only Send finishes a leg.
LEMMA LegEffect ==
  ASSUME TypeOK, LegInv, [Next]_vars
  PROVE  /\ \A q \in Queries, u \in Upstreams :
              legPc[q][u] = "done" => legPc'[q][u] = "done" /\ res'[q][u] = res[q][u]
         /\ \/ /\ sent' = sent
               /\ \A q \in Queries, u \in Upstreams : legPc'[q][u] = "done" => legPc[q][u] = "done"
            \/ \E q \in Queries, u \in Upstreams : Send(q, u)
<1> DEFINE Keeps == \A q \in Queries, u \in Upstreams :
                      legPc[q][u] = "done" => legPc'[q][u] = "done" /\ res'[q][u] = res[q][u]
           Quiet == /\ sent' = sent
                    /\ \A q \in Queries, u \in Upstreams :
                         legPc'[q][u] = "done" => legPc[q][u] = "done"
<1>b. /\ legPc \in [Queries -> [Upstreams -> {"idle", "dial", "io", "send", "done"}]]
      /\ res \in [Queries -> [Upstreams -> [msg : Replies \cup {NoMsg}, err : LegErrors]]]
  BY DEF TypeOK
<1>1. CASE UNCHANGED <<legPc, res, sent>>
  BY <1>1
<1>2. ASSUME NEW q \in Queries, Dispatch(q) PROVE Keeps /\ Quiet
  <2>1. \A u \in Upstreams : legPc[q][u] = "idle"
    BY <1>2 DEF Dispatch, LegInv, LegOK
  <2> QED
    BY <1>2, <1>b, <2>1 DEF Dispatch, chanVars
<1>3. ASSUME NEW q \in Queries, NEW u \in Upstreams, NEW r, legPc[q][u] = "io",
             Finish(q, u, r), sent' = sent
      PROVE  Keeps /\ Quiet
  BY <1>3, <1>b DEF Finish
<1>4. ASSUME NEW q \in Queries, NEW u \in Upstreams, Dial(q, u) PROVE Keeps /\ Quiet
  BY <1>4, <1>b DEF Dial, chanVars
<1>5. ASSUME NEW q \in Queries, NEW u \in Upstreams, StaleConn(q, u) PROVE Keeps /\ Quiet
  <2>1. legPc[q][u] = "io" /\ sent' = sent
    BY <1>5 DEF StaleConn, chanVars
  <2>2. CASE legPc' = [legPc EXCEPT ![q][u] = "dial"] /\ UNCHANGED res
    BY <1>b, <2>1, <2>2
  <2> QED
    BY <1>3, <1>5, <2>1, <2>2 DEF StaleConn
<1>6. ASSUME NEW q \in Queries, NEW u \in Upstreams, Failed(q, u) PROVE Keeps /\ Quiet
  BY <1>3, <1>6 DEF Failed, chanVars
<1>7. ASSUME NEW q \in Queries, NEW u \in Upstreams, Replied(q, u) PROVE Keeps /\ Quiet
  BY <1>3, <1>7 DEF Replied, Mismatch, chanVars
<1>8. ASSUME NEW q \in Queries, NEW u \in Upstreams, Send(q, u) PROVE Keeps
  BY <1>8, <1>b DEF Send
<1>9. CASE Start \/ Stop \/ (\E u \in Upstreams : Expire(u))
  BY <1>9, <1>1 DEF Start, Stop, Expire, legVars, chanVars
<1>10. CASE \E q \in Queries : Delegate(q) \/ Receive(q) \/ Cancel(q)
  BY <1>10, <1>1 DEF Delegate, Receive, Cancel, legVars, chanVars
<1>11. CASE UNCHANGED vars
  BY <1>11, <1>1 DEF vars, legVars, chanVars
<1> QED
  BY <1>2, <1>4, <1>5, <1>6, <1>7, <1>8, <1>9, <1>10, <1>11 DEF Next, LegStep

LEMMA DoneFinite ==
  ASSUME NEW q \in Queries
  PROVE  /\ Done(q) \subseteq Upstreams
         /\ IsFiniteSet(Done(q))
         /\ Cardinality(Done(q)) \in Nat
         /\ Cardinality(Done(q)) <= Cardinality(Upstreams)
         /\ Cardinality(Done(q)) = Cardinality(Upstreams) => Done(q) = Upstreams
<1>1. Done(q) \subseteq Upstreams
  BY DEF Done
<1> QED
  BY <1>1, UpstreamsAssumption, FS_Subset, FS_CardinalityType

LEMMA ChanStep ==
  ASSUME TypeOK, LegInv, DispatchInv, [Next]_vars, NEW p \in Queries
  PROVE  ChanOK(p)'
<1>a. ChanOK(p)
  BY DEF DispatchInv
<1>b. /\ legPc \in [Queries -> [Upstreams -> {"idle", "dial", "io", "send", "done"}]]
      /\ sent \in [Queries -> Seq(Upstreams)]
      /\ taken \in [Queries -> Nat]
  BY DEF TypeOK
<1>1. CASE \E q \in Queries, u \in Upstreams : Send(q, u)
  <2>1. PICK q \in Queries, u \in Upstreams : Send(q, u)
    BY <1>1
  <2>2. CASE p = q
    <3>1. /\ u \notin Done(p)
          /\ Done(p)' = Done(p) \cup {u}
      BY <1>b, <2>1, <2>2 DEF Done, Send
    <3>2. Cardinality(Done(p)') = Cardinality(Done(p)) + 1
      BY <3>1, DoneFinite, FS_AddElement
    <3>3. sent'[p] = Append(sent[p], u) /\ taken'[p] = taken[p]
      BY <1>b, <2>1, <2>2 DEF Send
    <3>4. sent[p] \in Seq(Upstreams) /\ taken[p] \in Nat
      BY <1>b
    <3>5. /\ Len(sent'[p]) = Len(sent[p]) + 1
          /\ \A i \in 1..Len(sent[p]) : sent'[p][i] = sent[p][i]
          /\ sent'[p][Len(sent[p]) + 1] = u
      BY <3>3, <3>4
    <3>6. \A i \in 1..Len(sent'[p]) : sent'[p][i] \in Done(p)'
      <4> SUFFICES ASSUME NEW i \in 1..Len(sent'[p]) PROVE sent'[p][i] \in Done(p)'
        OBVIOUS
      <4>1. CASE i \in 1..Len(sent[p])
        BY <1>a, <3>1, <3>5, <4>1 DEF ChanOK
      <4>2. CASE i = Len(sent[p]) + 1
        BY <3>1, <3>5, <4>2
      <4>3. Len(sent[p]) \in Nat
        BY <3>4
      <4> QED
        BY <3>5, <4>1, <4>2, <4>3
    <3>7. \A w \in Done(p)' : \E i \in 1..Len(sent'[p]) : sent'[p][i] = w
      <4> SUFFICES ASSUME NEW w \in Done(p)' PROVE \E i \in 1..Len(sent'[p]) : sent'[p][i] = w
        OBVIOUS
      <4>1. Len(sent[p]) \in Nat
        BY <3>4
      <4>2. CASE w \in Done(p)
        <5>1. PICK i \in 1..Len(sent[p]) : sent[p][i] = w
          BY <1>a, <4>2 DEF ChanOK
        <5>2. i \in 1..Len(sent'[p]) /\ sent'[p][i] = w
          BY <3>5, <4>1, <5>1
        <5> QED
          BY <5>2
      <4>3. CASE w = u
        <5>1. Len(sent[p]) + 1 \in 1..Len(sent'[p])
          BY <3>5, <4>1
        <5> QED
          BY <3>5, <4>3, <5>1
      <4> QED
        BY <3>1, <4>2, <4>3
    <3> QED
      BY <1>a, <3>2, <3>3, <3>4, <3>5, <3>6, <3>7 DEF ChanOK
  <2>3. CASE p # q
    <3>1. Done(p)' = Done(p) /\ sent'[p] = sent[p] /\ taken'[p] = taken[p]
      BY <1>b, <2>1, <2>3 DEF Done, Send
    <3> QED
      BY <1>a, <3>1 DEF ChanOK
  <2> QED
    BY <2>2, <2>3
<1>2. CASE ~\E q \in Queries, u \in Upstreams : Send(q, u)
  <2>1. sent' = sent /\ Done(p)' = Done(p)
    BY <1>2, LegEffect DEF Done
  <2>2. taken'[p] <= Len(sent[p])
    <3>1. CASE taken' = taken
      BY <1>a, <3>1 DEF ChanOK
    <3>2. ASSUME NEW q \in Queries, Receive(q) PROVE taken'[p] <= Len(sent[p])
      <4>1. taken[q] < Len(sent[q]) /\ taken' = [taken EXCEPT ![q] = taken[q] + 1]
        BY <3>2 DEF Receive
      <4>2. taken[q] \in Nat /\ Len(sent[q]) \in Nat
        BY <1>b
      <4> QED
        BY <1>a, <1>b, <4>1, <4>2 DEF ChanOK
    <3>3. taken' = taken \/ \E q \in Queries : Receive(q)
      BY DEF Next, LegStep, Start, Stop, Expire, Delegate, Dispatch, Cancel, Dial, StaleConn,
             Failed, Replied, Send, chanVars, vars
    <3> QED
      BY <3>1, <3>2, <3>3
  <2> QED
    BY <1>a, <2>1, <2>2 DEF ChanOK
<1> QED
  BY <1>1, <1>2

LEMMA ResStep ==
  ASSUME TypeOK, LegInv, DispatchInv, [Next]_vars, NEW p \in Queries
  PROVE  ResOK(p)'
<1> SUFFICES ASSUME NEW v \in Upstreams, legPc'[p][v] \in {"send", "done"}
             PROVE  res'[p][v].msg # NoMsg \/ res'[p][v].err \in Causes
  BY DEF ResOK
<1>a. legPc[p][v] \in {"send", "done"} => res[p][v].msg # NoMsg \/ res[p][v].err \in Causes
  BY DEF DispatchInv, ResOK
<1>b. /\ legPc \in [Queries -> [Upstreams -> {"idle", "dial", "io", "send", "done"}]]
      /\ res \in [Queries -> [Upstreams -> [msg : Replies \cup {NoMsg}, err : LegErrors]]]
  BY DEF TypeOK
<1>1. ASSUME legPc[p][v] \in {"send", "done"}, res'[p][v] = res[p][v]
      PROVE  res'[p][v].msg # NoMsg \/ res'[p][v].err \in Causes
  BY <1>1, <1>a
<1>2. ASSUME NEW q \in Queries, NEW u \in Upstreams, NEW r, Finish(q, u, r),
             r.msg # NoMsg \/ r.err \in Causes
      PROVE  res'[p][v].msg # NoMsg \/ res'[p][v].err \in Causes
  <2>1. CASE p = q /\ v = u
    BY <1>2, <1>b, <2>1 DEF Finish
  <2>2. CASE ~(p = q /\ v = u)
    BY <1>1, <1>2, <1>b, <2>2 DEF Finish
  <2> QED
    BY <2>1, <2>2
<1>3. ASSUME NEW q \in Queries, Dispatch(q) PROVE legPc[p][v] \in {"send", "done"} /\ res' = res
  BY <1>3, <1>b DEF Dispatch
<1>4. ASSUME NEW q \in Queries, NEW u \in Upstreams, Dial(q, u) \/ Send(q, u)
      PROVE  legPc[p][v] \in {"send", "done"} /\ res' = res
  <2>1. CASE Dial(q, u)
    BY <2>1, <1>b DEF Dial
  <2>2. CASE Send(q, u)
    BY <2>2, <1>b DEF Send
  <2> QED
    BY <1>4, <2>1, <2>2
<1>5. ASSUME NEW q \in Queries, NEW u \in Upstreams, StaleConn(q, u)
      PROVE  res'[p][v].msg # NoMsg \/ res'[p][v].err \in Causes
  <2>1. CASE Finish(q, u, Result(NoMsg, "stale"))
    BY <1>2, <2>1 DEF Result, Causes
  <2>2. CASE legPc' = [legPc EXCEPT ![q][u] = "dial"] /\ UNCHANGED res
    BY <1>1, <1>b, <2>2
  <2> QED
    BY <1>5, <2>1, <2>2 DEF StaleConn
<1>6. ASSUME NEW q \in Queries, NEW u \in Upstreams, Failed(q, u)
      PROVE  res'[p][v].msg # NoMsg \/ res'[p][v].err \in Causes
  BY <1>2, <1>6 DEF Failed, Result, Causes
<1>7. ASSUME NEW q \in Queries, NEW u \in Upstreams, Replied(q, u)
      PROVE  res'[p][v].msg # NoMsg \/ res'[p][v].err \in Causes
  <2>1. CASE Mismatch(q, u)
    BY <1>2, <2>1 DEF Mismatch, Result, Causes
  <2>2. ASSUME NEW m \in Replies, Finish(q, u, Result(m, "nil"))
        PROVE  res'[p][v].msg # NoMsg \/ res'[p][v].err \in Causes
    BY <1>2, <2>2, NoMsgAssumption DEF Result
  <2> QED
    BY <1>7, <2>1, <2>2 DEF Replied
<1>8. CASE UNCHANGED <<legPc, res>>
  BY <1>1, <1>8
<1>9. CASE Start \/ Stop \/ (\E u \in Upstreams : Expire(u))
  BY <1>9, <1>8 DEF Start, Stop, Expire, legVars
<1>10. CASE \E q \in Queries : Delegate(q) \/ Receive(q) \/ Cancel(q)
  BY <1>10, <1>8 DEF Delegate, Receive, Cancel, legVars
<1>11. CASE UNCHANGED vars
  BY <1>11, <1>8 DEF vars, legVars
<1>12. ASSUME NEW q \in Queries, Dispatch(q)
       PROVE  res'[p][v].msg # NoMsg \/ res'[p][v].err \in Causes
  BY <1>1, <1>3, <1>12
<1>13. ASSUME NEW q \in Queries, NEW u \in Upstreams, Dial(q, u) \/ Send(q, u)
       PROVE  res'[p][v].msg # NoMsg \/ res'[p][v].err \in Causes
  BY <1>1, <1>4, <1>13
<1> QED
  BY <1>5, <1>6, <1>7, <1>9, <1>10, <1>11, <1>12, <1>13 DEF Next, LegStep

\* Only dispatch of q touches q's dispatch state.
DispatchOf(q) == <<phase[q], outcome[q], replies[q], fallback[q], lastErr[q], taken[q]>>

LEMMA DispatchFrame ==
  ASSUME TypeOK, [Next]_vars, NEW p \in Queries
  PROVE  \/ UNCHANGED DispatchOf(p)
         \/ Delegate(p) \/ Dispatch(p) \/ Receive(p) \/ Cancel(p)
<1>b. /\ phase \in [Queries -> {"absent", "waiting", "returned"}]
      /\ taken \in [Queries -> Nat]
      /\ fallback \in [Queries -> Upstreams \cup {NoLeg}]
      /\ lastErr \in [Queries -> Errors]
      /\ outcome \in [Queries -> [how : {"open", "won", "fallback", "failed", "cancelled", "delegated"},
                                  by  : Upstreams \cup {NoLeg}]]
      /\ replies \in [Queries -> Nat]
  BY DEF TypeOK
<1>1. ASSUME NEW q \in Queries, q # p, NEW how, NEW by, NEW rc, NEW w, Return(q, how, by, rc, w)
      PROVE  phase'[p] = phase[p] /\ outcome'[p] = outcome[p] /\ replies'[p] = replies[p]
  BY <1>1, <1>b DEF Return
<1>2. ASSUME NEW q \in Queries, q # p, Delegate(q) PROVE UNCHANGED DispatchOf(p)
  BY <1>1, <1>2 DEF Delegate, DispatchOf, chanVars
<1>3. ASSUME NEW q \in Queries, q # p, Dispatch(q) PROVE UNCHANGED DispatchOf(p)
  BY <1>3, <1>b DEF Dispatch, DispatchOf, chanVars
<1>4. ASSUME NEW q \in Queries, q # p, Receive(q) PROVE UNCHANGED DispatchOf(p)
  <2>1. phase'[p] = phase[p] /\ outcome'[p] = outcome[p] /\ replies'[p] = replies[p]
    <3>1. ASSUME NEW how, NEW by, reply(q, how, by)
          PROVE  phase'[p] = phase[p] /\ outcome'[p] = outcome[p] /\ replies'[p] = replies[p]
      BY <1>1, <1>4, <3>1 DEF reply
    <3> QED
      BY <1>1, <1>4, <3>1 DEF Receive
  <2>2. taken'[p] = taken[p] /\ fallback'[p] = fallback[p] /\ lastErr'[p] = lastErr[p]
    BY <1>4, <1>b DEF Receive
  <2> QED
    BY <2>1, <2>2 DEF DispatchOf
<1>5. ASSUME NEW q \in Queries, q # p, Cancel(q) PROVE UNCHANGED DispatchOf(p)
  BY <1>1, <1>5 DEF Cancel, DispatchOf, chanVars
<1>6. ASSUME NEW q \in Queries, NEW u \in Upstreams, LegStep(q, u) PROVE UNCHANGED DispatchOf(p)
  BY <1>6 DEF LegStep, Dial, StaleConn, Failed, Replied, Send, DispatchOf, chanVars, dispatchVars
<1>7. CASE Start \/ Stop \/ (\E u \in Upstreams : Expire(u)) \/ UNCHANGED vars
  BY <1>7 DEF Start, Stop, Expire, vars, DispatchOf, chanVars, dispatchVars
<1> QED
  BY <1>2, <1>3, <1>4, <1>5, <1>6, <1>7 DEF Next

\* What a return leaves behind, with and without a successful write.
LEMMA WrittenEffect ==
  ASSUME TypeOK, NEW p \in Queries, replies[p] = 0, NEW how, NEW by, Return(p, how, by, "NOERROR", 1)
  PROVE  /\ phase'[p] = "returned"
         /\ outcome' = [outcome EXCEPT ![p] = [how |-> how, by |-> by]]
         /\ replies'[p] = 1
<1>1. replies'[p] = replies[p] + 1 + (IF ClientWrite("NOERROR") THEN 0 ELSE 1)
  BY DEF Return, TypeOK
<1>2. ClientWrite("NOERROR")
  BY DEF ClientWrite
<1>3. replies'[p] = 1
  BY <1>1, <1>2
<1> QED
  BY <1>3 DEF Return, TypeOK

LEMMA ServfailEffect ==
  ASSUME TypeOK, NEW p \in Queries, replies[p] = 0, NEW how, NEW by, Return(p, how, by, "SERVFAIL", 0)
  PROVE  /\ phase'[p] = "returned"
         /\ outcome' = [outcome EXCEPT ![p] = [how |-> how, by |-> by]]
         /\ replies'[p] = 1
<1>1. replies'[p] = replies[p] + 0 + (IF ClientWrite("SERVFAIL") THEN 0 ELSE 1)
  BY DEF Return, TypeOK
<1>2. ~ClientWrite("SERVFAIL")
  BY DEF ClientWrite
<1>3. replies'[p] = 1
  BY <1>1, <1>2
<1> QED
  BY <1>3 DEF Return, TypeOK

LEMMA ReplyEffect ==
  ASSUME TypeOK, NEW p \in Queries, replies[p] = 0, NEW how, NEW by, reply(p, how, by)
  PROVE  /\ phase'[p] = "returned"
         /\ outcome' = [outcome EXCEPT ![p] = [how |-> how, by |-> by]]
         /\ replies'[p] = 1
BY WrittenEffect, ServfailEffect, Zenon DEF reply

\* The result dispatch receives next, and its tally once it has.
Incoming(p) == sent[p][taken[p] + 1]
FallbackNow(p) == IF res[p][Incoming(p)].msg # NoMsg THEN Incoming(p) ELSE fallback[p]
ErrNow(p) == IF res[p][Incoming(p)].err # "nil" THEN res[p][Incoming(p)].err ELSE lastErr[p]

\* The four ways one iteration of dispatch's loop can end.
WonBy(p) ==
  /\ useful(res[p][Incoming(p)].msg)
  /\ phase'[p] = "returned" /\ replies'[p] = 1
  /\ outcome' = [outcome EXCEPT ![p] = [how |-> "won", by |-> Incoming(p)]]

GoesOn(p) ==
  /\ ~useful(res[p][Incoming(p)].msg) /\ taken[p] + 1 # Cardinality(Upstreams)
  /\ phase'[p] = "waiting" /\ replies'[p] = 0
  /\ outcome' = outcome /\ lastErr'[p] = ErrNow(p)

FellBack(p) ==
  /\ ~useful(res[p][Incoming(p)].msg) /\ taken[p] + 1 = Cardinality(Upstreams)
  /\ FallbackNow(p) # NoLeg
  /\ phase'[p] = "returned" /\ replies'[p] = 1
  /\ outcome' = [outcome EXCEPT ![p] = [how |-> "fallback", by |-> FallbackNow(p)]]

GaveUp(p) ==
  /\ ~useful(res[p][Incoming(p)].msg) /\ taken[p] + 1 = Cardinality(Upstreams)
  /\ FallbackNow(p) = NoLeg
  /\ phase'[p] = "returned" /\ replies'[p] = 1
  /\ outcome' = [outcome EXCEPT ![p] = [how |-> "failed", by |-> NoLeg]]
  /\ lastErr'[p] = IF ErrNow(p) = "nil" THEN "noAnswer" ELSE ErrNow(p)

LEMMA ReceiveCases ==
  ASSUME TypeOK, NEW p \in Queries, Receive(p), PhaseOK(p)
  PROVE  /\ taken[p] \in Nat
         /\ taken[p] + 1 \in 1..Len(sent[p])
         /\ Incoming(p) \in Upstreams
         /\ taken'[p] = taken[p] + 1
         /\ fallback'[p] = FallbackNow(p)
         /\ WonBy(p) \/ GoesOn(p) \/ FellBack(p) \/ GaveUp(p)
<1>b. taken[p] \in Nat /\ sent[p] \in Seq(Upstreams) /\ taken[p] < Len(sent[p])
  BY DEF TypeOK, Receive
<1>1. taken[p] + 1 \in 1..Len(sent[p]) /\ Incoming(p) \in Upstreams
  BY <1>b DEF Incoming
<1>2. taken'[p] = taken[p] + 1 /\ fallback'[p] = FallbackNow(p)
  BY DEF Receive, TypeOK, FallbackNow, Incoming
<1>3. phase[p] = "waiting" /\ replies[p] = 0
  BY DEF Receive, PhaseOK
<1>4. \A x : lastErr' = [lastErr EXCEPT ![p] = x] => lastErr'[p] = x
  BY DEF TypeOK
<1>5. \/ useful(res[p][Incoming(p)].msg) /\ reply(p, "won", Incoming(p))
      \/ /\ ~useful(res[p][Incoming(p)].msg) /\ taken[p] + 1 # Cardinality(Upstreams)
         /\ UNCHANGED <<phase, outcome, replies>>
         /\ lastErr' = [lastErr EXCEPT ![p] = ErrNow(p)]
      \/ /\ ~useful(res[p][Incoming(p)].msg) /\ taken[p] + 1 = Cardinality(Upstreams)
         /\ FallbackNow(p) # NoLeg
         /\ reply(p, "fallback", FallbackNow(p))
      \/ /\ ~useful(res[p][Incoming(p)].msg) /\ taken[p] + 1 = Cardinality(Upstreams)
         /\ FallbackNow(p) = NoLeg
         /\ Return(p, "failed", NoLeg, "SERVFAIL", 0)
         /\ lastErr' = [lastErr EXCEPT ![p] = IF ErrNow(p) = "nil" THEN "noAnswer" ELSE ErrNow(p)]
  BY Zenon DEF Receive, LastLeg, FallbackNow, ErrNow, Incoming
<1>6. CASE useful(res[p][Incoming(p)].msg) /\ reply(p, "won", Incoming(p))
  BY <1>b, <1>1, <1>2, <1>3, <1>6, ReplyEffect DEF WonBy
<1>7. CASE /\ ~useful(res[p][Incoming(p)].msg) /\ taken[p] + 1 # Cardinality(Upstreams)
           /\ UNCHANGED <<phase, outcome, replies>>
           /\ lastErr' = [lastErr EXCEPT ![p] = ErrNow(p)]
  BY <1>b, <1>1, <1>2, <1>3, <1>4, <1>7 DEF GoesOn
<1>8. CASE /\ ~useful(res[p][Incoming(p)].msg) /\ taken[p] + 1 = Cardinality(Upstreams)
           /\ FallbackNow(p) # NoLeg
           /\ reply(p, "fallback", FallbackNow(p))
  BY <1>b, <1>1, <1>2, <1>3, <1>8, ReplyEffect DEF FellBack
<1>9. CASE /\ ~useful(res[p][Incoming(p)].msg) /\ taken[p] + 1 = Cardinality(Upstreams)
           /\ FallbackNow(p) = NoLeg
           /\ Return(p, "failed", NoLeg, "SERVFAIL", 0)
           /\ lastErr' = [lastErr EXCEPT ![p] = IF ErrNow(p) = "nil" THEN "noAnswer" ELSE ErrNow(p)]
  <2>1. /\ phase'[p] = "returned"
        /\ outcome' = [outcome EXCEPT ![p] = [how |-> "failed", by |-> NoLeg]]
        /\ replies'[p] = 1
    <3>1. replies[p] = 0 /\ Return(p, "failed", NoLeg, "SERVFAIL", 0)
      BY <1>3, <1>9
    <3>2. \A how, by : Return(p, how, by, "SERVFAIL", 0) =>
            /\ phase'[p] = "returned"
            /\ outcome' = [outcome EXCEPT ![p] = [how |-> how, by |-> by]]
            /\ replies'[p] = 1
      BY <3>1, ServfailEffect
    <3> QED
      BY <3>1, <3>2, Zenon
  <2>2. lastErr'[p] = IF ErrNow(p) = "nil" THEN "noAnswer" ELSE ErrNow(p)
    BY <1>4, <1>9, Zenon
  <2> QED
    BY <1>b, <1>1, <1>2, <1>9, <2>1, <2>2, Zenon DEF GaveUp
<1> QED
  BY <1>5, <1>6, <1>7, <1>8, <1>9

\* What dispatch has received from the channel does not change afterwards.
LEMMA SentStable ==
  ASSUME TypeOK, LegInv, DispatchInv, [Next]_vars, NEW p \in Queries
  PROVE  /\ phase[p] = "absent" => sent'[p] = sent[p]
         /\ \A i \in 1..Len(sent[p]) : /\ sent'[p][i] = sent[p][i]
                                       /\ res'[p][sent[p][i]] = res[p][sent[p][i]]
         /\ \A u \in Done(p) : u \in Done(p)' /\ res'[p][u] = res[p][u]
<1>a. \A i \in 1..Len(sent[p]) : sent[p][i] \in Done(p)
  BY DEF DispatchInv, ChanOK
<1>b. sent \in [Queries -> Seq(Upstreams)]
  BY DEF TypeOK
<1>1. \A u \in Done(p) : u \in Done(p)' /\ res'[p][u] = res[p][u]
  BY LegEffect DEF Done
<1>2. ASSUME NEW q \in Queries, NEW u \in Upstreams, Send(q, u)
      PROVE  /\ phase[p] = "absent" => sent'[p] = sent[p]
             /\ \A i \in 1..Len(sent[p]) : sent'[p][i] = sent[p][i]
  <2>1. CASE p = q
    <3>1. phase[p] # "absent"
      BY <1>2, <2>1 DEF Send, LegInv, LegOK
    <3>2. sent'[p] = Append(sent[p], u) /\ sent[p] \in Seq(Upstreams)
      BY <1>2, <1>b, <2>1 DEF Send
    <3> QED
      BY <3>1, <3>2
  <2>2. CASE p # q
    BY <1>2, <1>b, <2>2 DEF Send
  <2> QED
    BY <2>1, <2>2
<1>3. /\ phase[p] = "absent" => sent'[p] = sent[p]
      /\ \A i \in 1..Len(sent[p]) : sent'[p][i] = sent[p][i]
  BY <1>2, LegEffect
<1> QED
  BY <1>a, <1>1, <1>3

\* The result dispatch is about to receive comes from a finished leg, and if it
\* carries no message it carries an error.
LEMMA IncomingFacts ==
  ASSUME TypeOK, DispatchInv, NEW p \in Queries, Receive(p)
  PROVE  /\ Incoming(p) \in Done(p)
         /\ res[p][Incoming(p)].msg = NoMsg => res[p][Incoming(p)].err \in Causes
<1>1. taken[p] + 1 \in 1..Len(sent[p])
  BY ReceiveCases DEF DispatchInv
<1>2. Incoming(p) \in Done(p)
  BY <1>1 DEF DispatchInv, ChanOK, Incoming
<1> QED
  BY <1>2 DEF DispatchInv, ResOK, Done

LEMMA PhaseStep ==
  ASSUME TypeOK, LegInv, DispatchInv, [Next]_vars, NEW p \in Queries
  PROVE  PhaseOK(p)'
<1>a. PhaseOK(p) /\ phase[p] \in {"absent", "waiting", "returned"}
  BY DEF DispatchInv, TypeOK
<1>b. outcome \in [Queries -> [how : {"open", "won", "fallback", "failed", "cancelled", "delegated"},
                               by  : Upstreams \cup {NoLeg}]]
  BY DEF TypeOK
<1>1. CASE UNCHANGED DispatchOf(p)
  BY <1>1, <1>a, SentStable DEF DispatchOf, PhaseOK
<1>2. CASE Delegate(p)
  <2>1. replies[p] = 0
    BY <1>2, <1>a DEF Delegate, PhaseOK
  <2>2. /\ phase'[p] = "returned" /\ replies'[p] = 1
        /\ outcome' = [outcome EXCEPT ![p] = [how |-> "delegated", by |-> NoLeg]]
    <3>1. \A how, by : Return(p, how, by, "NOERROR", 1) =>
            /\ phase'[p] = "returned" /\ replies'[p] = 1
            /\ outcome' = [outcome EXCEPT ![p] = [how |-> how, by |-> by]]
      BY <2>1, WrittenEffect
    <3> QED
      BY <1>2, <3>1, Zenon DEF Delegate
  <2>3. outcome'[p].how = "delegated"
    BY <1>b, <2>2
  <2> QED
    BY <2>2, <2>3 DEF PhaseOK
<1>3. CASE Dispatch(p)
  <2>1. phase'[p] = "waiting"
    BY <1>3 DEF Dispatch, TypeOK
  <2> QED
    BY <1>3, <1>a, <2>1 DEF Dispatch, PhaseOK, Undecided
<1>4. CASE Receive(p)
  <2>1. CASE WonBy(p)
    <3>1. outcome'[p].how = "won"
      BY <1>b, <2>1 DEF WonBy
    <3> QED
      BY <2>1, <3>1 DEF WonBy, PhaseOK
  <2>2. CASE GoesOn(p)
    <3>1. outcome'[p] = Undecided
      BY <1>4, <1>a, <2>2 DEF GoesOn, Receive, PhaseOK
    <3> QED
      BY <2>2, <3>1 DEF GoesOn, PhaseOK, Undecided
  <2>3. CASE FellBack(p)
    <3>1. outcome'[p].how = "fallback"
      BY <1>b, <2>3 DEF FellBack
    <3> QED
      BY <2>3, <3>1 DEF FellBack, PhaseOK
  <2>4. CASE GaveUp(p)
    <3>1. Incoming(p) \in Upstreams
      BY <1>4, <1>a, ReceiveCases
    <3>2. res[p][Incoming(p)].msg = NoMsg
      BY <2>4, <3>1, NoLegAssumption DEF GaveUp, FallbackNow
    <3>3. ErrNow(p) \in Causes
      BY <1>4, <3>2, IncomingFacts DEF ErrNow, Causes
    <3>4. lastErr'[p] \in Causes
      BY <2>4, <3>3 DEF GaveUp, Causes
    <3> QED
      BY <2>4, <3>4 DEF GaveUp, PhaseOK
  <2> QED
    BY <1>4, <1>a, <2>1, <2>2, <2>3, <2>4, ReceiveCases
<1>5. CASE Cancel(p)
  <2>1. replies[p] = 0
    BY <1>5, <1>a DEF Cancel, PhaseOK
  <2>2. /\ phase'[p] = "returned" /\ replies'[p] = 1
        /\ outcome' = [outcome EXCEPT ![p] = [how |-> "cancelled", by |-> NoLeg]]
    <3>1. \A how, by : Return(p, how, by, "SERVFAIL", 0) =>
            /\ phase'[p] = "returned" /\ replies'[p] = 1
            /\ outcome' = [outcome EXCEPT ![p] = [how |-> how, by |-> by]]
      BY <2>1, ServfailEffect
    <3> QED
      BY <1>5, <3>1, Zenon DEF Cancel
  <2>3. outcome'[p].how = "cancelled"
    BY <1>b, <2>2
  <2> QED
    BY <2>2, <2>3 DEF PhaseOK
<1> QED
  BY <1>1, <1>2, <1>3, <1>4, <1>5, DispatchFrame

LEMMA TallyStep ==
  ASSUME TypeOK, LegInv, DispatchInv, [Next]_vars, NEW p \in Queries
  PROVE  TallyOK(p)'
<1>a. PhaseOK(p) /\ TallyOK(p) /\ ChanOK(p)
  BY DEF DispatchInv
<1>b. taken[p] \in Nat /\ Len(sent[p]) \in Nat
  BY DEF TypeOK
<1> SUFFICES ASSUME phase'[p] = "waiting"
             PROVE  /\ \A i \in 1..taken'[p] : ~useful(res'[p][sent'[p][i]].msg)
                    /\ fallback'[p] = NoLeg =>
                         \A i \in 1..taken'[p] : res'[p][sent'[p][i]].msg = NoMsg
                    /\ fallback'[p] # NoLeg =>
                         fallback'[p] \in Done(p)' /\ res'[p][fallback'[p]].msg # NoMsg
                    /\ lastErr'[p] \in Causes \cup {"nil"}
                    /\ (\E i \in 1..taken'[p] : res'[p][sent'[p][i]].msg = NoMsg) => lastErr'[p] # "nil"
  BY DEF TallyOK, useful
<1>1. CASE UNCHANGED DispatchOf(p)
  <2>1. phase[p] = "waiting" /\ taken'[p] = taken[p] /\ fallback'[p] = fallback[p] /\ lastErr'[p] = lastErr[p]
    BY <1>1 DEF DispatchOf
  <2>2. \A i \in 1..taken[p] : res'[p][sent'[p][i]] = res[p][sent[p][i]]
    <3> SUFFICES ASSUME NEW i \in 1..taken[p] PROVE res'[p][sent'[p][i]] = res[p][sent[p][i]]
      OBVIOUS
    <3>1. i \in 1..Len(sent[p])
      BY <1>a, <1>b DEF ChanOK
    <3> QED
      BY <3>1, SentStable
  <2>3. \A u \in Done(p) : u \in Done(p)' /\ res'[p][u] = res[p][u]
    BY SentStable
  <2> QED
    BY <1>a, <2>1, <2>2, <2>3 DEF TallyOK
<1>2. CASE Delegate(p)
  BY <1>2 DEF Delegate, Return, TypeOK
<1>3. CASE Dispatch(p)
  <2>1. taken'[p] = 0 /\ fallback'[p] = NoLeg /\ lastErr'[p] = "nil"
    BY <1>3, <1>a DEF Dispatch, PhaseOK, chanVars
  <2> QED
    BY <2>1
<1>4. CASE Receive(p)
  <2>1. GoesOn(p)
    BY <1>4, <1>a, ReceiveCases DEF WonBy, FellBack, GaveUp
  <2>2. res' = res /\ sent' = sent /\ legPc' = legPc
    BY <1>4 DEF Receive, legVars
  <2>3. /\ taken'[p] = taken[p] + 1 /\ fallback'[p] = FallbackNow(p)
        /\ lastErr'[p] = ErrNow(p)
        /\ Incoming(p) \in Upstreams
    BY <1>4, <1>a, <2>1, ReceiveCases DEF GoesOn
  <2>4. \A i \in 1..taken'[p] : i \in 1..taken[p] \/ (i = taken[p] + 1 /\ sent[p][i] = Incoming(p))
    BY <1>b, <2>3 DEF Incoming
  <2>5. phase[p] = "waiting"
    BY <1>4 DEF Receive
  <2>6. \A i \in 1..taken'[p] : ~useful(res'[p][sent'[p][i]].msg)
    BY <1>a, <2>1, <2>2, <2>4, <2>5 DEF TallyOK, GoesOn
  <2>7. fallback'[p] = NoLeg => \A i \in 1..taken'[p] : res'[p][sent'[p][i]].msg = NoMsg
    BY <1>a, <2>2, <2>3, <2>4, <2>5, NoLegAssumption DEF TallyOK, FallbackNow
  <2>8. fallback'[p] # NoLeg => fallback'[p] \in Done(p)' /\ res'[p][fallback'[p]].msg # NoMsg
    <3>1. Done(p)' = Done(p)
      BY <2>2 DEF Done
    <3> QED
      BY <1>4, <1>a, <2>2, <2>3, <2>5, <3>1, IncomingFacts DEF TallyOK, FallbackNow
  <2>9. lastErr'[p] \in Causes \cup {"nil"}
    <3>1. res[p][Incoming(p)].err \in Causes \cup {"nil"}
      BY <2>3 DEF TypeOK, LegErrors, Causes
    <3> QED
      BY <1>a, <2>3, <2>5, <3>1 DEF TallyOK, ErrNow
  <2>10. (\E i \in 1..taken'[p] : res'[p][sent'[p][i]].msg = NoMsg) => lastErr'[p] # "nil"
    BY <1>4, <1>a, <2>2, <2>3, <2>4, <2>5, IncomingFacts DEF TallyOK, ErrNow, Causes
  <2> QED
    BY <2>6, <2>7, <2>8, <2>9, <2>10
<1>5. CASE Cancel(p)
  BY <1>5 DEF Cancel, Return, TypeOK
<1> QED
  BY <1>1, <1>2, <1>3, <1>4, <1>5, DispatchFrame

LEMMA IInvInit == Init => IInv
BY TypeInit, DispatchInit DEF IInv

LEMMA IInvStep == IInv /\ [Next]_vars => IInv'
<1> SUFFICES ASSUME TypeOK, LegInv, DispatchInv, [Next]_vars PROVE IInv'
  BY DEF IInv
<1>1. TypeOK' /\ LegInv'
  BY TypeStep, LegStepInv
<1>2. \A p \in Queries : ChanOK(p)' /\ ResOK(p)' /\ PhaseOK(p)' /\ TallyOK(p)'
  BY ChanStep, ResStep, PhaseStep, TallyStep
<1> QED
  BY <1>1, <1>2 DEF IInv, DispatchInv

LEMMA Invariance == Spec => []IInv
BY IInvInit, IInvStep, PTL DEF Spec

(***************************************************************************)
(* Whatever happens, a client sees exactly one message per query, and none *)
(* before ServeDNS has returned.                                           *)
(***************************************************************************)
THEOREM OneReply == Spec => []ExactlyOneReply
<1>1. IInv => ExactlyOneReply
  BY DEF IInv, TypeOK, DispatchInv, PhaseOK, ExactlyOneReply
<1> QED
  BY <1>1, Invariance, PTL

(***************************************************************************)
(* The channel has room for every leg that wants to send, so no leg of any *)
(* query is ever left blocked, however the query ended.                    *)
(***************************************************************************)
THEOREM NoLegBlocks == Spec => []SendNeverBlocks
<1>1. IInv => SendNeverBlocks
  <2> SUFFICES ASSUME IInv, NEW q \in Queries, NEW u \in Upstreams, legPc[q][u] = "send"
               PROVE  Len(sent[q]) - taken[q] < Capacity
    BY DEF SendNeverBlocks
  <2>1. Len(sent[q]) = Cardinality(Done(q)) /\ taken[q] \in Nat /\ taken[q] <= Len(sent[q])
    BY DEF IInv, DispatchInv, ChanOK, TypeOK
  <2>2. Done(q) # Upstreams
    BY DEF Done
  <2>3. /\ Cardinality(Done(q)) \in Nat
        /\ Cardinality(Upstreams) \in Nat
        /\ Cardinality(Done(q)) < Cardinality(Upstreams)
    BY <2>2, DoneFinite, ConstantFacts
  <2> QED
    BY <2>1, <2>3 DEF Capacity
<1> QED
  BY <1>1, Invariance, PTL

(***************************************************************************)
(* dispatch never reports errNoAnswer: a failed query carries the error of *)
(* a leg.                                                                  *)
(***************************************************************************)
THEOREM FailuresHaveCauses == Spec => []FailureHasCause
<1>1. IInv => FailureHasCause
  BY DEF IInv, DispatchInv, PhaseOK, FailureHasCause, Causes
<1> QED
  BY <1>1, Invariance, PTL

-------------------------------------------------------------------------------
(***************************************************************************)
(* Race implements Contest.                                                *)
(***************************************************************************)

reports == [q \in Queries |-> [u \in Upstreams |-> Report(q, u)]]

LEMMA InitRefines == Init => Contest!Init
<1> SUFFICES ASSUME Init PROVE Contest!Init
  OBVIOUS
<1>1. reports = [q \in Queries |-> [u \in Upstreams |-> "pending"]]
  BY DEF Init, reports, Report
<1> QED
  BY <1>1 DEF Init, Contest!Init, Contest!Open, Undecided, reports

\* A leg's report is fixed by its result once it is done.
LEMMA ReportStable ==
  ASSUME TypeOK, LegInv, [Next]_vars, ~\E q \in Queries, u \in Upstreams : Send(q, u)
  PROVE  sent' = sent /\ reports' = reports
<1>1. /\ sent' = sent
      /\ \A q \in Queries, u \in Upstreams :
           /\ legPc'[q][u] = "done" <=> legPc[q][u] = "done"
           /\ legPc[q][u] = "done" => res'[q][u] = res[q][u]
  BY LegEffect
<1>2. \A q \in Queries, u \in Upstreams : Report(q, u)' = Report(q, u)
  BY <1>1 DEF Report, useful
<1> QED
  BY <1>1, <1>2 DEF reports

LEMMA SendRefines ==
  ASSUME TypeOK, NEW q \in Queries, NEW u \in Upstreams, Send(q, u)
  PROVE  Contest!Report(q, u)
<1>b. /\ legPc \in [Queries -> [Upstreams -> {"idle", "dial", "io", "send", "done"}]]
      /\ sent \in [Queries -> Seq(Upstreams)]
  BY DEF TypeOK
<1>1. Report(q, u) = "pending"
  BY DEF Send, Report
<1>2. Report(q, u)' \in Contest!Reports \ {"pending", "absent"}
  BY <1>b DEF Send, Report, Contest!Reports
<1>3. \A p \in Queries, v \in Upstreams : ~(p = q /\ v = u) => Report(p, v)' = Report(p, v)
  BY <1>b DEF Send, Report, useful
<1>4. reports' = [reports EXCEPT ![q][u] = Report(q, u)']
  BY <1>3 DEF reports
<1>5. sent' = [sent EXCEPT ![q] = Append(@, u)] /\ outcome' = outcome
  BY DEF Send, dispatchVars
<1>6. reports[q][u] = "pending"
  BY <1>1 DEF reports
<1> QED
  BY <1>2, <1>4, <1>5, <1>6 DEF Contest!Report, reports

\* Once every leg is in, the received results are all the results.
LEMMA AllIn ==
  ASSUME TypeOK, DispatchInv, NEW p \in Queries, Receive(p),
         taken[p] + 1 = Cardinality(Upstreams), ~useful(res[p][Incoming(p)].msg)
  PROVE  \A u \in Upstreams :
           /\ legPc[p][u] = "done"
           /\ ~useful(res[p][u].msg)
           /\ FallbackNow(p) = NoLeg => res[p][u].msg = NoMsg
<1>a. ChanOK(p) /\ TallyOK(p) /\ PhaseOK(p)
  BY DEF DispatchInv
<1>b. taken[p] \in Nat /\ taken[p] + 1 \in 1..Len(sent[p]) /\ Len(sent[p]) \in Nat
      /\ Incoming(p) \in Upstreams
  BY <1>a, ReceiveCases DEF TypeOK
<1>1. Len(sent[p]) = Cardinality(Upstreams) /\ Done(p) = Upstreams
  BY <1>a, <1>b, DoneFinite, ConstantFacts DEF ChanOK
<1> SUFFICES ASSUME NEW u \in Upstreams
             PROVE  /\ legPc[p][u] = "done"
                    /\ ~useful(res[p][u].msg)
                    /\ FallbackNow(p) = NoLeg => res[p][u].msg = NoMsg
  OBVIOUS
<1>2. PICK i \in 1..Len(sent[p]) : sent[p][i] = u
  BY <1>a, <1>1 DEF ChanOK
<1>3. i \in 1..taken[p] \/ (i = taken[p] + 1 /\ u = Incoming(p))
  BY <1>b, <1>1, <1>2 DEF Incoming
<1>4. phase[p] = "waiting"
  BY DEF Receive
<1>5. ~useful(res[p][u].msg)
  BY <1>a, <1>2, <1>3, <1>4 DEF TallyOK
<1>6. FallbackNow(p) = NoLeg => res[p][u].msg = NoMsg
  BY <1>a, <1>b, <1>2, <1>3, <1>4, NoLegAssumption DEF TallyOK, FallbackNow
<1>7. legPc[p][u] = "done"
  BY <1>1 DEF Done
<1> QED
  BY <1>5, <1>6, <1>7

LEMMA ReceiveRefines ==
  ASSUME TypeOK, LegInv, DispatchInv, NEW p \in Queries, Receive(p),
         sent' = sent, reports' = reports
  PROVE  Contest!Win(p) \/ Contest!FallBack(p) \/ Contest!Fail(p) \/ outcome' = outcome
<1>a. ChanOK(p) /\ TallyOK(p) /\ PhaseOK(p)
  BY DEF DispatchInv
<1>b. taken[p] \in Nat /\ taken[p] + 1 \in 1..Len(sent[p]) /\ Incoming(p) \in Upstreams
      /\ Len(sent[p]) \in Nat
  BY <1>a, ReceiveCases DEF TypeOK
<1>c. phase[p] = "waiting" /\ outcome[p] = Undecided
  BY <1>a DEF Receive, PhaseOK
<1>d. \A q \in Queries, u \in Upstreams : reports[q][u] = Report(q, u)
  BY DEF reports
<1>e. Incoming(p) \in Done(p) /\ Done(p) \subseteq Upstreams
  BY IncomingFacts DEF Done
<1>1. CASE WonBy(p)
  <2>1. /\ Report(p, sent[p][taken[p] + 1]) = "useful"
        /\ sent[p][taken[p] + 1] = Incoming(p)
    BY <1>1, <1>e DEF WonBy, Report, Done, Incoming
  <2>2. \A j \in 1..((taken[p] + 1) - 1) : sent[p][j] \in Upstreams /\ Report(p, sent[p][j]) # "useful"
    BY <1>a, <1>b, <1>c DEF ChanOK, TallyOK, Report, Done
  <2>3. outcome' = [outcome EXCEPT ![p] = [how |-> "won", by |-> sent[p][taken[p] + 1]]]
    BY <1>1, <2>1 DEF WonBy
  <2>4. Contest!Win(p)
    BY <1>b, <1>c, <1>d, <2>1, <2>2, <2>3
    DEF Contest!Win, Contest!Verdict, Contest!Decided, Contest!Open, Undecided, reports
  <2> QED
    BY <2>4
<1>2. CASE GoesOn(p)
  BY <1>2 DEF GoesOn
<1>f. ASSUME taken[p] + 1 = Cardinality(Upstreams), ~useful(res[p][Incoming(p)].msg)
      PROVE  /\ Contest!NothingUseful(p)
             /\ FallbackNow(p) = NoLeg => \A u \in Upstreams : reports[p][u] = "nothing"
  BY <1>d, <1>f, AllIn DEF Contest!NothingUseful, Report, reports
<1>3. CASE FellBack(p)
  <2>1. FallbackNow(p) \in Upstreams /\ res[p][FallbackNow(p)].msg # NoMsg
    BY <1>3, <1>a, <1>b, <1>c, <1>e DEF FellBack, FallbackNow, TallyOK
  <2>2. reports[p][FallbackNow(p)] = "unusable"
    BY <1>3, <1>d, <2>1, AllIn DEF FellBack, Report
  <2>3. Contest!Verdict(p, Contest!Decided("fallback", FallbackNow(p)))
    BY <1>3, <1>c DEF FellBack, Contest!Verdict, Contest!Decided, Contest!Open, Undecided, reports
  <2>4. Contest!NothingUseful(p)
    BY <1>3, <1>f DEF FellBack
  <2>5. Contest!FallBack(p)
    BY <2>1, <2>2, <2>3, <2>4 DEF Contest!FallBack, reports
  <2> QED
    BY <2>5
<1>4. CASE GaveUp(p)
  <2>1. Contest!Verdict(p, Contest!Decided("failed", NoLeg))
    BY <1>4, <1>c DEF GaveUp, Contest!Verdict, Contest!Decided, Contest!Open, Undecided, reports
  <2>2. Contest!Fail(p)
    BY <1>4, <1>f, <2>1 DEF GaveUp, Contest!Fail, reports
  <2> QED
    BY <2>2
<1> QED
  BY <1>1, <1>2, <1>3, <1>4, <1>a, ReceiveCases

LEMMA StepRefines == IInv /\ [Next]_vars => [Contest!Next]_(Contest!vars)
<1> SUFFICES ASSUME TypeOK, LegInv, DispatchInv, [Next]_vars PROVE [Contest!Next]_(Contest!vars)
  BY DEF IInv
<1>1. CASE \E q \in Queries, u \in Upstreams : Send(q, u)
  BY <1>1, SendRefines DEF Contest!Next
<1>2. CASE ~\E q \in Queries, u \in Upstreams : Send(q, u)
  <2>1. sent' = sent /\ reports' = reports
    BY <1>2, ReportStable
  <2>2. CASE outcome' = outcome
    BY <2>1, <2>2 DEF Contest!vars, reports
  <2>3. ASSUME NEW p \in Queries, Receive(p) PROVE [Contest!Next]_(Contest!vars)
    BY <2>1, <2>2, <2>3, ReceiveRefines DEF Contest!Next
  <2>4. ASSUME NEW p \in Queries, Delegate(p) PROVE Contest!Next
    <3>1. outcome[p] = Undecided /\ sent[p] = <<>>
      BY <2>4 DEF Delegate, DispatchInv, PhaseOK
    <3>2. outcome' = [outcome EXCEPT ![p] = [how |-> "delegated", by |-> NoLeg]]
      BY <2>4 DEF Delegate, Return
    <3>3. Contest!Delegate(p)
      BY <2>1, <3>1, <3>2
      DEF Contest!Delegate, Contest!Verdict, Contest!Decided, Contest!Open, Undecided, reports
    <3> QED
      BY <3>3 DEF Contest!Next
  <2>5. ASSUME NEW p \in Queries, Cancel(p) PROVE Contest!Next
    <3>1. outcome[p] = Undecided
      BY <2>5 DEF Cancel, DispatchInv, PhaseOK
    <3>2. outcome' = [outcome EXCEPT ![p] = [how |-> "cancelled", by |-> NoLeg]]
      BY <2>5 DEF Cancel, Return
    <3>3. Contest!Cancel(p)
      BY <2>1, <3>1, <3>2
      DEF Contest!Cancel, Contest!Verdict, Contest!Decided, Contest!Open, Undecided, reports
    <3> QED
      BY <3>3 DEF Contest!Next
  <2>6. outcome' = outcome \/ \E p \in Queries : Receive(p) \/ Delegate(p) \/ Cancel(p)
    BY DEF Next, LegStep, Start, Stop, Expire, Dispatch, Dial, StaleConn, Failed, Replied, Send,
           dispatchVars, vars
  <2> QED
    BY <2>2, <2>3, <2>4, <2>5, <2>6
<1> QED
  BY <1>1, <1>2

(***************************************************************************)
(* dispatch implements the contest, for any number of upstreams: a useful  *)
(* reply is never lost to an earlier failure, the first one in channel     *)
(* order wins, and a query fails only when every leg came back empty.      *)
(***************************************************************************)
THEOREM Refinement == Spec => ImplementsContest
BY InitRefines, StepRefines, Invariance, PTL DEF Spec, ImplementsContest, Contest!Spec
===============================================================================
