----------------------------- MODULE LoadGenProofs -----------------------------
(***************************************************************************)
(* Proofs about LoadGen, for any number of workers, names and places in    *)
(* the channel.                                                            *)
(***************************************************************************)
EXTENDS LoadGen, FiniteSetTheorems, TLAPS

-------------------------------------------------------------------------------
(***************************************************************************)
(* The inductive invariant, in parts.                                      *)
(***************************************************************************)
Answered == {"wanted", "other"}

\* Only the answer to the current name can be under way on a connection.
ConnOK(w) ==
  /\ inflight[w] \subseteq {name[w]}
  /\ pc[w] \notin {"read", "broken"} => inflight[w] = {}
  /\ \A n \in inflight[w] : said[n] \in Answered

\* What a worker counted.
CountOK(w) ==
  /\ \A a \in got[w] : a[1] = a[2] /\ a[2] <= taken /\ said[a[2]] \in Answered
  /\ name[w] <= taken
  /\ errs[w] <= name[w]
  /\ pc[w] = "read" => errs[w] < name[w]
  /\ pc[w] = "broken" => errs[w] > 0

\* A worker leaves the loop when the channel is used up or after an error, and
\* by the time it has left, the shared results know which.
LeaveOK(w) ==
  /\ pc[w] = "flush" => (closed /\ taken = sent) \/ errs[w] > 0
  /\ pc[w] = "left" => errors > 0 \/ (closed /\ taken = sent /\ errs[w] = 0 /\ got[w] \subseteq answers)

WorkerOK(w) == ConnOK(w) /\ CountOK(w) /\ LeaveOK(w)

WorkerInv == \A w \in Workers : WorkerOK(w)

\* Every name that was taken is being asked for, was answered, or led to an error.
Accounted(n, w) == (name[w] = n /\ pc[w] = "read") \/ <<n, n>> \in got[w] \/ errs[w] > 0

MainInv ==
  /\ closed => sent = numNames
  /\ sent > 0 => Workers # {}
  /\ status # "running" => closed /\ \A w \in Workers : pc[w] = "left"
  /\ \A n \in 1..taken : \E w \in Workers : Accounted(n, w)

IInv == TypeOK /\ WorkerInv /\ MainInv /\ GreenMeansAnswered

LEMMA ConstantFacts ==
  /\ MaxNames \in Nat /\ Cardinality(Workers) \in Nat /\ PerWorker \in Nat
  /\ Capacity \in Nat
  /\ IsFiniteSet(Workers)
BY MaxNamesAssumption, WorkersAssumption, PerWorkerAssumption, FS_CardinalityType DEF Capacity

\* The integers of the model, with the facts SMT needs about them.
LEMMA Numbers ==
  ASSUME TypeOK
  PROVE  /\ numNames \in Nat /\ sent \in Nat /\ taken \in Nat /\ errors \in Nat
         /\ taken <= sent /\ sent <= numNames /\ numNames <= MaxNames /\ 1 <= numNames
         /\ sent - taken <= Capacity
         /\ \A w \in Workers : name[w] \in Nat /\ errs[w] \in Nat
BY ConstantFacts DEF TypeOK

LEMMA TypeInit == Init => TypeOK
<1> SUFFICES ASSUME Init PROVE TypeOK
  OBVIOUS
<1>1. expect \in BOOLEAN /\ closed \in BOOLEAN
  BY Zenon DEF Init
<1>2. numNames \in 1..MaxNames /\ sent \in 0..numNames /\ taken \in 0..sent /\ sent - taken <= Capacity
  BY ConstantFacts DEF Init
<1>3. name \in [Workers -> 0..MaxNames] /\ errs \in [Workers -> 0..MaxNames]
  BY ConstantFacts DEF Init, NoName
<1>4. /\ pc \in [Workers -> {"dial", "receive", "read", "broken", "flush", "left"}]
      /\ inflight \in [Workers -> SUBSET Names]
      /\ got \in [Workers -> SUBSET (Names \X Names)]
      /\ said \in [Names -> {"nothing", "lost", "wanted", "other"}]
      /\ answers \in SUBSET (Names \X Names) /\ errors \in Nat /\ status \in {"running", "0", "1"}
  BY DEF Init
<1> QED
  BY <1>1, <1>2, <1>3, <1>4 DEF TypeOK

\* Ask, spelled out.
LEMMA AskEffect ==
  ASSUME TypeOK, NEW w \in Workers, Ask(w)
  PROVE  \E fate \in {"lost", "wanted", "other"} :
           /\ taken + 1 \in Names /\ taken + 1 <= sent
           /\ taken' = taken + 1
           /\ name' = [name EXCEPT ![w] = taken + 1]
           /\ said' = [said EXCEPT ![taken + 1] = fate]
           /\ inflight' = [inflight EXCEPT ![w] = IF fate = "lost" THEN @ ELSE @ \cup {taken + 1}]
           /\ pc[w] = "receive" /\ pc' = [pc EXCEPT ![w] = "read"]
           /\ UNCHANGED <<input, sent, closed, got, errs, results, status>>
<1>1. taken' = taken + 1 /\ taken < sent
  BY DEF Ask
<1>2. taken + 1 \in Names /\ taken + 1 <= sent
  BY <1>1, Numbers, ConstantFacts DEF Names
<1> QED
  BY <1>1, <1>2 DEF Ask, Goto

LEMMA TypeStep ==
  ASSUME TypeOK, WorkerInv, MainInv, [Next]_vars
  PROVE  TypeOK'
<1> DEFINE Pcs == {"dial", "receive", "read", "broken", "flush", "left"}
<1>a. /\ pc \in [Workers -> Pcs]
      /\ name \in [Workers -> 0..MaxNames] /\ errs \in [Workers -> 0..MaxNames]
      /\ inflight \in [Workers -> SUBSET Names]
      /\ got \in [Workers -> SUBSET (Names \X Names)]
      /\ said \in [Names -> {"nothing", "lost", "wanted", "other"}]
      /\ answers \in SUBSET (Names \X Names) /\ errors \in Nat /\ status \in {"running", "0", "1"}
  BY DEF TypeOK
<1>b. closed' \in BOOLEAN /\ UNCHANGED input
  <2>1. closed' = closed \/ closed' = TRUE
    BY Zenon DEF Next, Main, Work, Produce, Close, Exit, Dial, DialFails, Ask, Read, AskFails, Reconnect,
               ReconnectFails, QueueEnds, Flush, channel, vars
  <2>2. closed \in BOOLEAN
    BY DEF TypeOK
  <2>3. UNCHANGED input
    BY DEF Next, Main, Work, Produce, Close, Exit, Dial, DialFails, Ask, Read, AskFails, Reconnect,
           ReconnectFails, QueueEnds, Flush, vars
  <2> QED
    BY <2>1, <2>2, <2>3, Zenon
<1>n. numNames \in 1..MaxNames /\ expect \in BOOLEAN
  BY DEF TypeOK
<1> DEFINE Rest ==
      /\ sent \in 0..numNames /\ taken \in 0..sent /\ sent - taken <= Capacity
      /\ pc \in [Workers -> Pcs]
      /\ name \in [Workers -> 0..MaxNames] /\ errs \in [Workers -> 0..MaxNames]
      /\ inflight \in [Workers -> SUBSET Names]
      /\ got \in [Workers -> SUBSET (Names \X Names)]
      /\ said \in [Names -> {"nothing", "lost", "wanted", "other"}]
      /\ answers \in SUBSET (Names \X Names) /\ errors \in Nat /\ status \in {"running", "0", "1"}
<1>c. sent \in 0..numNames /\ taken \in 0..sent /\ sent - taken <= Capacity
  BY DEF TypeOK
<1>i. numNames' = numNames
  BY <1>b DEF input
<1>1. ASSUME Produce PROVE Rest'
  <2>1. sent' \in 0..numNames /\ taken' \in 0..sent' /\ sent' - taken' <= Capacity
    BY <1>1, Numbers, ConstantFacts DEF Produce
  <2> QED
    BY <1>1, <1>a, <1>i, <2>1 DEF Produce, local, results
<1>2. ASSUME Close \/ Exit \/ UNCHANGED vars PROVE Rest'
  BY <1>2, <1>a, <1>c, <1>i DEF Close, Exit, vars, channel, local, results
<1>3. ASSUME NEW w \in Workers, Dial(w) \/ QueueEnds(w) PROVE Rest'
  <2>1. pc' \in [Workers -> Pcs]
    BY <1>3, <1>a DEF Dial, QueueEnds, Goto
  <2> QED
    BY <1>3, <1>a, <1>c, <1>i, <2>1 DEF Dial, QueueEnds, channel, local, results
<1>4. ASSUME NEW w \in Workers, DialFails(w) PROVE Rest'
  <2>1. pc' \in [Workers -> Pcs] /\ errors' \in Nat
    BY <1>4, <1>a DEF DialFails, Goto
  <2> QED
    BY <1>4, <1>a, <1>c, <1>i, <2>1 DEF DialFails, channel, local
<1>5. ASSUME NEW w \in Workers, Ask(w) PROVE Rest'
  <2>1. PICK fate \in {"lost", "wanted", "other"} :
           /\ taken + 1 \in Names /\ taken + 1 <= sent
           /\ taken' = taken + 1
           /\ name' = [name EXCEPT ![w] = taken + 1]
           /\ said' = [said EXCEPT ![taken + 1] = fate]
           /\ inflight' = [inflight EXCEPT ![w] = IF fate = "lost" THEN @ ELSE @ \cup {taken + 1}]
           /\ pc[w] = "receive" /\ pc' = [pc EXCEPT ![w] = "read"]
           /\ UNCHANGED <<input, sent, closed, got, errs, results, status>>
    BY <1>5, AskEffect
  <2>2. taken' \in 0..sent /\ sent - taken' <= Capacity
    BY <2>1, Numbers, ConstantFacts
  <2>3. name' \in [Workers -> 0..MaxNames] /\ pc' \in [Workers -> Pcs]
    BY <2>1, <1>a, ConstantFacts DEF Names
  <2>4. said' \in [Names -> {"nothing", "lost", "wanted", "other"}]
    BY <2>1, <1>a
  <2>5. inflight' \in [Workers -> SUBSET Names]
    BY <2>1, <1>a
  <2> QED
    BY <2>1, <2>2, <2>3, <2>4, <2>5, <1>a, <1>c, <1>i DEF results
<1>6. ASSUME NEW w \in Workers, Read(w) PROVE Rest'
  <2>1. PICK m \in inflight[w] :
           /\ inflight' = [inflight EXCEPT ![w] = @ \ {m}]
           /\ got' = [got EXCEPT ![w] = @ \cup {<<name[w], m>>}]
    BY <1>6 DEF Read
  <2>2. m \in Names /\ name[w] \in Names
    BY <1>a DEF WorkerInv, WorkerOK, ConnOK
  <2>3. inflight' \in [Workers -> SUBSET Names]
    BY <1>a, <2>1
  <2>4. got' \in [Workers -> SUBSET (Names \X Names)]
    BY <1>a, <2>1, <2>2
  <2>5. pc' \in [Workers -> Pcs]
    BY <1>6, <1>a DEF Read, Goto
  <2> QED
    BY <1>6, <2>3, <2>4, <2>5, <1>a, <1>c, <1>i DEF Read, channel, results
<1>7. ASSUME NEW w \in Workers, AskFails(w) PROVE Rest'
  <2>1. errs[w] < name[w] /\ errs[w] \in Nat /\ name[w] \in 0..MaxNames
    BY <1>7, <1>a DEF AskFails, WorkerInv, WorkerOK, CountOK
  <2>2. errs[w] + 1 \in 0..MaxNames
    BY <2>1, ConstantFacts
  <2>3. errs' \in [Workers -> 0..MaxNames] /\ pc' \in [Workers -> Pcs]
    BY <1>7, <1>a, <2>2 DEF AskFails, Goto
  <2> QED
    BY <1>7, <2>3, <1>a, <1>c, <1>i DEF AskFails, channel, results
<1>8. ASSUME NEW w \in Workers, Reconnect(w) \/ ReconnectFails(w) PROVE Rest'
  <2>1. inflight' \in [Workers -> SUBSET Names] /\ pc' \in [Workers -> Pcs]
    BY <1>8, <1>a DEF Reconnect, ReconnectFails, Goto
  <2> QED
    BY <1>8, <2>1, <1>a, <1>c, <1>i DEF Reconnect, ReconnectFails, channel, results
<1>9. ASSUME NEW w \in Workers, Flush(w) PROVE Rest'
  <2>1. answers' \in SUBSET (Names \X Names) /\ pc' \in [Workers -> Pcs]
    BY <1>9, <1>a DEF Flush, Goto
  <2>2. errors' \in Nat
    BY <1>9, Numbers DEF Flush
  <2> QED
    BY <1>9, <2>1, <2>2, <1>a, <1>c, <1>i DEF Flush, channel, local
<1>10. Rest'
  <2> HIDE DEF Rest
  <2> QED
    BY <1>1, <1>2, <1>3, <1>4, <1>5, <1>6, <1>7, <1>8, <1>9 DEF Next, Main, Work
<1>11. numNames' \in 1..MaxNames /\ expect' \in BOOLEAN
  BY <1>b, <1>n, Zenon DEF input
<1>12. closed' \in BOOLEAN
  BY <1>b
<1> QED
  BY <1>10, <1>11, <1>12 DEF TypeOK

-------------------------------------------------------------------------------
(***************************************************************************)
(* What a step may do to the shared state and to one worker.               *)
(***************************************************************************)

\* Names are only taken, results only grow, a used-up channel stays used up,
\* and what the server made of a name that was taken is settled.
LEMMA SharedGrows ==
  ASSUME TypeOK, MainInv, [Next]_vars
  PROVE  /\ taken <= taken' /\ errors <= errors' /\ answers \subseteq answers'
         /\ closed /\ taken = sent => closed' /\ taken' = sent'
         /\ \A n \in Names : n <= taken => said'[n] = said[n]
<1>1. CASE UNCHANGED <<taken, results, said>> /\ (closed => closed' /\ sent' = sent)
  <2>1. taken <= taken' /\ errors <= errors' /\ answers \subseteq answers' /\ taken' = taken /\ said' = said
    BY <1>1, Numbers DEF results
  <2>2. closed /\ taken = sent => closed' /\ taken' = sent'
    BY <1>1, <2>1, Zenon
  <2> QED
    BY <2>1, <2>2
<1>2. CASE Produce
  <2>0. sent # numNames
    BY <1>2, Numbers DEF Produce
  <2>1. ~closed
    BY <2>0, Zenon DEF MainInv
  <2> QED
    BY <1>2, <2>1, Numbers DEF Produce, results
<1>3. CASE Close
  BY <1>3, Numbers DEF Close, results
<1>4. ASSUME NEW w \in Workers, Ask(w)
      PROVE  /\ taken <= taken' /\ errors <= errors' /\ answers \subseteq answers'
             /\ closed /\ taken = sent => closed' /\ taken' = sent'
             /\ \A n \in Names : n <= taken => said'[n] = said[n]
  <2>1. PICK fate \in {"lost", "wanted", "other"} :
           /\ taken + 1 \in Names /\ taken + 1 <= sent
           /\ taken' = taken + 1
           /\ said' = [said EXCEPT ![taken + 1] = fate]
           /\ UNCHANGED <<input, sent, closed, got, errs, results, status>>
    BY <1>4, AskEffect
  <2>2. said \in [Names -> {"nothing", "lost", "wanted", "other"}]
    BY DEF TypeOK
  <2>3. \A n \in Names : n <= taken => said'[n] = said[n]
    BY <2>1, <2>2, Numbers DEF Names
  <2> QED
    BY <2>1, <2>3, Numbers DEF results
<1>5. ASSUME NEW w \in Workers, DialFails(w) \/ Flush(w)
      PROVE  /\ taken <= taken' /\ errors <= errors' /\ answers \subseteq answers'
             /\ closed /\ taken = sent => closed' /\ taken' = sent'
             /\ \A n \in Names : n <= taken => said'[n] = said[n]
  <2>1. taken' = taken /\ closed' = closed /\ sent' = sent /\ said' = said
    BY <1>5 DEF DialFails, Flush, channel
  <2>2. errors <= errors' /\ answers \subseteq answers'
    BY <1>5, Numbers DEF DialFails, Flush
  <2> QED
    BY <2>1, <2>2, Numbers
<1>6. ASSUME NEW w \in Workers,
             Dial(w) \/ Read(w) \/ AskFails(w) \/ Reconnect(w) \/ ReconnectFails(w) \/ QueueEnds(w)
      PROVE  UNCHANGED <<taken, results, said, closed, sent>>
  BY <1>6 DEF Dial, Read, AskFails, Reconnect, ReconnectFails, QueueEnds, channel
<1>7. CASE Exit \/ UNCHANGED vars
  BY <1>7, Numbers DEF Exit, vars, channel, results
<1> QED
  BY <1>1, <1>2, <1>3, <1>4, <1>5, <1>6, <1>7 DEF Next, Main, Work

\* Workers do not touch each other's variables.
WorkerVars(w) == <<pc[w], name[w], inflight[w], got[w], errs[w]>>

LEMMA WorkerFrame ==
  ASSUME TypeOK, [Next]_vars, NEW v \in Workers
  PROVE  UNCHANGED WorkerVars(v) \/ Work(v)
<1>a. /\ pc \in [Workers -> {"dial", "receive", "read", "broken", "flush", "left"}]
      /\ name \in [Workers -> 0..MaxNames] /\ errs \in [Workers -> 0..MaxNames]
      /\ inflight \in [Workers -> SUBSET Names]
      /\ got \in [Workers -> SUBSET (Names \X Names)]
  BY DEF TypeOK
<1>1. CASE Main \/ UNCHANGED vars
  BY <1>1 DEF Main, Produce, Close, Exit, vars, local, WorkerVars
<1>2. ASSUME NEW w \in Workers, w # v, Work(w) PROVE UNCHANGED WorkerVars(v)
  <2>1. CASE Dial(w) \/ DialFails(w) \/ QueueEnds(w) \/ Flush(w)
    BY <1>2, <1>a, <2>1 DEF Dial, DialFails, QueueEnds, Flush, Goto, local, WorkerVars
  <2>2. CASE Ask(w)
    BY <1>2, <1>a, <2>2 DEF Ask, Goto, WorkerVars
  <2>3. CASE Read(w)
    BY <1>2, <1>a, <2>3 DEF Read, Goto, WorkerVars
  <2>4. CASE AskFails(w)
    BY <1>2, <1>a, <2>4 DEF AskFails, Goto, WorkerVars
  <2>5. CASE Reconnect(w) \/ ReconnectFails(w)
    BY <1>2, <1>a, <2>5 DEF Reconnect, ReconnectFails, Goto, WorkerVars
  <2> QED
    BY <1>2, <2>1, <2>2, <2>3, <2>4, <2>5 DEF Work
<1> QED
  BY <1>1, <1>2 DEF Next

LEMMA WorkerInit == Init => WorkerInv
BY DEF Init, WorkerInv, WorkerOK, ConnOK, CountOK, LeaveOK, NoName

LEMMA WorkerStep ==
  ASSUME TypeOK, WorkerInv, MainInv, [Next]_vars, NEW v \in Workers
  PROVE  WorkerOK(v)'
<1>a. /\ pc \in [Workers -> {"dial", "receive", "read", "broken", "flush", "left"}]
      /\ name \in [Workers -> 0..MaxNames] /\ errs \in [Workers -> 0..MaxNames]
      /\ inflight \in [Workers -> SUBSET Names]
      /\ got \in [Workers -> SUBSET (Names \X Names)]
      /\ said \in [Names -> {"nothing", "lost", "wanted", "other"}]
  BY DEF TypeOK
<1>b. /\ name[v] \in Nat /\ errs[v] \in Nat /\ inflight[v] \subseteq Names
      /\ \A a \in got[v] : a[1] \in Names /\ a[2] \in Names
  BY <1>a, Numbers
<1>c. ConnOK(v) /\ CountOK(v) /\ LeaveOK(v)
  BY DEF WorkerInv, WorkerOK
<1>n. /\ taken \in Nat /\ taken' \in Nat /\ errors \in Nat /\ errors' \in Nat
      /\ \A n \in Names : n \in Nat
      /\ taken <= taken' /\ errors <= errors' /\ answers \subseteq answers'
      /\ closed /\ taken = sent => closed' /\ taken' = sent'
      /\ \A n \in Names : n <= taken => said'[n] = said[n]
  <2>1. TypeOK'
    BY TypeStep
  <2>2. taken' \in Nat /\ errors' \in Nat
    BY <2>1, ConstantFacts DEF TypeOK
  <2> QED
    BY <2>2, Numbers, SharedGrows DEF Names
\* What stays true of the answers counted and the answer under way.
<1>d. \A a \in got[v] : a[1] = a[2] /\ a[2] <= taken' /\ said'[a[2]] \in Answered
  BY <1>b, <1>c, <1>n DEF CountOK
<1>e. \A n \in inflight[v] : said'[n] \in Answered
  BY <1>b, <1>c, <1>n DEF ConnOK, CountOK
<1>f. name[v] <= taken'
  BY <1>b, <1>c, <1>n DEF CountOK
<1>1. CASE UNCHANGED WorkerVars(v)
  <2>1. ConnOK(v)'
    BY <1>1, <1>c, <1>e DEF ConnOK, WorkerVars
  <2>2. CountOK(v)'
    BY <1>1, <1>c, <1>d, <1>f DEF CountOK, WorkerVars
  <2>3. errors > 0 => errors' > 0
    BY <1>n
  <2>4. LeaveOK(v)'
    BY <1>1, <1>c, <1>n, <2>3, Zenon DEF LeaveOK, WorkerVars
  <2> QED
    BY <2>1, <2>2, <2>4 DEF WorkerOK
<1>2. CASE Dial(v)
  <2>1. pc[v] = "dial" /\ pc'[v] = "receive" /\ UNCHANGED <<taken, local, said>>
    BY <1>2, <1>a DEF Dial, Goto, channel
  <2> QED
    BY <1>c, <2>1 DEF WorkerOK, ConnOK, CountOK, LeaveOK, local
<1>3. CASE DialFails(v)
  <2>1. pc[v] = "dial" /\ pc'[v] = "left" /\ UNCHANGED <<taken, local, said>> /\ errors' = errors + 1
    BY <1>3, <1>a DEF DialFails, Goto, channel
  <2>2. errors' > 0
    BY <1>n, <2>1
  <2> QED
    BY <1>c, <2>1, <2>2 DEF WorkerOK, ConnOK, CountOK, LeaveOK, local
<1>4. CASE Ask(v)
  <2>1. PICK fate \in {"lost", "wanted", "other"} :
           /\ taken + 1 \in Names /\ taken + 1 <= sent
           /\ taken' = taken + 1
           /\ name' = [name EXCEPT ![v] = taken + 1]
           /\ said' = [said EXCEPT ![taken + 1] = fate]
           /\ inflight' = [inflight EXCEPT ![v] = IF fate = "lost" THEN @ ELSE @ \cup {taken + 1}]
           /\ pc[v] = "receive" /\ pc' = [pc EXCEPT ![v] = "read"]
           /\ UNCHANGED <<input, sent, closed, got, errs, results, status>>
    BY <1>4, AskEffect
  <2>2. /\ name'[v] = taken + 1 /\ pc'[v] = "read" /\ said'[taken + 1] = fate
        /\ got'[v] = got[v] /\ errs'[v] = errs[v]
        /\ inflight'[v] = IF fate = "lost" THEN inflight[v] ELSE inflight[v] \cup {taken + 1}
    BY <1>a, <2>1
  <2>3. inflight[v] = {}
    BY <1>c, <2>1 DEF ConnOK
  <2>4. ConnOK(v)'
    BY <2>2, <2>3 DEF ConnOK, Answered
  <2>5. CountOK(v)'
    <3>1. name'[v] <= taken' /\ errs'[v] <= name'[v] /\ errs'[v] < name'[v]
      BY <1>b, <1>c, <1>n, <2>1, <2>2 DEF CountOK
    <3> QED
      BY <1>d, <2>2, <3>1 DEF CountOK
  <2>6. LeaveOK(v)'
    BY <2>2 DEF LeaveOK
  <2> QED
    BY <2>4, <2>5, <2>6 DEF WorkerOK
<1>5. CASE Read(v)
  <2>1. PICK m \in inflight[v] :
           /\ inflight' = [inflight EXCEPT ![v] = @ \ {m}]
           /\ got' = [got EXCEPT ![v] = @ \cup {<<name[v], m>>}]
    BY <1>5 DEF Read
  <2>2. pc'[v] = "receive" /\ UNCHANGED <<name, errs, said, taken>>
    BY <1>5, <1>a DEF Read, Goto, channel
  <2>3. m = name[v] /\ said[m] \in Answered /\ inflight'[v] = {}
    BY <1>a, <1>c, <2>1 DEF ConnOK
  <2>4. got'[v] = got[v] \cup {<<name[v], name[v]>>}
    BY <1>a, <2>1, <2>3
  <2>5. \A a \in got'[v] : a[1] = a[2] /\ a[2] <= taken' /\ said'[a[2]] \in Answered
    BY <1>d, <1>f, <2>2, <2>3, <2>4
  <2>6. CountOK(v)'
    BY <1>c, <2>2, <2>5 DEF CountOK
  <2> QED
    BY <2>2, <2>3, <2>6 DEF WorkerOK, ConnOK, LeaveOK
<1>6. CASE AskFails(v)
  <2>1. /\ pc[v] = "read" /\ pc'[v] = "broken" /\ errs'[v] = errs[v] + 1
        /\ UNCHANGED <<name, inflight, got, said, taken>>
    BY <1>6, <1>a DEF AskFails, Goto, channel
  <2>2. errs'[v] <= name[v] /\ errs'[v] > 0
    BY <1>b, <1>c, <2>1 DEF CountOK
  <2>3. CountOK(v)'
    BY <1>c, <2>1, <2>2 DEF CountOK
  <2> QED
    BY <1>c, <2>1, <2>3 DEF WorkerOK, ConnOK, LeaveOK
<1>7. CASE Reconnect(v) \/ ReconnectFails(v)
  <2>1. /\ pc[v] = "broken" /\ pc'[v] \in {"receive", "flush"} /\ inflight'[v] = {}
        /\ UNCHANGED <<name, errs, got, said, taken>>
    BY <1>7, <1>a DEF Reconnect, ReconnectFails, Goto, channel
  <2>2. CountOK(v)'
    BY <1>c, <2>1 DEF CountOK
  <2>3. LeaveOK(v)'
    BY <1>c, <2>1 DEF CountOK, LeaveOK
  <2> QED
    BY <2>1, <2>2, <2>3 DEF WorkerOK, ConnOK
<1>8. CASE QueueEnds(v)
  <2>1. pc[v] = "receive" /\ pc'[v] = "flush" /\ UNCHANGED <<taken, local, said>>
    BY <1>8, <1>a DEF QueueEnds, Goto, channel
  <2>2. closed' /\ taken' = sent'
    BY <1>8 DEF QueueEnds, channel
  <2> QED
    BY <1>c, <2>1, <2>2 DEF WorkerOK, ConnOK, CountOK, LeaveOK, local
<1>9. CASE Flush(v)
  <2>1. /\ pc[v] = "flush" /\ pc'[v] = "left" /\ UNCHANGED <<channel, local, said>>
        /\ errors' = errors + errs[v] /\ answers' = answers \cup got[v]
    BY <1>9, <1>a DEF Flush, Goto
  <2>2. errs[v] = 0 \/ errors' > 0
    BY <1>b, <1>n, <2>1
  <2>3. LeaveOK(v)'
    <3>1. (closed /\ taken = sent) \/ errs[v] > 0
      BY <1>c, <2>1 DEF LeaveOK
    <3>2. errs[v] > 0 => errors' > 0
      BY <1>b, <1>n, <2>1
    <3>3. got'[v] \subseteq answers' /\ errs'[v] = errs[v] /\ closed' = closed /\ taken' = taken /\ sent' = sent
      BY <2>1 DEF local, channel
    <3> QED
      BY <2>1, <2>2, <3>1, <3>2, <3>3 DEF LeaveOK
  <2>4. taken' = taken
    BY <2>1 DEF channel
  <2> QED
    BY <1>c, <2>1, <2>3, <2>4 DEF WorkerOK, ConnOK, CountOK, local
<1> QED
  BY <1>1, <1>2, <1>3, <1>4, <1>5, <1>6, <1>7, <1>8, <1>9, WorkerFrame DEF Work

LEMMA MainInit == Init => MainInv /\ GreenMeansAnswered
<1> SUFFICES ASSUME Init PROVE MainInv /\ GreenMeansAnswered
  OBVIOUS
<1>1. sent = 0 /\ taken = 0 /\ status = "running"
  BY DEF Init
<1>2. ~closed
  BY Zenon DEF Init
<1> QED
  BY <1>1, <1>2 DEF MainInv, GreenMeansAnswered

\* A name that is accounted for stays accounted for.
LEMMA AccountedStep ==
  ASSUME TypeOK, WorkerInv, [Next]_vars, NEW n \in Names, NEW v \in Workers, Accounted(n, v)
  PROVE  Accounted(n, v)'
<1>a. /\ pc \in [Workers -> {"dial", "receive", "read", "broken", "flush", "left"}]
      /\ got \in [Workers -> SUBSET (Names \X Names)]
      /\ errs \in [Workers -> 0..MaxNames] /\ errs[v] \in Nat
  BY ConstantFacts DEF TypeOK
<1>1. CASE UNCHANGED WorkerVars(v)
  BY <1>1 DEF Accounted, WorkerVars
<1>2. CASE Read(v)
  <2>1. PICK m \in inflight[v] : got' = [got EXCEPT ![v] = @ \cup {<<name[v], m>>}]
    BY <1>2 DEF Read
  <2>2. m = name[v]
    BY DEF WorkerInv, WorkerOK, ConnOK
  <2>3. got'[v] = got[v] \cup {<<name[v], name[v]>>} /\ errs' = errs
    BY <1>2, <1>a, <2>1, <2>2 DEF Read
  <2> QED
    BY <2>3 DEF Accounted
<1>3. CASE AskFails(v)
  <2>1. errs'[v] = errs[v] + 1
    BY <1>3, <1>a DEF AskFails
  <2>2. errs'[v] > 0
    BY <1>a, <2>1
  <2> QED
    BY <2>2 DEF Accounted
<1>4. CASE Work(v) /\ ~Read(v) /\ ~AskFails(v)
  <2>1. pc[v] # "read" /\ UNCHANGED <<got, errs>>
    BY <1>4, <1>a DEF Work, Dial, DialFails, Ask, Reconnect, ReconnectFails, QueueEnds, Flush, local
  <2> QED
    BY <2>1 DEF Accounted
<1> QED
  BY <1>1, <1>2, <1>3, <1>4, WorkerFrame

LEMMA MainStep ==
  ASSUME TypeOK, WorkerInv, MainInv, [Next]_vars
  PROVE  MainInv'
<1>1. closed' => sent' = numNames'
  <2>1. CASE Produce
    <3>0. sent # numNames
      BY <2>1, Numbers DEF Produce
    <3>1. ~closed
      BY <3>0, Zenon DEF MainInv
    <3> QED
      BY <2>1, <3>1, Zenon DEF Produce
  <2>2. CASE Close
    BY <2>2, Zenon DEF Close, input
  <2>3. CASE UNCHANGED <<closed, sent, input>>
    BY <2>3, Zenon DEF MainInv, input
  <2> QED
    BY <2>1, <2>2, <2>3
    DEF Next, Main, Work, Exit, Dial, DialFails, Ask, Read, AskFails, Reconnect,
        ReconnectFails, QueueEnds, Flush, channel, vars
<1>2. sent' > 0 => Workers # {}
  <2>1. CASE Produce
    <3>1. sent - taken < Capacity /\ sent - taken \in Nat
      BY <2>1, Numbers DEF Produce
    <3>2. Workers = {} => Capacity = 0
      BY FS_EmptySet, PerWorkerAssumption DEF Capacity
    <3> QED
      BY <3>1, <3>2, ConstantFacts
  <2>2. CASE sent' = sent
    BY <2>2 DEF MainInv
  <2> QED
    BY <2>1, <2>2
    DEF Next, Main, Work, Close, Exit, Dial, DialFails, Ask, Read, AskFails, Reconnect,
        ReconnectFails, QueueEnds, Flush, channel, vars
<1>3. status' # "running" => closed' /\ \A w \in Workers : pc'[w] = "left"
  <2>1. CASE Exit
    BY <2>1 DEF Exit, channel
  <2>2. CASE ~Exit
    <3>1. status' = status
      BY <2>2 DEF Next, Main, Work, Produce, Close, Dial, DialFails, Ask, Read, AskFails, Reconnect,
                  ReconnectFails, QueueEnds, Flush, vars
    <3>2. closed => closed'
      BY Zenon DEF Next, Main, Work, Produce, Close, Exit, Dial, DialFails, Ask, Read, AskFails, Reconnect,
                   ReconnectFails, QueueEnds, Flush, channel, vars
    <3>3. ASSUME NEW w \in Workers, pc[w] = "left" PROVE pc'[w] = "left"
      <4>1. ~Work(w)
        BY <3>3 DEF Work, Dial, DialFails, Ask, Read, AskFails, Reconnect, ReconnectFails, QueueEnds, Flush
      <4> QED
        BY <3>3, <4>1, WorkerFrame DEF WorkerVars
    <3> QED
      BY <3>1, <3>2, <3>3, Zenon DEF MainInv
  <2> QED
    BY <2>1, <2>2
<1>4. \A n \in 1..taken' : \E w \in Workers : Accounted(n, w)'
  <2> SUFFICES ASSUME NEW n \in 1..taken' PROVE \E w \in Workers : Accounted(n, w)'
    OBVIOUS
  <2>t. taken' \in Nat /\ taken' <= MaxNames
    <3>1. TypeOK'
      BY TypeStep
    <3> QED
      BY <3>1, ConstantFacts DEF TypeOK
  <2>n. n \in Names
    BY <2>t, ConstantFacts DEF Names
  <2>1. CASE n \in 1..taken
    <3>1. PICK w \in Workers : Accounted(n, w)
      BY <2>1 DEF MainInv
    <3> QED
      BY <2>n, <3>1, AccountedStep
  <2>2. ASSUME NEW w \in Workers, Ask(w), n = taken + 1 PROVE Accounted(n, w)'
    <3>1. name' = [name EXCEPT ![w] = taken + 1] /\ pc' = [pc EXCEPT ![w] = "read"]
      BY <2>2, AskEffect
    <3> QED
      BY <2>2, <3>1 DEF TypeOK, Accounted
  <2>3. taken' = taken \/ \E w \in Workers : Ask(w)
    BY DEF Next, Main, Work, Produce, Close, Exit, Dial, DialFails, Read, AskFails, Reconnect,
           ReconnectFails, QueueEnds, Flush, channel, vars
  <2>4. ASSUME NEW w \in Workers, Ask(w) PROVE n \in 1..taken \/ n = taken + 1
    <3>1. taken' = taken + 1 /\ taken \in Nat
      BY <2>4, AskEffect, Numbers
    <3> QED
      BY <3>1
  <2> QED
    BY <2>1, <2>2, <2>3, <2>4
<1> QED
  BY <1>1, <1>2, <1>3, <1>4 DEF MainInv

\* report counts no mismatch only if every answer had the rcode that was wanted.
LEMMA NoMismatch ==
  ASSUME TypeOK, ~(Mismatches > 0)
  PROVE  \A a \in answers : said[a[2]] = "wanted"
<1> DEFINE S == {a \in answers : said[a[2]] = "wanted"}
<1>1. IsFiniteSet(Names)
  BY FS_Interval, ConstantFacts DEF Names
<1>2. IsFiniteSet(Names \X Names)
  BY <1>1, FS_Product
<1>3. IsFiniteSet(answers)
  BY <1>2, FS_Subset DEF TypeOK
<1>4. S \subseteq answers
  OBVIOUS
<1>5. Mismatches = Cardinality(answers) - Cardinality(S)
  BY DEF Mismatches
<1> HIDE DEF S
<1>6. /\ Cardinality(S) <= Cardinality(answers) /\ IsFiniteSet(S)
      /\ Cardinality(answers) = Cardinality(S) => answers = S
  BY <1>3, <1>4, FS_Subset
<1>7. Cardinality(S) \in Nat /\ Cardinality(answers) \in Nat
  BY <1>3, <1>6, FS_CardinalityType
<1>8. answers = S
  BY <1>5, <1>6, <1>7
<1> QED
  BY <1>8 DEF S

LEMMA GreenStep ==
  ASSUME TypeOK, WorkerInv, MainInv, GreenMeansAnswered, [Next]_vars
  PROVE  GreenMeansAnswered'
<1>0. UNCHANGED input
  BY DEF Next, Main, Work, Produce, Close, Exit, Dial, DialFails, Ask, Read, AskFails, Reconnect,
         ReconnectFails, QueueEnds, Flush, vars
<1> DEFINE Good == IF expect THEN {"wanted"} ELSE {"wanted", "other"}
<1>u. UNCHANGED said => (GreenMeansAnswered' <=> (status' = "0" => \A n \in 1..numNames : said[n] \in Good))
  BY <1>0 DEF GreenMeansAnswered, input
<1>1. CASE Exit
  <2>0. said' = said
    BY <1>1 DEF Exit
  <2> SUFFICES ASSUME status' = "0", NEW n \in 1..numNames PROVE said[n] \in Good
    BY <1>u, <2>0, Zenon
  <2>1. ~(expect /\ Mismatches > 0) /\ ~(errors > 0)
    BY <1>1 DEF Exit
  <2>2. closed /\ \A w \in Workers : pc[w] = "left"
    BY <1>1 DEF Exit
  <2>3. ASSUME NEW w \in Workers PROVE taken = sent /\ errs[w] = 0 /\ got[w] \subseteq answers
    BY <2>1, <2>2 DEF WorkerInv, WorkerOK, LeaveOK
  <2>4. sent = numNames
    BY <2>2, Zenon DEF MainInv
  <2>5. Workers # {}
    BY <2>4, Numbers DEF MainInv
  <2>6. n \in 1..taken
    BY <2>3, <2>4, <2>5
  <2>7. PICK w \in Workers : Accounted(n, w)
    BY <2>6 DEF MainInv
  <2>8. <<n, n>> \in got[w]
    BY <2>2, <2>3, <2>7 DEF Accounted
  <2>9. said[n] \in Answered /\ <<n, n>> \in answers
    BY <2>3, <2>8 DEF WorkerInv, WorkerOK, CountOK
  <2>10. expect => said[n] = "wanted"
    <3>1. ASSUME ~(Mismatches > 0) PROVE said[n] = "wanted"
      BY <2>9, <3>1, NoMismatch
    <3> QED
      BY <2>1, <3>1, Zenon
  <2> QED
    BY <2>9, <2>10 DEF Answered
<1>2. CASE ~Exit
  <2>1. status' = status
    BY <1>2 DEF Next, Main, Work, Produce, Close, Dial, DialFails, Ask, Read, AskFails, Reconnect,
                ReconnectFails, QueueEnds, Flush, vars
  <2>2. ASSUME status # "running" PROVE said' = said
    <3>1. \A w \in Workers : pc[w] = "left"
      BY <2>2 DEF MainInv
    <3>2. ~\E w \in Workers : Ask(w)
      BY <3>1 DEF Ask
    <3> QED
      BY <3>2 DEF Next, Main, Work, Produce, Close, Exit, Dial, DialFails, Read, AskFails, Reconnect,
                  ReconnectFails, QueueEnds, Flush, vars
  <2>3. CASE status' # "0"
    BY <2>3 DEF GreenMeansAnswered
  <2>4. CASE status' = "0"
    <3>1. said' = said
      BY <2>1, <2>2, <2>4
    <3>2. \A n \in 1..numNames : said[n] \in Good
      BY <2>1, <2>4, Zenon DEF GreenMeansAnswered
    <3> QED
      BY <1>u, <3>1, <3>2, Zenon
  <2> QED
    BY <2>3, <2>4
<1> QED
  BY <1>1, <1>2

-------------------------------------------------------------------------------
(***************************************************************************)
(* The invariant and what follows from it.                                 *)
(***************************************************************************)

LEMMA Invariance == Spec => []IInv
<1>1. Init => IInv
  BY TypeInit, WorkerInit, MainInit DEF IInv
<1>2. IInv /\ [Next]_vars => IInv'
  <2> SUFFICES ASSUME TypeOK, WorkerInv, MainInv, GreenMeansAnswered, [Next]_vars PROVE IInv'
    BY DEF IInv
  <2>1. WorkerInv'
    BY WorkerStep DEF WorkerInv
  <2> QED
    BY <2>1, TypeStep, MainStep, GreenStep DEF IInv
<1> QED
  BY <1>1, <1>2, PTL DEF Spec

\* No worker takes what was not sent, and the channel never holds more than its
\* capacity, for any number of workers.
THEOREM TypeCorrect == Spec => []TypeOK
BY Invariance, PTL DEF IInv

(***************************************************************************)
(* Exit status 0 means that every name in the file was answered, and with  *)
(* the rcode -expect asks for: no way a worker leaves, and no name left in *)
(* the channel, escapes the error count.                                   *)
(***************************************************************************)
THEOREM GreenIsAnswered == Spec => []GreenMeansAnswered
BY Invariance, PTL DEF IInv

\* Replacing the connection after every error keeps late answers from being
\* counted for another name, although worker compares no message IDs.
THEOREM AnswersAreOwn == Spec => []AnswersBelong
<1>1. IInv => AnswersBelong
  BY DEF IInv, WorkerInv, WorkerOK, CountOK, AnswersBelong
<1> QED
  BY <1>1, Invariance, PTL
===============================================================================
