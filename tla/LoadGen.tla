-------------------------------- MODULE LoadGen --------------------------------
(***************************************************************************)
(* scripts/loadgen: a producer feeds query names to workers over a bounded *)
(* channel; each worker holds one UDP connection, counts for itself, and   *)
(* adds its counts to the shared results when it leaves; main's exit       *)
(* status tells scripts/loadtest.sh whether every answer was right.        *)
(*                                                                         *)
(* The names are 1..numNames in the order of the file.  The channel is     *)
(* first in, first out, so it holds the names taken + 1 .. sent.           *)
(***************************************************************************)
EXTENDS Naturals, FiniteSets

CONSTANTS
  Workers,        \* the worker goroutines
  PerWorker,      \* room in the channel for each worker; 4 in the code
  MaxNames        \* bound on the names in the file

ASSUME WorkersAssumption == IsFiniteSet(Workers)
ASSUME PerWorkerAssumption == PerWorker \in Nat \ {0}
ASSUME MaxNamesAssumption == MaxNames \in Nat \ {0}

\* The names run is given; how readNames trims and limits the file is left out.
Names == 1..MaxNames
NoName == 0

VARIABLES
  numNames,       \* how many names the file has, up to -limit; main gives up on none
  expect,         \* -expect was given
  sent,           \* names put into the channel
  taken,          \* names taken out of it
  closed,         \* the channel is closed
  pc,             \* pc[w]: where a worker is
  name,           \* name[w]: the name it asks for
  inflight,       \* inflight[w]: names whose answers are under way on its connection
  got,            \* got[w]: the answers it counted, as <<name asked, name answered>>
  errs,           \* errs[w]: the errors it counted
  said,           \* said[n]: what the server made of n
  answers,        \* the answers in the shared results
  errors,         \* the errors in the shared results
  status          \* "running", or the exit status

channel == <<sent, taken, closed>>
local == <<name, inflight, got, errs>>
results == <<answers, errors>>
input == <<numNames, expect>>
vars == <<input, channel, pc, local, said, results, status>>

-------------------------------------------------------------------------------
Init ==
  /\ numNames \in 1..MaxNames
  /\ expect \in BOOLEAN
  /\ sent = 0 /\ taken = 0 /\ closed = FALSE
  /\ pc = [w \in Workers |-> "dial"]
  /\ name = [w \in Workers |-> NoName]
  /\ inflight = [w \in Workers |-> {}]
  /\ got = [w \in Workers |-> {}]
  /\ errs = [w \in Workers |-> 0]
  /\ said = [n \in Names |-> "nothing"]
  /\ answers = {} /\ errors = 0
  /\ status = "running"

Goto(w, l) == pc' = [pc EXCEPT ![w] = l]

-------------------------------------------------------------------------------
(***************************************************************************)
(* run: the producer.                                                      *)
(***************************************************************************)
Capacity == PerWorker * Cardinality(Workers)

Produce ==
  /\ sent < numNames
  /\ sent - taken < Capacity
  /\ sent' = sent + 1
  /\ UNCHANGED <<input, taken, closed, pc, local, said, results, status>>

CloseForgotten ==                           \* mutant: wg.Wait without close(queue)
  /\ sent = numNames /\ ~closed
  /\ UNCHANGED vars
Close ==
  /\ sent = numNames /\ ~closed
  /\ closed' = TRUE
  /\ UNCHANGED <<input, sent, taken, pc, local, said, results, status>>

-------------------------------------------------------------------------------
(***************************************************************************)
(* worker.                                                                 *)
(***************************************************************************)
Dial(w) ==
  /\ pc[w] = "dial"
  /\ Goto(w, "receive")
  /\ UNCHANGED <<input, channel, local, said, results, status>>

DialFailsUncounted(w) ==                    \* mutant: the worker just returns
  /\ pc[w] = "dial"
  /\ Goto(w, "left")
  /\ UNCHANGED <<input, channel, local, said, results, status>>
DialFails(w) ==
  /\ pc[w] = "dial"
  /\ errors' = errors + 1
  /\ Goto(w, "left")
  /\ UNCHANGED <<input, channel, local, said, answers, status>>

\* Takes a name and writes the query.  The server never sees it or never answers
\* ("lost"), or it answers, with the rcode that was wanted or another one.
AskPastEnd(w) ==                            \* mutant: <-queue without looking at ok
  /\ pc[w] = "receive"
  /\ taken < sent \/ closed
  /\ taken' = taken + 1
  /\ name' = [name EXCEPT ![w] = taken']
  /\ \E fate \in {"lost", "wanted", "other"} :
       /\ said' = [said EXCEPT ![taken'] = fate]
       /\ inflight' = [inflight EXCEPT ![w] = IF fate = "lost" THEN @ ELSE @ \cup {taken'}]
  /\ Goto(w, "read")
  /\ UNCHANGED <<input, sent, closed, got, errs, results, status>>
Ask(w) ==
  /\ pc[w] = "receive"
  /\ taken < sent
  /\ taken' = taken + 1
  /\ name' = [name EXCEPT ![w] = taken']
  /\ \E fate \in {"lost", "wanted", "other"} :
       /\ said' = [said EXCEPT ![taken'] = fate]
       /\ inflight' = [inflight EXCEPT ![w] = IF fate = "lost" THEN @ ELSE @ \cup {taken'}]
  /\ Goto(w, "read")
  /\ UNCHANGED <<input, sent, closed, got, errs, results, status>>

\* ReadMsg returns whatever arrives on the connection next.
Read(w) ==
  /\ pc[w] = "read"
  /\ \E m \in inflight[w] :
       /\ inflight' = [inflight EXCEPT ![w] = @ \ {m}]
       /\ got' = [got EXCEPT ![w] = @ \cup {<<name[w], m>>}]
  /\ Goto(w, "receive")
  /\ UNCHANGED <<input, channel, name, errs, said, results, status>>

\* The deadline passes, also when the answer is only late; or the write failed.
AskFails(w) ==
  /\ pc[w] = "read"
  /\ errs' = [errs EXCEPT ![w] = @ + 1]
  /\ Goto(w, "broken")
  /\ UNCHANGED <<input, channel, name, inflight, got, said, results, status>>

\* A new connection has a new port: what is under way to the old one is lost.
ReconnectNot(w) ==                          \* mutant: goes on with the old connection
  /\ pc[w] = "broken"
  /\ Goto(w, "receive")
  /\ UNCHANGED <<input, channel, local, said, results, status>>
Reconnect(w) ==
  /\ pc[w] = "broken"
  /\ inflight' = [inflight EXCEPT ![w] = {}]
  /\ Goto(w, "receive")
  /\ UNCHANGED <<input, channel, name, got, errs, said, results, status>>

ReconnectFails(w) ==
  /\ pc[w] = "broken"
  /\ inflight' = [inflight EXCEPT ![w] = {}]
  /\ Goto(w, "flush")
  /\ UNCHANGED <<input, channel, name, got, errs, said, results, status>>

QueueEnds(w) ==
  /\ pc[w] = "receive"
  /\ closed /\ taken = sent
  /\ Goto(w, "flush")
  /\ UNCHANGED <<input, channel, local, said, results, status>>

\* Under the lock.
Flush(w) ==
  /\ pc[w] = "flush"
  /\ answers' = answers \cup got[w]
  /\ errors' = errors + errs[w]
  /\ Goto(w, "left")
  /\ UNCHANGED <<input, channel, local, said, status>>

-------------------------------------------------------------------------------
(***************************************************************************)
(* run returns, report counts the mismatches, main exits.                  *)
(***************************************************************************)
Mismatches == Cardinality(answers) - Cardinality({a \in answers : said[a[2]] = "wanted"})

Exit ==
  /\ status = "running"
  /\ closed /\ \A w \in Workers : pc[w] = "left"
  /\ status' = IF (expect /\ Mismatches > 0) \/ errors > 0 THEN "1" ELSE "0"
  /\ UNCHANGED <<input, channel, pc, local, said, results>>

-------------------------------------------------------------------------------
Main == Produce \/ Close \/ Exit

Work(w) ==
  \/ Dial(w) \/ DialFails(w)
  \/ Ask(w) \/ Read(w) \/ AskFails(w)
  \/ Reconnect(w) \/ ReconnectFails(w)
  \/ QueueEnds(w) \/ Flush(w)

Next == Main \/ \E w \in Workers : Work(w)

Spec == Init /\ [][Next]_vars

\* Goroutines run, and every read has a deadline.
FairSpec == Spec /\ WF_vars(Main) /\ \A w \in Workers : WF_vars(Work(w))

-------------------------------------------------------------------------------
(***************************************************************************)
(* Properties.                                                             *)
(***************************************************************************)

\* Also: no worker takes what was not sent.
TypeOK ==
  /\ numNames \in 1..MaxNames
  /\ expect \in BOOLEAN
  /\ sent \in 0..numNames /\ taken \in 0..sent /\ sent - taken <= Capacity
  /\ closed \in BOOLEAN
  /\ pc \in [Workers -> {"dial", "receive", "read", "broken", "flush", "left"}]
  /\ name \in [Workers -> 0..MaxNames]
  /\ inflight \in [Workers -> SUBSET Names]
  /\ got \in [Workers -> SUBSET (Names \X Names)]
  /\ errs \in [Workers -> 0..MaxNames]
  /\ said \in [Names -> {"nothing", "lost", "wanted", "other"}]
  /\ answers \in SUBSET (Names \X Names)
  /\ errors \in Nat
  /\ status \in {"running", "0", "1"}

(***************************************************************************)
(* A green load test is one: main exits with 0 only if the server answered *)
(* every name, with the rcode that was wanted if one was, whichever        *)
(* workers failed to dial or left early and whatever stayed in the channel *)
(* (main.go, 61-66).                                                       *)
(***************************************************************************)
GreenMeansAnswered ==
  status = "0" => \A n \in 1..numNames : said[n] \in (IF expect THEN {"wanted"} ELSE {"wanted", "other"})

(***************************************************************************)
(* An answer is counted for the name it answers, although ReadMsg compares *)
(* no ID: after an error the connection is replaced, and a late answer     *)
(* with it (main.go, 147-155).  This is for a network that does not        *)
(* duplicate datagrams.                                                    *)
(***************************************************************************)
AnswersBelong == \A w \in Workers : \A a \in got[w] : a[1] = a[2]

(***************************************************************************)
(* run returns, unless every worker has left while the producer is blocked *)
(* on a full channel (main.go, 95-97): then nobody reads it any more.      *)
(***************************************************************************)
Abandoned ==
  /\ sent < numNames /\ sent - taken = Capacity
  /\ \A w \in Workers : pc[w] = "left"

RunReturns == <>(status # "running" \/ Abandoned)
===============================================================================
