------------------------------- MODULE Contest -------------------------------
(***************************************************************************)
(* What a contest between resolvers promises, independently of how the     *)
(* legs are run.  Every query is put to a set of legs.  Legs report one by *)
(* one, in an order nobody controls, and the query is decided exactly once:*)
(*                                                                         *)
(*   - "won": by the first leg, in reporting order, whose report is useful;*)
(*   - "fallback": only after every leg has reported and none was useful,  *)
(*     with an unusable answer of one of the FallbackLegs;                 *)
(*   - "failed": only after every leg has reported and no fallback leg has *)
(*     so much as an unusable answer;                                      *)
(*   - "cancelled": whoever asked went away first;                         *)
(*   - "delegated": the query was never put to the legs.                   *)
(*                                                                         *)
(* A decision does not stop the legs: they may go on reporting.            *)
(***************************************************************************)
EXTENDS Naturals, Sequences

CONSTANTS
  Queries,          \* the queries that may be asked
  Legs,             \* the legs every query is put to
  FallbackLegs,     \* the legs (of Legs) whose unusable answer may be returned
  NoLeg             \* not one of Legs

VARIABLES
  order,            \* [Queries -> Seq(Legs)]: legs in the order they reported
  report,           \* [Queries -> [Legs -> Reports]]
  verdict           \* [Queries -> Verdicts]

vars == <<order, report, verdict>>

Reports == {"pending", "useful", "unusable", "nothing", "absent"}

Verdicts == [how : {"open", "won", "fallback", "failed", "cancelled", "delegated"},
             by  : Legs \cup {NoLeg}]

Open == [how |-> "open", by |-> NoLeg]

Decided(how, by) == [how |-> how, by |-> by]

Init ==
  /\ order = [q \in Queries |-> <<>>]
  /\ report = [q \in Queries |-> [l \in Legs |-> "pending"]]
  /\ verdict = [q \in Queries |-> Open]

\* Legs other than the fallback ones may be left out before the first report.
LeaveOut(q) ==
  /\ verdict[q] = Open
  /\ \A l \in Legs : report[q][l] = "pending"
  /\ \E out \in SUBSET (Legs \ FallbackLegs) :
       report' = [report EXCEPT ![q] = [l \in Legs |-> IF l \in out THEN "absent" ELSE "pending"]]
  /\ UNCHANGED <<order, verdict>>

\* A leg reports, once.
Report(q, l) ==
  /\ report[q][l] = "pending"
  /\ \E r \in Reports \ {"pending", "absent"} : report' = [report EXCEPT ![q][l] = r]
  /\ order' = [order EXCEPT ![q] = Append(@, l)]
  /\ UNCHANGED verdict

NothingUseful(q) == \A l \in Legs : report[q][l] \in {"unusable", "nothing", "absent"}

Verdict(q, v) ==
  /\ verdict[q] = Open
  /\ verdict' = [verdict EXCEPT ![q] = v]
  /\ UNCHANGED <<order, report>>

Win(q) ==
  \E i \in 1..Len(order[q]) :
    /\ report[q][order[q][i]] = "useful"
    /\ \A j \in 1..(i - 1) : report[q][order[q][j]] # "useful"
    /\ Verdict(q, Decided("won", order[q][i]))

FallBack(q) ==
  /\ NothingUseful(q)
  /\ \E l \in FallbackLegs :
       /\ report[q][l] = "unusable"
       /\ Verdict(q, Decided("fallback", l))

Fail(q) ==
  /\ NothingUseful(q)
  /\ \A l \in FallbackLegs : report[q][l] = "nothing"
  /\ Verdict(q, Decided("failed", NoLeg))

Cancel(q) == Verdict(q, Decided("cancelled", NoLeg))

Delegate(q) ==
  /\ order[q] = <<>>
  /\ Verdict(q, Decided("delegated", NoLeg))

Next ==
  \E q \in Queries :
    \/ LeaveOut(q)
    \/ \E l \in Legs : Report(q, l)
    \/ Win(q)
    \/ FallBack(q)
    \/ Fail(q)
    \/ Cancel(q)
    \/ Delegate(q)

Spec == Init /\ [][Next]_vars
==============================================================================
