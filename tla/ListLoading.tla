------------------------------ MODULE ListLoading ------------------------------
(***************************************************************************)
(* From the text of a blocklist to the set of names the matcher searches:  *)
(* parseList and normalizeEntry (parse.go), newNameSet and the lookups on  *)
(* it (matcher.go), and fetch's verdict on the result (source.go).         *)
(*                                                                         *)
(* Text is split at the dots: a field, a name and a query are sequences of *)
(* labels, where "*.b.c." is <<"*", "b", "c", "">>, and the empty string   *)
(* is <<"">>.  What a label looks like inside is left to the constants.   *)
(***************************************************************************)
EXTENDS Naturals, Sequences, Functions

CONSTANTS
  Labels,         \* labels in fields and queries; "" and "*" are among them
  GoodLabels,     \* those isDomainName accepts: lower case, 63 characters at most
  TooLong,        \* names of more than 253 characters
  lower,          \* [Labels -> Labels]: strings.ToLower
  code,           \* [Labels -> Nat]: the order of labels, injective
  IPs,            \* fields isIP accepts, with a zone or without
  localNames,     \* the names of parse.go's table
  Lines,          \* lines a list may have: sequences of fields
  Queries,        \* query names, as clients send them
  MaxLines        \* bound on the lines of a list

ASSUME LabelsAssumption == {"", "*"} \subseteq Labels \ GoodLabels /\ GoodLabels \subseteq Labels
ASSUME LowerAssumption == lower \in [Labels -> Labels]
ASSUME CodeAssumption ==
  code \in [Labels -> Nat] /\ \A k, l \in Labels : code[k] = code[l] => k = l
ASSUME MaxLinesAssumption == MaxLines \in Nat
ASSUME TextAssumption ==
  /\ \A line \in Lines : line \in Seq((Seq(Labels) \ {<<>>}) \cup {<<"#">>})
  /\ Queries \subseteq Seq(Labels) \ {<<>>}

VARIABLES
  pc,             \* "parse", "dedup", "prune", "loaded" or "failed"
  lines,          \* the lines read so far, in order
  candidates,     \* fields of the last line still to be looked at
  parsed,         \* parseList's out
  array,          \* the array behind sorted and deduped
  i,              \* index of the running loop
  kept,           \* how many names deduped has
  last,           \* the loop's last
  out             \* newNameSet's result

vars == <<pc, lines, candidates, parsed, array, i, kept, last, out>>

-------------------------------------------------------------------------------
(***************************************************************************)
(* Strings.                                                                *)
(***************************************************************************)
EmptyString == <<"">>

ToLower(s) == [k \in DOMAIN s |-> lower[s[k]]]

\* TrimSuffix(s, ".")
TrimDot(s) == IF Len(s) > 1 /\ s[Len(s)] = "" THEN SubSeq(s, 1, Len(s) - 1) ELSE s

\* TrimPrefix(s, p \o "."), for a p without a dot
TrimLabel(s, p) == IF Len(s) > 1 /\ s[1] = p THEN Tail(s) ELSE s

\* The order of strings.  Byte order compares like this unless a label has a "-",
\* which sorts before the dot; all that is used is that it is a total order.
Before(s, t) ==
  \E k \in 1..Len(t) :
    /\ \A j \in 1..(k - 1) : j <= Len(s) /\ s[j] = t[j]
    /\ k > Len(s) \/ code[s[k]] < code[t[k]]

-------------------------------------------------------------------------------
(***************************************************************************)
(* parse.go.                                                               *)
(***************************************************************************)
isDomainName(s) == s \notin TooLong /\ \A k \in DOMAIN s : s[k] \in GoodLabels

isIP(s) == s \in IPs

Trimmed(raw) == TrimLabel(TrimLabel(TrimDot(ToLower(raw)), "*"), "")

Accept(s) ==
  s # EmptyString /\ ~isIP(s) /\ Len(s) > 1 /\ isDomainName(s) /\ s \notin localNames

\* The fields before a "#", wherever in the line it is.
Hash == <<"#">>
Fields(line) ==
  LET marks == {k \in DOMAIN line : line[k] = Hash} IN
  SubSeq(line, 1, CHOOSE n \in 0..Len(line) :
    /\ n + 1 \in marks \cup {Len(line) + 1}
    /\ \A k \in marks : n < k)

Candidates(line) ==
  LET fields == Fields(line) IN
  IF Len(fields) >= 2 /\ isIP(fields[1]) THEN Tail(fields)
  ELSE IF Len(fields) = 1 THEN fields ELSE <<>>

-------------------------------------------------------------------------------
(***************************************************************************)
(* matcher.go: lookups.                                                    *)
(***************************************************************************)
\* Where sort.SearchStrings may end, counted from 0: what is before k is smaller
\* than n, what is at k is not.  In a sorted slice there is one such place.
SearchStrings(s, n, k) ==
  /\ k = 0 \/ Before(s[k], n)
  /\ k = Len(s) \/ ~Before(s[k + 1], n)

has(s, n) == \E k \in 0..Len(s) : SearchStrings(s, n, k) /\ k < Len(s) /\ s[k + 1] = n

From(n, k) == SubSeq(n, k, Len(n))

covers(s, n) == \E k \in DOMAIN n : From(n, k) # EmptyString /\ has(s, From(n, k))

hasAncestorOrSelf(s, n) == covers(s, n)                      \* mutant: the name itself counts
hasAncestor(s, n) == Len(n) > 1 /\ covers(s, Tail(n))

normalizeQuery(q) == TrimDot(ToLower(q))

-------------------------------------------------------------------------------
Init ==
  /\ pc = "parse"
  /\ lines = <<>> /\ candidates = <<>> /\ parsed = <<>>
  /\ array = <<>> /\ i = 1 /\ kept = 0 /\ last = EmptyString
  /\ out = <<>>

(***************************************************************************)
(* parseList: a line, then its candidates one by one.                      *)
(***************************************************************************)
ParseLine(line) ==
  /\ pc = "parse" /\ candidates = <<>>
  /\ Len(lines) < MaxLines
  /\ lines' = Append(lines, line)
  /\ candidates' = Candidates(line)
  /\ UNCHANGED <<pc, parsed, array, i, kept, last, out>>

normalizeEntry ==
  /\ pc = "parse" /\ candidates # <<>>
  /\ LET name == Trimmed(Head(candidates)) IN
       parsed' = IF Accept(name) THEN Append(parsed, name) ELSE parsed
  /\ candidates' = Tail(candidates)
  /\ UNCHANGED <<pc, lines, array, i, kept, last, out>>

\* The body cannot be read, a line is too long, or fetch counts no name.
LoadFails ==
  /\ pc = "parse" /\ candidates = <<>>
  /\ pc' = "failed"
  /\ UNCHANGED <<lines, candidates, parsed, array, i, kept, last, out>>

\* newNameSet copies, and sort.Strings puts the copy in order.
Ascending(s) == \A j, k \in DOMAIN s : j < k => Before(s[j], s[k]) \/ s[j] = s[k]

Sort ==
  /\ pc = "parse" /\ candidates = <<>>
  /\ parsed # <<>>
  /\ \E p \in Bijection(DOMAIN parsed, DOMAIN parsed) : array' = [k \in DOMAIN parsed |-> parsed[p[k]]]
  /\ Ascending(array')
  /\ pc' = "dedup"
  /\ UNCHANGED <<lines, candidates, parsed, i, kept, last, out>>

(***************************************************************************)
(* newNameSet: deduped grows over the front of the array the loop reads.   *)
(***************************************************************************)
DedupForgetsLast ==                                          \* mutant: last = n is missing
  /\ pc = "dedup" /\ i <= Len(array)
  /\ array' = [array EXCEPT ![kept + 1] = array[i]]
  /\ kept' = kept + 1
  /\ i' = i + 1
  /\ UNCHANGED <<pc, lines, candidates, parsed, last, out>>
DedupStep ==
  /\ pc = "dedup" /\ i <= Len(array)
  /\ IF i = 1 \/ array[i] # last
       THEN /\ array' = [array EXCEPT ![kept + 1] = array[i]]
            /\ kept' = kept + 1
            /\ last' = array[i]
       ELSE UNCHANGED <<array, kept, last>>
  /\ i' = i + 1
  /\ UNCHANGED <<pc, lines, candidates, parsed, out>>

DedupEnds ==
  /\ pc = "dedup" /\ i > Len(array)
  /\ pc' = "prune"
  /\ i' = 1
  /\ UNCHANGED <<lines, candidates, parsed, array, kept, last, out>>

deduped == SubSeq(array, 1, kept)

PruneStep ==
  /\ pc = "prune" /\ i <= kept
  /\ out' = IF hasAncestor(deduped, array[i]) THEN out ELSE Append(out, array[i])
  /\ i' = i + 1
  /\ UNCHANGED <<pc, lines, candidates, parsed, array, kept, last>>

Loaded ==
  /\ pc = "prune" /\ i > kept
  /\ pc' = "loaded"
  /\ UNCHANGED <<lines, candidates, parsed, array, i, kept, last, out>>

Next ==
  \/ \E line \in Lines : ParseLine(line)
  \/ normalizeEntry
  \/ LoadFails
  \/ Sort
  \/ DedupStep \/ DedupEnds
  \/ PruneStep \/ Loaded

Spec == Init /\ [][Next]_vars

-------------------------------------------------------------------------------
(***************************************************************************)
(* Properties.                                                             *)
(***************************************************************************)
(***************************************************************************)
(* What a list says, without reference to how it is read.  A domain has    *)
(* two labels or more, all of them proper ones, no more than 253           *)
(* characters, and is neither an address nor a local name.  A field names  *)
(* it if it is the domain in any case, plain or with "*." or "." before    *)
(* it, with or without a dot behind it.  A line lists the field it         *)
(* consists of, or all fields behind an address, up to a "#".              *)
(***************************************************************************)
Domain(d) == Len(d) >= 2 /\ (\A k \in DOMAIN d : d[k] \in GoodLabels) /\ d \notin IPs \cup localNames \cup TooLong

Names(field, d) ==
  \E before \in {<<>>, <<"*">>, <<"">>, <<"*", "">>}, after \in {<<>>, <<"">>} :
    ToLower(field) = before \o d \o after

Lists(line, d) ==
  \E k \in DOMAIN line :
    /\ \A j \in 1..k : line[j] # Hash
    /\ IF k = 1 THEN Len(line) = 1 \/ line[2] = Hash ELSE line[1] \in IPs
    /\ Names(line[k], d)

(***************************************************************************)
(* A loaded list covers a query if and only if one of its lines lists a    *)
(* domain whose subtree the query is in.  Nothing is lost between the text *)
(* and the search, by sorting, deduplicating in place or pruning, and      *)
(* nothing is blocked that the list does not name: no top-level domain and *)
(* no local name, whatever the list holds (parse.go, 26-66; matcher.go,    *)
(* 41-72).                                                                 *)
(***************************************************************************)
BlocksWhatItNames ==
  pc = "loaded" =>
    \A q \in Queries :
      LET n == normalizeQuery(q) IN
      covers(out, n) <=> \E k \in DOMAIN n : Domain(From(n, k)) /\ \E l \in DOMAIN lines : Lists(lines[l], From(n, k))

(***************************************************************************)
(* A loaded list is sorted, holds no name twice and none that another one  *)
(* covers: what the binary search needs, and what makes matcher.size, the  *)
(* entries gauge, a number of domains (matcher.go, 38-42).                 *)
(***************************************************************************)
Canonical ==
  pc = "loaded" =>
    \A j, k \in DOMAIN out :
      /\ j < k => Before(out[j], out[k])
      /\ j # k => \A m \in DOMAIN out[j] : From(out[j], m) # out[k]
===============================================================================
