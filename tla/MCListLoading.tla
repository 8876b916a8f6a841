----------------------------- MODULE MCListLoading -----------------------------
(***************************************************************************)
(* Small lists for TLC.                                                    *)
(***************************************************************************)
EXTENDS ListLoading

MCGoodLabels == {"0", "a", "b", "c", "d", "localhost", "localdomain"}
MCLabels == MCGoodLabels \cup {"", "*", "A", "||a"}
MClower == [l \in MCLabels |-> IF l = "A" THEN "a" ELSE l]
MCorder == <<"", "*", "0", "A", "a", "b", "c", "d", "localdomain", "localhost", "||a">>
MCcode == [l \in MCLabels |-> CHOOSE k \in DOMAIN MCorder : MCorder[k] = l]

MCIP == <<"0", "0">>
MCIPs == {MCIP}
MCTooLong == {<<"a", "b", "a", "b", "d">>}
MClocalNames == {<<"localhost">>, <<"localhost", "localdomain">>}

\* Names one above the other, and next to each other, in every spelling.
MCLines == {
  << <<"b", "c">> >>,
  << <<"*", "b", "c">> >>,
  << <<"", "a", "d">> >>,
  << <<"A", "b", "c", "">> >>,
  << <<"d", "b", "c">> >>,
  << <<"c">> >>,
  << <<"*", "c">> >>,
  << <<"||a", "c">> >>,
  << <<"localhost", "localdomain">> >>,
  << <<"*", "a", "b", "a", "b", "d">> >>,
  << MCIP >>,
  << MCIP, <<"localhost">>, <<"a", "c">> >>,
  << MCIP, <<"d", "a", "c">>, Hash, <<"c", "d">> >>,
  << <<"a", "c">>, <<"c", "d">> >>,
  << Hash, <<"c", "d">> >>,
  << >> }

MCQueries == {
  <<"">>, <<"", "">>, <<"c", "">>, <<"localhost", "">>, <<"localhost", "localdomain", "">>,
  <<"b", "c", "">>, <<"a", "b", "c", "">>, <<"d", "A", "b", "c", "">>, <<"d", "b", "c", "">>,
  <<"a", "c", "">>, <<"d", "a", "c", "">>, <<"A", "d", "">>, <<"c", "d", "">>, <<"b", "a", "b", "d", "">>, <<"||a", "c", "">>,
  <<"0", "0", "">> }
===============================================================================
