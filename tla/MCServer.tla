------------------------------- MODULE MCServer --------------------------------
(***************************************************************************)
(* A small binary, Corefile and deployment for TLC.                        *)
(***************************************************************************)
EXTENDS Server

\* "good" is what every parser of an argument likes, in its own way.
MCWords == {"", "good", "short", "bad", "file"}
MCduration == [w \in MCWords |-> IF w = "good" THEN 60 ELSE IF w = "short" THEN 59 ELSE 0]
MCnumber == [w \in MCWords |-> IF w = "good" THEN 65535 ELSE IF w = "short" THEN 65536 ELSE 0]
\* "" is neither an address nor a file, "short" a file without nameservers.
MChosts == [w \in MCWords |-> CASE w = "good" -> <<"tls">> [] w = "file" -> <<"dns", "dns">>
                                [] w = "bad" -> <<"other">> [] OTHER -> <<>>]

\* Directives as CoreDNS has them, without an anchor, and with a race of its own.
MCShipped == {
  <<"log", "cache", "hosts", "kubernetes", "loop", "forward">>,
  <<"log", "cache", "hosts", "kubernetes", "loop">>,
  <<"log", "cache", "hosts", "kubernetes", "race", "forward">> }

MCCorefiles == {{"log", "blocklist", "cache", "peercache", "race"}, {"blocklist", "cache", "peercache", "forward"},
                {"cache", "forward"}}
===============================================================================
