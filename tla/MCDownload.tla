----------------------------- MODULE MCDownload -----------------------------
(* Four versions of a file, two of the same length, two damaged, each in its way,
   and servers of every kind: they honour, ignore or reject ranges, honour If-Range or
   not, send validators or not, and announce the length or not. *)
EXTENDS Download

Server(ranges, ifRange, tagged, sized) ==
  [ranges |-> ranges, ifRange |-> ifRange, tagged |-> tagged, sized |-> sized]

MCServers ==
  {Server("honoured", TRUE, TRUE, sized) : sized \in BOOLEAN} \cup
  {Server(ranges, ifRange, TRUE, TRUE) : ranges \in {"ignored", "rejected"}, ifRange \in {TRUE}} \cup
  {Server("honoured", FALSE, TRUE, FALSE), Server("honoured", TRUE, FALSE, FALSE)}

MCLength == <<2, 2, 1, 3>>
MCDamage == <<"none", "checksum", "deflate", "none">>

MCOneServer == {Server("honoured", TRUE, TRUE, TRUE)}
MCTwoVersions == <<1, 1>>
MCDeflateDamage == <<"deflate", "none">>
=============================================================================
