---------------------------- MODULE MCScanSingle ----------------------------
(***************************************************************************)
(* Two segments, one with a key and two pages, one private with one page;  *)
(* memstats, the smon of an instance and one more process.                 *)
(***************************************************************************)
EXTENDS ScanSingle, TLC

CONSTANTS a, b, me, smon, p1

MCSize == (a :> 2) @@ (b :> 1)

\* Nothing; one segment or both for the instance, with another process or not
MCStarts == {{}, {<<smon, a>>}, {<<smon, a>>, <<p1, a>>, <<p1, b>>}, {<<smon, b>>, <<p1, b>>}}

\* No filter, one that leaves out memstats, one that leaves nobody
MCAccepted == {Procs, Procs \ {Self}, {}}

=============================================================================
