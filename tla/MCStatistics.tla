---------------------------- MODULE MCStatistics ----------------------------
(***************************************************************************)
(* Small instances of Statistics for TLC.                                  *)
(***************************************************************************)
EXTENDS Statistics

CONSTANTS s1, c1, c2

InOrder == <<s1>>
Ask1(v, a) == [version |-> v, action |-> a]
\* one request of each kind that process_request_json tells apart
EveryKind == {BadJson, Ask1(Absent, "config"), Ask1(2, "config"), Ask1(1, Absent),
              Ask1(1, "no such"), Ask1(1, "config"), Ask1(1, "service"),
              Ask1(1, "all_services"), Ask1(1, IllTyped)}
=============================================================================
