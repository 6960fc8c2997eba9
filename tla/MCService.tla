----------------------------- MODULE MCService -----------------------------
(* Two plugins.  fofa has two queries, one with a steady candidate; fpl has *)
(* one list.                                                               *)
EXTENDS Service

CONSTANTS a, b

Found(fp, plugin, label) ==
    [fp |-> fp, source |-> plugin, label |-> label, region |-> AnyRegion,
     latency |-> 0]

MCFingerprint == {a, b}
MCPlugin == {"fofa", "fpl"}
MCSources == [p \in MCPlugin |-> IF p = "fofa" THEN {"q1", "q2"} ELSE {"list"}]

SteadyOne == Found(a, "fofa", "q1")

\* Every candidate has one source; the query q2 finds nothing.
Own == {SteadyOne, Found(b, "fpl", "list")}

\* The steady candidate of fofa is on fpl's list, too, from time to time.
Shared == {SteadyOne, Found(a, "fpl", "list")}
MCSteady == {SteadyOne}
=============================================================================
