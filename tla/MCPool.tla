------------------------------- MODULE MCPool -------------------------------
(* Small pools for TLC: two proxies that both plugins may find and one     *)
(* sing-box outbound.                                                      *)
EXTENDS PoolRotation

CONSTANTS a, b, x

MCFingerprint == {a, b, x}
MCBox == {x}
MCPlugin == {"fpl", "singbox"}
MCLabel == {"s1", "s2"}

\* a is offered with two latencies and by two plugins.
MCOffers ==
    {[fp |-> a, source |-> "fpl", label |-> NoLabel, region |-> AnyRegion, latency |-> 2],
     [fp |-> a, source |-> "singbox", label |-> "s1", region |-> AnyRegion, latency |-> 0],
     [fp |-> b, source |-> "fpl", label |-> "s1", region |-> AnyRegion, latency |-> 1],
     [fp |-> x, source |-> "singbox", label |-> "s2", region |-> AnyRegion, latency |-> 1]}
=============================================================================
