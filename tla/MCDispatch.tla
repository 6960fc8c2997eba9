----------------------------- MODULE MCDispatch -----------------------------
(* Two connections against a pool of a healthy proxy a and another candidate *)
(* b: a sing-box outbound, or one more proxy.                                *)
EXTENDS Dispatch, TLC

CONSTANTS a, b, r1, r2

Anywhere == [plugin |-> AnyPlugin, region |-> AnyRegion]
InUS     == [plugin |-> AnyPlugin, region |-> "US"]

Ask(route, fast, session) ==
    [route |-> route, fast |-> fast, session |-> session, ttl |-> 0]

MCFingerprint == {a, b}
MCRequest == {r1, r2}

Found(fp, plugin, region, latency) ==
    [fp |-> fp, source |-> plugin, label |-> NoLabel, region |-> region,
     latency |-> latency]

\* The country of the sing-box outbound b varies.
MCOffers ==
    {Found(a, "fpl", "US", 1), Found(b, "singbox", "US", 2),
     Found(b, "singbox", AnyRegion, 0)}

\* Two ordinary proxies.
PlainOffers == {Found(a, "fpl", AnyRegion, 1), Found(b, "fpl", AnyRegion, 1)}

\* A session restricted to one country, next to a fast request without session.
CountryAndFast ==
    (r1 :> {Ask(InUS, FALSE, "s")}) @@ (r2 :> {Ask(Anywhere, TRUE, NoSession)})

\* A session next to a fast request without session.
SessionAndFast ==
    (r1 :> {Ask(Anywhere, FALSE, "s")}) @@ (r2 :> {Ask(Anywhere, TRUE, NoSession)})

\* Two connections of one session.
SharedSession == [r \in MCRequest |-> {Ask(Anywhere, FALSE, "s")}]
=============================================================================
