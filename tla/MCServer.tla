------------------------------ MODULE MCServer ------------------------------
(* Two connections on a listener that asks for credentials, and files that   *)
(* set, in one part of the configuration at a time, every combination of    *)
(* the values the code tells apart, with the boundaries of each range.      *)
EXTENDS Server

CONSTANTS c1, c2

ConnMC == {c1, c2}

\* The files that set s and t to the given values, and the rest as base does.
Pair(base, s, S, t, T) ==
    {[base EXCEPT ![s] = v, ![t] = w] : v \in S, w \in T}

Plugins == [Zero EXCEPT !.fpl = TRUE, !.fofa = TRUE, !.singbox = TRUE]

Source(type, named, url, path) ==
    [type |-> type, named |-> named, url |-> url, path |-> path]

Sources ==
    {Source(type, named, url, path) :
        type \in {"url", "file", "inline", "ftp"}, named, url, path \in BOOLEAN}

FilesMC ==
    Pair(Zero, "listen", {"", "loopback", "public", "malformed"}, "handshake", {-1, 0, 1})
    \cup Pair(Zero, "adminListen", {"", "loopback", "public", "malformed"}, "token", {"", "t"})
    \cup UNION {Pair([Zero EXCEPT !.auth = a], "username",
                     {<<>>, <<"aio">>, <<"my", "-", "aio">>, <<"a", "~", "b">>},
                     "password", {"", "p"}) : a \in {"absent", "enabled", "disabled"}}
    \cup Pair(Zero, "policy", {"", "random", "round_robin", "fastest"},
              "percent", {-1, 0, 1, 100, 101})
    \cup Pair(Zero, "defaultTTL", {-1, 0, 60, 1800, 90000}, "maxTTL", {-1, 0, 60, 900, 86400})
    \cup Pair(Zero, "strategy", {"", "http_status", "ip_api_country", "ping"}, "url", {"", "u"})
    \cup Pair(Plugins, "concurrency", {-1, 0, 1, 1000, 1001},
              "singboxConcurrency", {-1, 0, 1, 2000})
    \cup Pair(Zero, "maxFailures", {-1, 0, 1}, "retries", {-1, 0, 1})
    \cup Pair(Zero, "timeout", {-1, 0, 1}, "window", {-1, 0, 1})
    \cup Pair(Zero, "retention", {-1, 0, 1}, "grace", {-1, 0, 1})
    \cup Pair(Plugins, "jitter", {-1, 0, 10, 11}, "fplInterval", {-1, 0, 1})
    \cup UNION {Pair([Zero EXCEPT !.fofa = f], "fofaKey", {"", "k"},
                     "fofaSize", {-1, 0, 10000, 10001}) : f \in BOOLEAN}
    \cup {[Zero EXCEPT !.singbox = b, !.sources = s] : b \in BOOLEAN,
            s \in {<<>>} \cup {<<x>> : x \in Sources}
                  \cup {<<Source("inline", TRUE, TRUE, FALSE), x>> : x \in Sources}}

DurationMC == [w \in {"0", "5m", "48h"} |->
                  CASE w = "0" -> 0 [] w = "5m" -> 300 [] w = "48h" -> 172800]

LowerMC == [w \in {"job", "fast", "5m", "FPL", "us", "true"} |->
              CASE w = "FPL" -> "fpl" [] w = "US" -> "us" [] OTHER -> w]
UpperMC == [w \in {"job", "fast", "5m", "FPL", "us", "true"} |->
              CASE w = "us" -> "US" [] OTHER -> w]
=============================================================================
