------------------------------- MODULE Config -------------------------------
(***************************************************************************)
(* The configuration (internal/config/config.go): the defaults that        *)
(* ApplyDefaults fills in, the conditions of Check, and the plugins that    *)
(* internal/app/app.go starts from it.                                     *)
(*                                                                         *)
(* A configuration is a record with one field per setting.  A text keeps    *)
(* what the checks tell apart; lists keep how many entries they have;      *)
(* durations are in seconds; the jitter ratio is in tenths.  Settings of    *)
(* the log, and those of plugins that nothing checks, are left out.        *)
(***************************************************************************)
EXTENDS Integers, Sequences
LOCAL INSTANCE SequencesExt

\* The zero value of every setting: what yaml.Unmarshal leaves when the file
\* does not mention it.  auth is the section: absent, or enabled or not.
Zero == [
    listen |-> "", handshake |-> 0, adminListen |-> "", token |-> "",
    auth |-> "absent", username |-> <<>>, password |-> "",
    policy |-> "", percent |-> 0, defaultTTL |-> 0, maxTTL |-> 0,
    strategy |-> "", url |-> "", statuses |-> 0, timeout |-> 0, concurrency |-> 0,
    maxFailures |-> 0, retries |-> 0, window |-> 0, retention |-> 0, grace |-> 0,
    jitter |-> 0,
    fpl |-> FALSE, fplInterval |-> 0,
    fofa |-> FALSE, fofaKey |-> "", fofaSize |-> 0, fofaQueries |-> 0,
    fofaInterval |-> 0,
    singbox |-> FALSE, singboxConcurrency |-> 0, singboxInterval |-> 0,
    sources |-> <<>>]

Setting == DOMAIN Zero

\* What yaml.Unmarshal refuses another kind of value for.
Number == {"handshake", "percent", "defaultTTL", "maxTTL", "statuses", "timeout",
           "concurrency", "maxFailures", "retries", "window", "retention", "grace",
           "jitter", "fplInterval", "fofaSize", "fofaQueries", "fofaInterval",
           "singboxConcurrency", "singboxInterval"}
Flag   == {"fpl", "fofa", "singbox"}

IsConfiguration(c) ==
    /\ c = [s \in Setting |-> c[s]]
    /\ \A s \in Number : c[s] \in Int
    /\ \A s \in Flag : c[s] \in BOOLEAN
    /\ c.username \in Seq(ToSet(c.username))
    /\ c.sources \in Seq([type : STRING, named : BOOLEAN, url : BOOLEAN, path : BOOLEAN])

\* Where a listener is: only a loopback address is "loopback", and "malformed"
\* is an address net.SplitHostPort or the port check rejects.
Default == [Zero EXCEPT
    !.listen = "loopback", !.handshake = 5, !.adminListen = "loopback",
    !.auth = "enabled", !.username = <<"aio">>, !.password = "change-me",
    !.policy = "random", !.percent = 5, !.defaultTTL = 1800, !.maxTTL = 86400,
    !.strategy = "http_status", !.statuses = 4, !.timeout = 8, !.concurrency = 100,
    !.maxFailures = 3, !.retries = 3, !.window = 3, !.retention = 7, !.grace = 15,
    !.jitter = 1,
    !.fplInterval = 21600, !.fofaSize = 100, !.fofaQueries = 2,
    !.fofaInterval = 21600, !.singboxConcurrency = 10, !.singboxInterval = 3600]

\* The settings of a plugin, which get defaults only if its section is there.
Section(setting) ==
    CASE setting = "fplInterval" -> "fpl"
      [] setting \in {"fofaSize", "fofaQueries", "fofaInterval"} -> "fofa"
      [] setting \in {"singboxConcurrency", "singboxInterval"} -> "singbox"
      [] OTHER -> "any"

DefaultURL(strategy) ==
    IF strategy = "ip_api_country" THEN "ip-api" ELSE "generate_204"

\* The strategy is defaulted before the URL that depends on it.
ApplyDefaults(c) ==
    [s \in Setting |->
        IF s = "url" /\ c[s] = "" THEN DefaultURL(c.strategy)
        ELSE IF c[s] = Zero[s] /\ (Section(s) = "any" \/ c[Section(s)]) THEN Default[s]
        ELSE c[s]]

-----------------------------------------------------------------------------
(* Check, after it has applied the defaults again.  Warnings are left out.  *)

ValidListen(address) == address # "malformed"

ServerOK(c) ==
    /\ ValidListen(c.listen) /\ c.handshake > 0
    /\ ValidListen(c.adminListen)
    /\ c.adminListen # "loopback" => c.token # ""
    /\ c.auth = "enabled" =>
          c.username # <<>> /\ c.password # "" /\ ~Contains(c.username, "-")

SchedulerOK(c) ==
    /\ c.policy \in {"random", "round_robin"}
    /\ c.percent \in 1 .. 100
    /\ c.defaultTTL > 0 /\ c.maxTTL > 0

\* Mutation of FailureOK: only a negative threshold is refused.
FailureOKFromZero(c) ==
    /\ c.timeout > 0 /\ c.strategy \in {"http_status", "ip_api_country"}
    /\ c.concurrency \in 1 .. 1000
    /\ c.maxFailures >= -1 /\ c.retries >= 0 /\ c.window > 0
    /\ c.jitter \in 0 .. 10

FailureOK(c) ==
    /\ c.timeout > 0 /\ c.strategy \in {"http_status", "ip_api_country"}
    /\ c.concurrency \in 1 .. 1000
    /\ c.maxFailures > 0 /\ c.retries >= 0 /\ c.window > 0
    /\ c.jitter \in 0 .. 10

\* A source has a name, and what its type needs.
SourceOK(s) ==
    /\ s.named
    /\ s.type \in {"url", "file", "inline"}
    /\ s.type = "url" => s.url
    /\ s.type = "file" => s.path

PluginsOK(c) ==
    /\ c.fofa => c.fofaSize \in 1 .. 10000
    /\ c.singbox => /\ c.singboxConcurrency > 0
                    /\ \A i \in DOMAIN c.sources : SourceOK(c.sources[i])

CheckOK(c) == ServerOK(c) /\ SchedulerOK(c) /\ FailureOK(c) /\ PluginsOK(c)

ActivePlugins(c) ==
    {p \in {"fpl", "fofa", "singbox"} :
        CASE p = "fpl"     -> c.fpl
          [] p = "fofa"    -> c.fofa /\ c.fofaKey # ""
          [] p = "singbox" -> c.singbox /\ c.sources # <<>>}

-----------------------------------------------------------------------------
(* What the service makes of it.                                            *)

\* newPluginManager
Started(c) ==
    (IF c.fpl THEN {"fpl"} ELSE {})
    \cup (IF c.fofa /\ c.fofaKey # "" THEN {"fofa"} ELSE {})
    \cup (IF c.singbox /\ Len(c.sources) > 0 THEN {"singbox"} ELSE {})

\* The concurrency validatorForPlugin gives to the validator of a plugin.
Concurrency(c, p) ==
    IF p = "singbox" /\ c.singbox /\ c.singboxConcurrency > 0
       /\ (c.concurrency <= 0 \/ c.singboxConcurrency < c.concurrency)
      THEN c.singboxConcurrency ELSE c.concurrency

Interval(c, p) ==
    LET set == CASE p = "fpl" -> c.fplInterval
                 [] p = "fofa" -> c.fofaInterval
                 [] p = "singbox" -> c.singboxInterval
    IN  IF set <= 0 THEN 3600 ELSE set

\* The delays, in tenths of a second, that loop may draw with its jitter.
Delays(c, p) ==
    LET spread == c.jitter * Interval(c, p)
    IN  {10 * Interval(c, p) + d : d \in {-spread, 0, spread}}
=============================================================================
