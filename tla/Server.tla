------------------------------- MODULE Server -------------------------------
(***************************************************************************)
(* The proxy server from its start: the configuration file is read and     *)
(* checked (runServe and runCheck of internal/app/app.go), then the        *)
(* listener of module Listener serves.                                     *)
(***************************************************************************)
EXTENDS Listener, Config, Usernames
LOCAL INSTANCE SequencesExt

CONSTANTS Files   \* the configuration files, as yaml.Unmarshal decodes them
ASSUME FilesAssumption == \A c \in Files : IsConfiguration(c)

VARIABLES
    phase,   \* where runServe is before the service runs
    cfg      \* the configuration, as far as it has been read

startVars  == <<phase, cfg>>
serverVars == <<startVars, vars>>

Step(from, to) == phase = from /\ phase' = to

\* A file that cannot be read or decoded ends the start as a failed check does.
Load ==
    /\ \/ Step("file", "loaded") /\ cfg' = ApplyDefaults(cfg)
       \/ Step("file", "refused") /\ UNCHANGED cfg
    /\ UNCHANGED vars

Check ==
    /\ cfg' = ApplyDefaults(cfg)
    /\ Step("loaded", IF CheckOK(cfg') THEN "checked" ELSE "refused")
    /\ UNCHANGED vars

\* The admin server and the listener start, or one of their ports is taken.  What
\* the settings are is from here on a matter of the constants of each module.
StartServer ==
    /\ \/ Step("checked", "serving") /\ AuthEnabled = (cfg.auth = "enabled")
       \/ Step("checked", "refused")
    /\ cfg' = Zero
    /\ UNCHANGED vars

ServerInit ==
    /\ Init
    /\ phase = "file"
    /\ cfg \in Files

ServerNext ==
    \/ Load \/ Check \/ StartServer
    \/ phase = "serving" /\ Next /\ UNCHANGED startVars
    \/ phase = "refused" /\ UNCHANGED serverVars

ServerSpec == ServerInit /\ [][ServerNext]_serverVars /\ Fairness

-----------------------------------------------------------------------------
(* Properties. *)

\* Type invariant of the server.
ServerTypeOK ==
    /\ ListenerTypeOK
    /\ phase \in {"file", "loaded", "checked", "refused", "serving"}
    /\ IsConfiguration(cfg)

\* A configuration that passes the check satisfies what the rest of the service
\* relies on: a second ApplyDefaults changes nothing, the plugins announced are
\* the ones started, a validator has at least one worker and no more than the
\* user asked for, no refresh is due before it was scheduled, and thresholds,
\* lifetimes and time-outs are positive (config.go 258-375, 392-498; app.go
\* 183-193, 233-237, 295-304).
CheckedConfigIsSound ==
    phase = "checked" =>
        /\ ApplyDefaults(cfg) = cfg
        /\ ActivePlugins(cfg) = Started(cfg)
        /\ \A p \in Started(cfg) :
              /\ Concurrency(cfg, p) \in 1 .. cfg.concurrency
              /\ \A d \in Delays(cfg, p) : d >= 0
        /\ \A s \in {"handshake", "defaultTTL", "maxTTL", "timeout", "window",
                     "maxFailures", "percent"} : cfg[s] > 0

\* With a credential that passes the check and is asked for, every documented way
\* to ask for a session, a lifetime, a route or the fast pool is understood as
\* that, in whatever order and case it is written (session.go 37-134).
NamesParseAsDocumented ==
    phase = "checked" /\ cfg.auth = "enabled" /\ ~Contains(cfg.username, "~") =>
        FormsAreUnderstood(cfg.username, cfg.defaultTTL, cfg.maxTTL)
=============================================================================
