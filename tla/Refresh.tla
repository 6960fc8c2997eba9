------------------------------ MODULE Refresh ------------------------------
(***************************************************************************)
(* One plugin's refreshes in detail (internal/app/app.go): the import of    *)
(* its sources with the accounting of their reports, the validation by the *)
(* workers of module Validator, the snapshots of internal/storage, and the *)
(* plugin's status.  The merge into the pool is ApplyReport of module Pool; *)
(* how it interleaves with other plugins is module Service.                *)
(*                                                                         *)
(* What a source offers is a sequence of items: a candidate, an item that   *)
(* is refused, one that is passed over, or a line too long to be read.     *)
(***************************************************************************)
EXTENDS Validator, SequencesExt

CONSTANTS
    Feeds,          \* set of [plugin, sources]: a plugin and its sources' names
    Content,        \* what a source may offer: sequences of items
    Candidates,     \* the items that are candidates
    Retention,      \* storage.snapshot_retention
    MaxRefreshes    \* bound on the refreshes

ASSUME RefreshAssumption ==
    /\ \A f \in Feeds : /\ f.plugin \in {"fpl", "fofa", "singbox"}
                        /\ f.sources \in Seq(Seq(STRING))
                        /\ f.plugin = "fpl" => Len(f.sources) = 1
    /\ Content \subseteq Seq(Candidates \cup {"bad", "ignored", "toolong"})
    /\ Candidates \cap {"bad", "ignored", "toolong", "unreadable"} = {}
    /\ Retention \in Int /\ MaxRefreshes \in Nat

VARIABLES
    feed,        \* the plugin
    stage,       \* where its loop is
    reports,     \* updatedReports: of each source in turn
    current,     \* the report being applied
    status,      \* the plugin's status: degraded, and the last error
    files,       \* directory -> times of the snapshots in it
    written,     \* history: directory -> times of all snapshots written to it
    clock,       \* time of the last snapshot; it does not go back
    refreshes,   \* refreshes so far
    killed       \* history: how often the process was killed before a prune

refreshVars == <<feed, stage, reports, current, status, files, written, clock,
                 refreshes, killed>>
vars == <<validatorVars, refreshVars>>

-----------------------------------------------------------------------------
(* Import.                                                                  *)

Unreadable == <<"unreadable">>   \* instead of a content

\* fpl reads up to a line that is too long, the others all or nothing; search
\* results have no comments.
Offered(plugin) ==
    {c \in Content : /\ plugin # "fpl" => "toolong" \notin ToSet(c)
                     /\ plugin = "fofa" => "ignored" \notin ToSet(c)}

\* The positions of the items that are read: those before such a line.
Read(content) == {i \in DOMAIN content : \A j \in 1 .. i : content[j] # "toolong"}

\* Mutation of Items: an item that is passed over is counted.
ItemsAll(content) == {i \in Read(content) : content[i] # "unreadable"}

\* The items that count, and those that are imported.
Items(content) == {i \in Read(content) : content[i] \notin {"ignored", "unreadable"}}

Good(content) == {i \in Items(content) : content[i] \in Candidates}

\* A report, before validation.
Report(plugin, source, content) ==
    [source |-> source, total |-> Cardinality(Items(content)),
     skipped |-> Cardinality({i \in Items(content) : content[i] = "bad"}),
     imported |-> Cardinality(Good(content)), validated |-> 0,
     error |-> \/ content = Unreadable
               \/ plugin = "singbox" /\ Good(content) = {}
               \/ plugin = "fpl" /\ "toolong" \in ToSet(content)]

\* What all sources offer, one after the other: of each candidate its source and
\* its position there.
Found(contents) == UNION {{s} \X Good(contents[s]) : s \in DOMAIN contents}

Before(p, q) == p[1] < q[1] \/ (p[1] = q[1] /\ p[2] < q[2])

Listings(found) ==
    {f \in [1 .. Cardinality(found) -> found] : \A j, k \in DOMAIN f : j < k => Before(f[j], f[k])}

\* The candidates, each with the name of its source.
Imported(contents, listing) ==
    [k \in DOMAIN listing |-> [item |-> contents[listing[k][1]][listing[k][2]],
                               source |-> feed.sources[listing[k][1]]]]

Fetch ==
    /\ stage = "wait" /\ refreshes < MaxRefreshes
    /\ refreshes' = refreshes + 1
    /\ \E contents \in [DOMAIN feed.sources -> Offered(feed.plugin) \cup {Unreadable}] :
         /\ reports' = [s \in DOMAIN feed.sources |->
                            Report(feed.plugin, feed.sources[s], contents[s])]
         /\ \E listing \in Listings(Found(contents)) : \E ok \in SUBSET DOMAIN listing :
               Start(Imported(contents, listing), ok)
    /\ stage' = "validate"
    /\ UNCHANGED <<feed, current, status, files, written, clock, killed>>

-----------------------------------------------------------------------------
(* Reports and snapshots.                                                   *)

\* strings.TrimSpace, and the separators and spaces replaced; a name starts with
\* that of the plugin, so only its end may be blank.
Trimmed(name) ==
    LET ends == {n \in 0 .. Len(name) : \A i \in n + 1 .. Len(name) : name[i] = " "}
    IN  SubSeq(name, 1, CHOOSE n \in ends : \A m \in ends : n <= m)

\* Mutation of SafeName: separators are left in.
SafeNameTrimmed(name) == Trimmed(name)

SafeName(name) ==
    LET kept == Trimmed(name) IN
    [i \in DOMAIN kept |-> IF kept[i] \in {"/", "\\", ":", " "} THEN "_" ELSE kept[i]]

Directory(source) == SafeName(<<feed.plugin, "-">> \o source)

\* filterCandidatesForReport: the source's own, or all if it has none.
Filtered(source) ==
    LET own == {k \in DOMAIN out : batch[out[k]].source = source}
    IN  IF own # {} THEN own ELSE DOMAIN out

Validated ==
    /\ stage = "validate" /\ main = "returned"
    /\ stage' = "apply" /\ current' = 1
    /\ UNCHANGED <<validatorVars, feed, reports, status, files, written, clock, refreshes,
                   killed>>

\* The count of a report, and its snapshot: written to a file of its own and
\* renamed, or not at all.
ApplyOne ==
    /\ stage = "apply" /\ current <= Len(reports)
    /\ LET dir == Directory(reports[current].source)
           old == IF dir \in DOMAIN files THEN files[dir] ELSE {}
           all == IF dir \in DOMAIN written THEN written[dir] ELSE {}
           with(f, set) == [d \in DOMAIN f \cup {dir} |-> IF d = dir THEN set ELSE f[d]]
       IN  /\ reports' = [reports EXCEPT ![current].validated =
                              Cardinality(Filtered(reports[current].source))]
           /\ \/ /\ clock' = clock + 1
                 /\ files' = with(files, old \cup {clock'})
                 /\ written' = with(written, all \cup {clock'})
                 /\ stage' = "prune"
                 /\ UNCHANGED current
              \/ /\ current' = current + 1
                 /\ UNCHANGED <<stage, files, written, clock>>
    /\ UNCHANGED <<validatorVars, feed, status, refreshes, killed>>

\* storage.New
Keep == IF Retention <= 0 THEN 7 ELSE Retention

\* The newest n of a set of times.
Newest(n, times) == {t \in times : Cardinality({u \in times : u > t}) < n}

\* Mutation of Prune: one too many is removed.
PruneMore ==
    /\ stage = "prune"
    /\ LET dir == Directory(reports[current].source)
       IN  files' = [files EXCEPT ![dir] = IF Cardinality(@) >= Keep THEN Newest(Keep - 1, @)
                                           ELSE @]
    /\ stage' = "apply" /\ current' = current + 1
    /\ UNCHANGED <<validatorVars, feed, reports, status, written, clock, refreshes,
                   killed>>

\* The names are times, so that sorting them puts the oldest first.  Whatever is
\* left over from before is removed as well.
Prune ==
    /\ stage = "prune"
    /\ LET dir == Directory(reports[current].source)
       IN  files' = [files EXCEPT ![dir] = Newest(Keep, @)]
    /\ stage' = "apply" /\ current' = current + 1
    /\ UNCHANGED <<validatorVars, feed, reports, status, written, clock, refreshes,
                   killed>>

\* The pool is saved and the status stored; the rest were locals of refresh.
Finish ==
    /\ stage = "apply" /\ current > Len(reports)
    /\ LET failed == {i \in DOMAIN reports : reports[i].error}
           zero   == batch # <<>> /\ out = <<>>
       IN  status' = [degraded |-> batch = <<>> \/ failed # {} \/ zero,
                      error |-> CASE zero -> "zero"
                                  [] ~zero /\ failed # {} -> "source"
                                  [] OTHER -> "none"]
    /\ stage' = "wait" /\ reports' = <<>> /\ current' = 0
    /\ batch' = <<>> /\ passing' = {} /\ worker' = <<>> /\ out' = <<>> /\ next' = 1
    /\ UNCHANGED <<main, cancelled, feed, files, written, clock, refreshes,
                   killed>>

-----------------------------------------------------------------------------
(* The loop.                                                                *)

Cancel ==
    /\ ~cancelled /\ cancelled' = TRUE
    /\ UNCHANGED <<main, batch, passing, next, worker, out, refreshVars>>

Quit ==
    /\ stage = "wait" /\ cancelled
    /\ stage' = "stopped"
    /\ UNCHANGED <<validatorVars, feed, reports, current, status, files, written, clock,
                   refreshes, killed>>

NotRefreshed == [degraded |-> TRUE, error |-> "not refreshed yet"]

\* The process is started again, after it ended or was killed in whatever step.
Restart ==
    /\ main' = "returned" /\ batch' = <<>> /\ passing' = {} /\ cancelled' = FALSE
    /\ next' = 1 /\ worker' = <<>> /\ out' = <<>>
    /\ stage' = "wait" /\ reports' = <<>> /\ current' = 0 /\ status' = NotRefreshed
    /\ killed' = killed + (IF stage = "prune" THEN 1 ELSE 0)
    /\ UNCHANGED <<feed, files, written, clock, refreshes>>

RefreshInit ==
    /\ main = "returned" /\ batch = <<>> /\ passing = {} /\ cancelled = FALSE
    /\ next = 1 /\ worker = <<>> /\ out = <<>>
    /\ stage = "wait" /\ reports = <<>> /\ current = 0 /\ status = NotRefreshed
    /\ feed \in Feeds
    /\ files = [d \in {} |-> {}] /\ written = [d \in {} |-> {}]
    /\ clock = 0 /\ refreshes = 0 /\ killed = 0

RefreshNext ==
    \/ Fetch \/ Validated \/ ApplyOne \/ Prune \/ Finish
    \/ ValidatorStep /\ UNCHANGED refreshVars
    \/ Cancel \/ Quit \/ Restart

\* Goroutines run, and a check ends with its timeout.
RefreshSpec ==
    RefreshInit /\ [][RefreshNext]_vars /\ WF_vars(ValidatorStep /\ UNCHANGED refreshVars)

-----------------------------------------------------------------------------
(* Properties. *)

\* Type invariant of a refresh; a snapshot directory is one level below
\* "snapshots", whatever its source is called (storage.go 174-180).
RefreshTypeOK ==
    /\ main \in {"sending", "waiting", "returned"}
    /\ stage \in {"wait", "validate", "apply", "prune", "stopped"}
    /\ \A i \in DOMAIN batch : batch[i].item \in Candidates
    /\ passing \subseteq DOMAIN batch /\ ToSet(out) \subseteq DOMAIN batch
    /\ next \in 1 .. Len(batch) + 1
    /\ \A w \in DOMAIN worker : worker[w] \in {Idle, Gone} \cup DOMAIN batch
    /\ current \in 0 .. Len(reports) + 1
    /\ status.degraded \in BOOLEAN
    /\ DOMAIN files = DOMAIN written
    /\ \A d \in DOMAIN files :
         /\ files[d] \subseteq written[d] /\ written[d] \subseteq 1 .. clock
         /\ \A i \in DOMAIN d : d[i] \notin {"/", "\\", ":", " "}

OnlyOne(i) == \A j \in DOMAIN reports : reports[j].source = reports[i].source => j = i

\* The numbers the admin API shows add up: each item a source was seen to offer
\* was either imported or skipped, what is imported is what is validated, and a
\* report counts the candidates of its source that passed, all of them if the
\* validation was not cancelled.  A source without any is given the plugin's.
\* Sources of one name, which config.Check lets pass, are not told apart
\* (singbox.go 98-126, 173-199, 404-480; fofa.go 40-127; fpl.go 32-107;
\* app.go 268-275, 317-333).
ReportsAddUp ==
    /\ \A i \in DOMAIN reports : reports[i].total = reports[i].imported + reports[i].skipped
    /\ stage \in {"validate", "apply", "prune"} =>
         /\ \A i \in {j \in DOMAIN reports : OnlyOne(j)} :
              LET own == {k \in DOMAIN batch : batch[k].source = reports[i].source} IN
              /\ reports[i].imported = Cardinality(own)
              /\ i < current =>
                   \/ reports[i].validated \in 1 .. reports[i].imported
                      /\ (~cancelled /\ ~SkipValidation
                            => reports[i].validated = Cardinality(own \cap passing))
                   \/ reports[i].validated = Len(out)
                      /\ own \cap ToSet(out) = {}

\* Of the snapshots in a directory the most recent ones are there, as many as are
\* to be kept, and no older one, but for the one being replaced or left over by a
\* killed process: across refreshes, restarts and writes that fail.  Sources that
\* share a directory share what is kept there (storage.go 75-97, 112-130).
RecentSnapshotsKept ==
    \A d \in DOMAIN files :
        Newest(Keep, written[d]) \subseteq files[d]
          /\ files[d] \subseteq Newest(Keep + 1 + killed, written[d])
=============================================================================
