------------------------------ MODULE Service ------------------------------
(***************************************************************************)
(* The life of the service (internal/app/app.go): the refresh loop of each *)
(* plugin, the shutdown sequence of runServe, and pool.json in the data     *)
(* directory (internal/storage/storage.go), across graceful exits and      *)
(* crashes.  Plugins share the pool; a refresh is a sequence of steps that  *)
(* other plugins, the proxy and the shutdown interleave with.              *)
(*                                                                         *)
(* What a plugin reads and what passes validation is chosen freely, except *)
(* for the offers in Steady.  Snapshots and plugin statuses are left out.  *)
(***************************************************************************)
EXTENDS Pool

CONSTANTS
    SourcesOf,     \* plugin -> labels of its sources; each gets a report
    LocalSource,   \* those read from a file or from the configuration
    Steady,        \* offers present whenever their source can be read, and
                   \* valid whenever a validation is carried out
    MayShutDown,   \* whether the shutdown signal can arrive
    MayCrash       \* whether the process can be killed

Main   == "main"   \* the goroutine of runServe
Writer == Plugin \cup {Main}

ASSUME ServiceAssumption ==
    /\ Main \notin Plugin
    /\ SourcesOf \in [Plugin -> (SUBSET Label) \ {{}}]
    /\ \A o \in Offers : o.label \in SourcesOf[o.source]
    /\ LocalSource \subseteq Label
    /\ Steady \subseteq Offers
    /\ MayShutDown \in BOOLEAN /\ MayCrash \in BOOLEAN

VARIABLES
    stage,    \* plugin -> where its loop is; Main -> where runServe is
    found,    \* plugin -> offers of the refresh under way
    errs,     \* plugin -> sources of that refresh whose report has an error
    todo,     \* plugin -> sources whose report is still to be applied
    copy,     \* writer -> what List returned, about to be saved
    disk      \* the contents of pool.json

refreshVars == <<found, errs, todo>>
vars == <<poolVars, stage, refreshVars, copy, disk>>

Saved(its, ord) == [items |-> its, order |-> ord]
NothingSaved == Saved([fp \in {} |-> NoCandidate], <<>>)

Alive == stage[Main] \notin {"down", "unsaved"}

\* The context of the plugins is cancelled with that of runServe.
Cancelled == stage[Main] # "serving"

Goto(w, there) == stage' = [stage EXCEPT ![w] = there]

-----------------------------------------------------------------------------
(* The loop of a plugin. *)

\* Plugin fpl keeps what it has read of a list that breaks off.
PartialList(p) == p \in LenientPlugin

\* The results Plugin.Refresh may return: a source that cannot be read yields a
\* report with an error and contributes nothing.
Returned(p, failed, offers) ==
    /\ \A o \in offers : o.label \in failed => PartialList(p)
    /\ \A o \in Steady \cap Findings(p) : o.label \in failed \/ o \in offers

\* Once the context is cancelled, nothing is read over the network any more: a
\* source read just before the signal is one that this step read before it.
Fetch(p) ==
    /\ stage[p] = "fetch"
    /\ \E failed \in SUBSET SourcesOf[p], offers \in SUBSET Findings(p) :
         /\ Cancelled => SourcesOf[p] \ LocalSource \subseteq failed
         /\ Returned(p, failed, offers)
         /\ found' = [found EXCEPT ![p] = offers]
         /\ errs' = [errs EXCEPT ![p] = failed]
    /\ Goto(p, "validate")
    /\ UNCHANGED <<poolVars, todo, copy, disk>>

\* Validate returns.  When cancelled it drops what is not finished.
Validate(p) ==
    /\ stage[p] = "validate"
    /\ \E valid \in SUBSET found[p] :
         /\ ~Cancelled => Steady \cap found[p] \subseteq valid
         /\ found' = [found EXCEPT ![p] = valid]
    /\ todo' = [todo EXCEPT ![p] = SourcesOf[p]]
    /\ Goto(p, "apply")
    /\ UNCHANGED <<poolVars, errs, copy, disk>>

\* One report is merged into the pool.  The order of the sources is left open.
Apply(p) ==
    /\ stage[p] = "apply"
    /\ \E label \in todo[p] :
         /\ ApplyReport(found[p], p, label, label \in errs[p])
         /\ todo' = [todo EXCEPT ![p] = @ \ {label}]
    /\ Goto(p, IF todo'[p] = {} THEN "list" ELSE "apply")
    /\ UNCHANGED <<found, errs, copy, disk>>

\* pool.List() is evaluated before SavePool takes the lock of the store.
List(w) ==
    /\ stage[w] = "list"
    /\ copy' = [copy EXCEPT ![w] = Saved(items, order)]
    /\ Goto(w, "save")
    /\ UNCHANGED <<poolVars, refreshVars, disk>>

\* Mutation of Save: a failed write leaves part of the file.
SaveInPlace(w, done, failed) ==
    /\ stage[w] = "save"
    /\ \/ disk' = copy[w] /\ Goto(w, done)
       \/ disk' = Saved(copy[w].items, <<>>) /\ Goto(w, failed)
    /\ copy' = [copy EXCEPT ![w] = NothingSaved]
    /\ UNCHANGED poolVars

\* SavePool: pool.json is replaced at once, or kept if anything fails.
Save(w, done, failed) ==
    /\ stage[w] = "save"
    /\ \/ disk' = copy[w] /\ Goto(w, done)
       \/ disk' = disk /\ Goto(w, failed)
    /\ copy' = [copy EXCEPT ![w] = NothingSaved]
    /\ UNCHANGED poolVars

EndRefresh(p) ==
    /\ Save(p, "wait", "wait")
    /\ found' = [found EXCEPT ![p] = {}]
    /\ errs' = [errs EXCEPT ![p] = {}]
    /\ UNCHANGED todo

\* The select of loop, which takes either case if both are ready.
TimerFires(p) ==
    /\ stage[p] = "wait"
    /\ Goto(p, "fetch")
    /\ UNCHANGED <<poolVars, refreshVars, copy, disk>>

\* Mutation of Quit: the loop does not end with the context.
QuitNot(p) ==
    /\ stage[p] = "wait" /\ Cancelled
    /\ Goto(p, "fetch")
    /\ UNCHANGED <<poolVars, refreshVars, copy, disk>>

Quit(p) ==
    /\ stage[p] = "wait" /\ Cancelled
    /\ Goto(p, "stopped")
    /\ UNCHANGED <<poolVars, refreshVars, copy, disk>>

RefreshStep(p) ==
    Fetch(p) \/ Validate(p) \/ Apply(p) \/ List(p) \/ EndRefresh(p)

-----------------------------------------------------------------------------
(* runServe. *)

Signal ==
    /\ MayShutDown /\ stage[Main] = "serving"
    /\ Goto(Main, "stopping")
    /\ UNCHANGED <<poolVars, refreshVars, copy, disk>>

\* Mutation of Stop: the loops are not waited for.
StopAtOnce ==
    /\ stage[Main] = "stopping"
    /\ Goto(Main, "list")
    /\ UNCHANGED <<poolVars, refreshVars, copy, disk>>

\* pm.Stop waits for the loops; proxySrv.Wait gives up after a while, so that
\* connections may outlive it.
Stop ==
    /\ stage[Main] = "stopping"
    /\ \A p \in Plugin : stage[p] = "stopped"
    /\ Goto(Main, "list")
    /\ UNCHANGED <<poolVars, refreshVars, copy, disk>>

SaveAtExit == Save(Main, "down", "unsaved") /\ UNCHANGED refreshVars

MainStep == Stop \/ List(Main) \/ SaveAtExit

\* The process starts (again), after an exit or a crash.  pool.json may be
\* unreadable, or of another version and then renamed away.
Boot ==
    /\ Alive => MayCrash
    /\ \/ Load(disk.items, disk.order) /\ UNCHANGED disk
       \/ Load(NothingSaved.items, <<>>) /\ disk' \in {disk, NothingSaved}
    /\ evicted' = OutOfRotation(items')
    /\ stage' = [w \in Writer |-> IF w = Main THEN "serving" ELSE "fetch"]
    /\ found' = [p \in Plugin |-> {}]
    /\ errs' = [p \in Plugin |-> {}]
    /\ todo' = [p \in Plugin |-> {}]
    /\ copy' = [w \in Writer |-> NothingSaved]

\* The proxy charges or credits candidates.
Proxy == Outcome /\ UNCHANGED <<stage, refreshVars, copy, disk>>

ServiceInit ==
    /\ Init
    /\ disk = NothingSaved
    /\ stage = [w \in Writer |-> IF w = Main THEN "serving" ELSE "fetch"]
    /\ found = [p \in Plugin |-> {}]
    /\ errs = [p \in Plugin |-> {}]
    /\ todo = [p \in Plugin |-> {}]
    /\ copy = [w \in Writer |-> NothingSaved]

ServiceNext ==
    \/ Alive /\ \/ \E p \in Plugin : RefreshStep(p) \/ TimerFires(p) \/ Quit(p)
                \/ Signal \/ MainStep \/ Proxy
    \/ Boot

\* Fetching, validating and saving end, for they have deadlines; a loop whose
\* select finds the context cancelled again and again leaves in the end.
Fairness ==
    /\ \A p \in Plugin : WF_vars(Alive /\ RefreshStep(p)) /\ SF_vars(Alive /\ Quit(p))
    /\ WF_vars(Alive /\ MainStep)

ServiceSpec == ServiceInit /\ [][ServiceNext]_vars /\ Fairness

-----------------------------------------------------------------------------
(* Properties. *)

\* Type invariant of the refreshes and of pool.json.
ServiceTypeOK ==
    /\ TypeOK
    /\ \A p \in Plugin :
         /\ stage[p] \in {"fetch", "validate", "apply", "list", "save", "wait",
                          "stopped"}
         /\ found[p] \subseteq Findings(p)
         /\ errs[p] \subseteq SourcesOf[p] /\ todo[p] \subseteq SourcesOf[p]
    /\ stage[Main] \in {"serving", "stopping", "list", "save", "down", "unsaved"}
    /\ disk.items \in [DOMAIN disk.items -> Candidate]
    /\ disk.order \in Enumerations(DOMAIN disk.items)

\* No step but a start of the process loses a candidate that its source keeps
\* offering and that keeps passing validation.
KeepsSteady ==
    \A o \in Steady : o.fp \in DOMAIN items => o.fp \in DOMAIN items' \/ Boot

\* While the service runs, no refresh loses a steady candidate: not by an error of
\* its source or another one, not by the reports of other sources and plugins
\* (app.go 249-293, pool.go 93-104).
SteadyIsKept == [][KeepsSteady \/ Cancelled]_vars

\* Neither does the shutdown, whose purpose is to save the pool.
SteadyIsKeptThroughout == [][KeepsSteady]_vars

\* After a graceful exit that could write its file, pool.json holds exactly the
\* candidates of the pool in their order; a plugin that saved an older copy
\* late has been overtaken (app.go 150-159, 209-219, 288).
DownIsSaved ==
    stage[Main] = "down" =>
        disk.order = order /\ DOMAIN disk.items = DOMAIN items

\* A shutdown signal ends the process, although a loop may begin another
\* refresh after it (app.go 149-168, 230-247).
StopCompletes == stage[Main] = "stopping" ~> ~Alive \/ ~Cancelled
=============================================================================
