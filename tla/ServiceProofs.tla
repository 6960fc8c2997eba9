--------------------------- MODULE ServiceProofs ---------------------------
(***************************************************************************)
(* Proofs about module Service, for any plugins, sources and offers, with   *)
(* or without crashes: what a process saves at its exit is its pool.        *)
(***************************************************************************)
EXTENDS Service, PoolProofs

PluginStages == {"fetch", "validate", "apply", "list", "save", "wait", "stopped"}
MainStages == {"serving", "stopping", "list", "save", "down", "unsaved"}

\* What a pool may be saved as and loaded from.
IsPool(its, ord) ==
    /\ DOMAIN its \subseteq Fingerprint
    /\ its \in [DOMAIN its -> Candidate]
    /\ ord \in Enumerations(DOMAIN its)
    /\ \A fp \in DOMAIN its :
         its[fp].status = "available" => its[fp].failures < MaxFailures

LoopsOK ==
    /\ DOMAIN stage = Writer /\ stage \in [Writer -> PluginStages \cup MainStages]
    /\ \A p \in Plugin : stage[p] \in PluginStages
    /\ stage[Main] \in MainStages
    /\ found \in [Plugin -> SUBSET Offers]
    /\ errs \in [Plugin -> SUBSET Label] /\ todo \in [Plugin -> SUBSET Label]
    /\ \A p \in Plugin : /\ found[p] \subseteq Findings(p)
                         /\ errs[p] \subseteq SourcesOf[p]
                         /\ todo[p] \subseteq SourcesOf[p]

FilesOK ==
    /\ copy = [w \in Writer |-> copy[w]]
    /\ \A w \in Writer : IsPool(copy[w].items, copy[w].order)
    /\ IsPool(disk.items, disk.order)

\* When runServe saves, the loops have ended, and nothing but outcomes reaches
\* the pool any more.
ExitOK ==
    /\ stage[Main] \in {"list", "save", "down", "unsaved"} =>
         \A p \in Plugin : stage[p] = "stopped"
    /\ stage[Main] = "save" =>
         copy[Main].order = order /\ DOMAIN copy[Main].items = DOMAIN items
    /\ DownIsSaved

\* The inductive invariant.
ServiceInv == PoolInv /\ LoopsOK /\ FilesOK /\ ExitOK

-----------------------------------------------------------------------------
(* Saving and loading. *)

LEMMA EmptyIsPool == IsPool(NothingSaved.items, NothingSaved.order)
<1>1. <<>> \in Enumerations({})
  BY FS_EmptySet DEF Enumerations
<1>2. DOMAIN NothingSaved.items = {} /\ NothingSaved.order = <<>>
  BY DEF NothingSaved, Saved
<1>3. NothingSaved.items \in [DOMAIN NothingSaved.items -> Candidate]
  BY DEF NothingSaved, Saved
<1> QED
  BY <1>1, <1>2, <1>3 DEF IsPool

\* What List returns can be loaded again (pool.go 138-148).
LEMMA ListIsPool ==
    ASSUME PoolInv
    PROVE  IsPool(items, order)
BY DEF PoolInv, TypeOK, OrderEnumeratesItems, AvailableBelowThreshold, IsAvailable, IsPool

\* Whatever was saved, the pool loaded from it is in order: sing-box candidates
\* are out of rotation, for their dialers are gone (storage.go 37-63).
LEMMA LoadIsPool ==
    ASSUME NEW its, NEW ord, IsPool(its, ord), Load(its, ord),
           evicted' = OutOfRotation(items')
    PROVE  PoolInv'
<1>1. /\ items' = [fp \in DOMAIN its |-> Loaded(fp, its[fp])]
      /\ order' = ord /\ rr' = 0 /\ dialers' = {}
  BY DEF Load
<1>2. ASSUME NEW fp \in DOMAIN its
      PROVE  /\ Loaded(fp, its[fp]) \in Candidate
             /\ Loaded(fp, its[fp]).status = "available" =>
                  fp \notin BoxFingerprint /\ Loaded(fp, its[fp]) = its[fp]
  BY DEF IsPool, Loaded, Candidate, Statuses
<1>3. /\ DOMAIN items' = DOMAIN its
      /\ items' \in [DOMAIN items' -> Candidate]
      /\ \A fp \in DOMAIN its : items'[fp].status = "available" =>
           items'[fp].failures < MaxFailures /\ fp \notin BoxFingerprint
  BY <1>1, <1>2 DEF IsPool
<1>4. order' \in Seq(Fingerprint)
  <2>1. IsFiniteSet(DOMAIN its)
    BY FingerprintAssumption, FS_Subset DEF IsPool
  <2>2. ord \in Seq(DOMAIN its)
    BY <2>1, EnumerationIsSeq DEF IsPool
  <2> QED
    BY <1>1, <2>2 DEF IsPool
<1>5. TypeOK'
  <2>1. DOMAIN items' \subseteq Fingerprint /\ evicted' \subseteq DOMAIN items'
    BY <1>3 DEF IsPool, OutOfRotation
  <2> QED
    BY <1>1, <1>3, <1>4, <2>1, BoundsAssumption DEF TypeOK
<1>6. OrderEnumeratesItems'
  BY <1>1, <1>3 DEF OrderEnumeratesItems, IsPool
<1>7. AvailableBelowThreshold' /\ AvailableBoxHasDialer' /\ DialersHaveItems'
  BY <1>1, <1>3 DEF AvailableBelowThreshold, AvailableBoxHasDialer, DialersHaveItems,
                    IsAvailable
<1>8. EvictedUntilValidated'
  BY DEF EvictedUntilValidated, OutOfRotation, IsAvailable
<1> QED
  BY <1>5, <1>6, <1>7, <1>8 DEF PoolInv

-----------------------------------------------------------------------------
(* The loop of a plugin. *)

LEMMA SamePoolInv ==
    ASSUME PoolInv, UNCHANGED poolVars
    PROVE  PoolInv'
BY DEF PoolInv, poolVars, TypeOK, OrderEnumeratesItems, IsAvailable,
       AvailableBelowThreshold, AvailableBoxHasDialer, DialersHaveItems,
       EvictedUntilValidated

LEMMA GotoStage ==
    ASSUME LoopsOK, NEW w \in Writer, NEW label \in PluginStages \cup MainStages,
           Goto(w, label)
    PROVE  /\ DOMAIN stage' = Writer /\ stage' \in [Writer -> PluginStages \cup MainStages]
           /\ stage'[w] = label
           /\ \A v \in Writer \ {w} : stage'[v] = stage[v]
BY DEF LoopsOK, Goto

\* While a loop runs, the process is not at its exit.
LEMMA LoopExit ==
    ASSUME ServiceInv, NEW p \in Plugin, stage[p] # "stopped",
           NEW label \in PluginStages, Goto(p, label)
    PROVE  ExitOK'
<1>1. stage'[Main] = stage[Main]
  BY GotoStage, ServiceAssumption DEF ServiceInv, Writer
<1>2. stage[Main] \notin {"list", "save", "down", "unsaved"}
  BY DEF ServiceInv, ExitOK
<1> QED
  BY <1>1, <1>2 DEF ExitOK, DownIsSaved

LEMMA FetchInv ==
    ASSUME ServiceInv, NEW p \in Plugin, Fetch(p)
    PROVE  ServiceInv'
<1>1. PICK failed \in SUBSET SourcesOf[p], offers \in SUBSET Findings(p) :
        /\ found' = [found EXCEPT ![p] = offers]
        /\ errs' = [errs EXCEPT ![p] = failed]
  BY DEF Fetch
<1>2. /\ failed \subseteq Label /\ offers \subseteq Offers
  BY ServiceAssumption DEF Findings
<1>3. LoopsOK'
  BY <1>1, <1>2, GotoStage, ServiceAssumption
  DEF Fetch, ServiceInv, LoopsOK, Writer, PluginStages
<1>4. PoolInv' /\ FilesOK'
  BY SamePoolInv DEF Fetch, ServiceInv, FilesOK
<1>5. ExitOK'
  BY LoopExit DEF Fetch, PluginStages
<1> QED
  BY <1>3, <1>4, <1>5 DEF ServiceInv

LEMMA ValidateInv ==
    ASSUME ServiceInv, NEW p \in Plugin, Validate(p)
    PROVE  ServiceInv'
<1>1. PICK valid \in SUBSET found[p] : found' = [found EXCEPT ![p] = valid]
  BY DEF Validate
<1>2. /\ valid \subseteq Findings(p) /\ valid \subseteq Offers
      /\ SourcesOf[p] \subseteq Label
  BY ServiceAssumption DEF ServiceInv, LoopsOK
<1>3. LoopsOK'
  BY <1>1, <1>2, GotoStage, ServiceAssumption
  DEF Validate, ServiceInv, LoopsOK, Writer, PluginStages
<1>4. PoolInv' /\ FilesOK'
  BY SamePoolInv DEF Validate, ServiceInv, FilesOK
<1>5. ExitOK'
  BY LoopExit DEF Validate, PluginStages
<1> QED
  BY <1>3, <1>4, <1>5 DEF ServiceInv

\* A report is merged as a batch of offers (app.go 249-293).
LEMMA ApplyInv ==
    ASSUME ServiceInv, NEW p \in Plugin, Apply(p)
    PROVE  ServiceInv'
<1>1. PICK label \in todo[p] :
        /\ ApplyReport(found[p], p, label, label \in errs[p])
        /\ todo' = [todo EXCEPT ![p] = @ \ {label}]
  BY DEF Apply
<1>2. PoolInv'
  <2>1. PICK batch \in Batches(ReportCandidates(found[p], p, label)) :
           \E gone : Upsert(batch, gone)
    BY <1>1 DEF ApplyReport, AddValidated, ReplaceValidatedMatching
  <2>2. IsBatch(batch)
    BY ReportCandidatesIsBatch DEF ServiceInv, LoopsOK
  <2> QED
    BY <2>1, <2>2, UpsertInv DEF ServiceInv
<1>3. PICK there \in {"list", "apply"} : Goto(p, there)
  BY DEF Apply
<1>4. LoopsOK'
  BY <1>1, <1>3, GotoStage, ServiceAssumption
  DEF Apply, ServiceInv, LoopsOK, Writer, PluginStages
<1>5. FilesOK'
  BY DEF Apply, ServiceInv, FilesOK
<1>6. ExitOK'
  BY <1>3, LoopExit DEF Apply, PluginStages
<1> QED
  BY <1>2, <1>4, <1>5, <1>6 DEF ServiceInv

\* What a step of saving does to the files, for a plugin as for runServe.
LEMMA ListFiles ==
    ASSUME ServiceInv, NEW w \in Writer, List(w)
    PROVE  /\ PoolInv' /\ FilesOK'
           /\ copy'[w].items = items /\ copy'[w].order = order
<1>1. copy' = [copy EXCEPT ![w] = Saved(items, order)] /\ disk' = disk
  BY DEF List
<1>2. /\ copy' = [v \in Writer |-> copy'[v]]
      /\ \A v \in Writer : copy'[v] = IF v = w THEN Saved(items, order) ELSE copy[v]
  BY <1>1 DEF ServiceInv, FilesOK
<1>3. IsPool(items, order) /\ Saved(items, order).items = items
        /\ Saved(items, order).order = order
  BY ListIsPool DEF ServiceInv, Saved
<1>4. FilesOK'
  BY <1>1, <1>2, <1>3 DEF ServiceInv, FilesOK
<1>5. PoolInv'
  BY SamePoolInv DEF List, ServiceInv
<1> QED
  BY <1>2, <1>3, <1>4, <1>5

\* A save leaves one pool or the other on disk (storage.go 65-73, 128-161).
LEMMA SaveFiles ==
    ASSUME ServiceInv, NEW w \in Writer, NEW done, NEW failed, Save(w, done, failed)
    PROVE  PoolInv' /\ FilesOK'
<1>1. /\ copy' = [copy EXCEPT ![w] = NothingSaved]
      /\ disk' = copy[w] \/ disk' = disk
  BY DEF Save
<1>2. /\ copy' = [v \in Writer |-> copy'[v]]
      /\ \A v \in Writer : copy'[v] = IF v = w THEN NothingSaved ELSE copy[v]
  BY <1>1 DEF ServiceInv, FilesOK
<1>3. FilesOK'
  BY <1>1, <1>2, EmptyIsPool DEF ServiceInv, FilesOK
<1>4. PoolInv'
  BY SamePoolInv DEF Save, ServiceInv
<1> QED
  BY <1>3, <1>4

LEMMA ListInv ==
    ASSUME ServiceInv, NEW w \in Writer, List(w)
    PROVE  ServiceInv'
<1>1. PoolInv' /\ FilesOK' /\ copy'[w].items = items /\ copy'[w].order = order
  BY ListFiles
<1>2. LoopsOK'
  BY GotoStage, ServiceAssumption
  DEF List, refreshVars, ServiceInv, LoopsOK, Writer, PluginStages, MainStages
<1>3. ExitOK'
  <2>1. CASE w \in Plugin
    BY <2>1, LoopExit DEF List, PluginStages
  <2>2. CASE w = Main
    <3>1. /\ stage'[Main] = "save" /\ \A p \in Plugin : stage'[p] = stage[p]
      BY <2>2, GotoStage, ServiceAssumption DEF List, ServiceInv, Writer, MainStages
    <3>2. \A p \in Plugin : stage[p] = "stopped"
      BY <2>2 DEF List, ServiceInv, ExitOK
    <3>3. UNCHANGED <<items, order>>
      BY DEF List, poolVars
    <3> QED
      BY <1>1, <2>2, <3>1, <3>2, <3>3 DEF ExitOK, DownIsSaved
  <2> QED
    BY <2>1, <2>2 DEF Writer
<1> QED
  BY <1>1, <1>2, <1>3 DEF ServiceInv

LEMMA EndRefreshInv ==
    ASSUME ServiceInv, NEW p \in Plugin, EndRefresh(p)
    PROVE  ServiceInv'
<1>1. Save(p, "wait", "wait") /\ p \in Writer
  BY DEF EndRefresh, Writer
<1>2. PoolInv' /\ FilesOK'
  BY <1>1, SaveFiles
<1>3. Goto(p, "wait") /\ stage[p] = "save"
  BY <1>1 DEF Save
<1>4. LoopsOK'
  BY <1>1, <1>3, GotoStage, ServiceAssumption
  DEF EndRefresh, ServiceInv, LoopsOK, Writer, PluginStages
<1>5. ExitOK'
  BY <1>3, LoopExit DEF PluginStages
<1> QED
  BY <1>2, <1>4, <1>5 DEF ServiceInv

LEMMA WaitInv ==
    ASSUME ServiceInv, NEW p \in Plugin, TimerFires(p) \/ Quit(p)
    PROVE  ServiceInv'
<1>1. PICK there \in {"fetch", "stopped"} : Goto(p, there)
  BY DEF TimerFires, Quit
<1>2. stage[p] = "wait" /\ UNCHANGED <<poolVars, refreshVars, copy, disk>>
  BY DEF TimerFires, Quit
<1>3. LoopsOK'
  BY <1>1, <1>2, GotoStage, ServiceAssumption
  DEF refreshVars, ServiceInv, LoopsOK, Writer, PluginStages
<1>4. PoolInv' /\ FilesOK'
  BY <1>2, SamePoolInv DEF ServiceInv, FilesOK
<1>5. ExitOK'
  BY <1>1, <1>2, LoopExit DEF PluginStages
<1> QED
  BY <1>3, <1>4, <1>5 DEF ServiceInv

-----------------------------------------------------------------------------
(* runServe. *)

\* The signal and the end of pm.Stop: the pool is saved when all loops have ended
\* (app.go 152-159).
LEMMA StopInv ==
    ASSUME ServiceInv, Signal \/ Stop
    PROVE  ServiceInv'
<1>1. UNCHANGED <<poolVars, refreshVars, copy, disk>> /\ Main \in Writer
  BY DEF Signal, Stop, Writer
<1>2. PoolInv' /\ FilesOK'
  BY <1>1, SamePoolInv DEF ServiceInv, FilesOK
<1>3. PICK there \in {"stopping", "list"} :
        /\ Goto(Main, there)
        /\ there = "list" => \A p \in Plugin : stage[p] = "stopped"
  BY DEF Signal, Stop
<1>4. /\ stage'[Main] = there /\ \A p \in Plugin : stage'[p] = stage[p]
      /\ DOMAIN stage' = Writer /\ stage' \in [Writer -> PluginStages \cup MainStages]
  BY <1>1, <1>3, GotoStage, ServiceAssumption DEF ServiceInv, Writer, MainStages
<1>5. LoopsOK'
  BY <1>1, <1>3, <1>4 DEF refreshVars, ServiceInv, LoopsOK, MainStages
<1>6. ExitOK'
  BY <1>3, <1>4 DEF ExitOK, DownIsSaved
<1> QED
  BY <1>2, <1>5, <1>6 DEF ServiceInv

\* The save at the exit writes the pool that List returned (app.go 159).
LEMMA SaveAtExitInv ==
    ASSUME ServiceInv, SaveAtExit
    PROVE  ServiceInv'
<1>1. Save(Main, "down", "unsaved") /\ Main \in Writer
  BY DEF SaveAtExit, Writer
<1>2. PoolInv' /\ FilesOK'
  BY <1>1, SaveFiles
<1>3. PICK there \in {"down", "unsaved"} :
        Goto(Main, there) /\ (there = "down" => disk' = copy[Main])
  BY <1>1 DEF Save
<1>4. /\ stage'[Main] = there /\ \A p \in Plugin : stage'[p] = stage[p]
      /\ DOMAIN stage' = Writer /\ stage' \in [Writer -> PluginStages \cup MainStages]
  BY <1>1, <1>3, GotoStage, ServiceAssumption DEF ServiceInv, Writer, MainStages
<1>5. LoopsOK'
  BY <1>3, <1>4 DEF SaveAtExit, refreshVars, ServiceInv, LoopsOK, MainStages
<1>6. stage[Main] = "save" /\ UNCHANGED <<items, order>>
  BY <1>1 DEF Save, poolVars
<1>7. ExitOK'
  BY <1>3, <1>4, <1>6 DEF ServiceInv, ExitOK, DownIsSaved
<1> QED
  BY <1>2, <1>5, <1>7 DEF ServiceInv

\* A late outcome changes records, neither the order nor the set of candidates
\* (pool.go 297-328).
LEMMA ProxyInv ==
    ASSUME ServiceInv, Proxy
    PROVE  ServiceInv'
<1>1. PICK fp \in Fingerprint : MarkFailure(fp) \/ MarkSuccess(fp)
  BY DEF Proxy, Outcome
<1>2. PoolInv'
  BY <1>1, MarkFailureInv, MarkSuccessInv DEF ServiceInv
<1>3. DOMAIN items' = DOMAIN items /\ order' = order
  BY <1>1 DEF MarkFailure, MarkSuccess, ServiceInv, PoolInv, TypeOK
<1>4. UNCHANGED <<stage, refreshVars, copy, disk>>
  BY DEF Proxy
<1>5. LoopsOK' /\ FilesOK'
  BY <1>4 DEF refreshVars, ServiceInv, LoopsOK, FilesOK
<1>6. ExitOK'
  BY <1>3, <1>4 DEF ServiceInv, ExitOK, DownIsSaved
<1> QED
  BY <1>2, <1>5, <1>6 DEF ServiceInv

\* A start of the process, from what the last one left.
LEMMA BootInv ==
    ASSUME ServiceInv, Boot
    PROVE  ServiceInv'
<1>1. PoolInv' /\ IsPool(disk'.items, disk'.order)
  <2>1. evicted' = OutOfRotation(items') /\ IsPool(disk.items, disk.order)
    BY DEF Boot, ServiceInv, FilesOK
  <2>2. CASE Load(disk.items, disk.order) /\ UNCHANGED disk
    BY <2>1, <2>2, LoadIsPool
  <2>3. CASE Load(NothingSaved.items, <<>>) /\ disk' \in {disk, NothingSaved}
    <3>1. NothingSaved.order = <<>>
      BY DEF NothingSaved, Saved
    <3> QED
      BY <2>1, <2>3, <3>1, LoadIsPool, EmptyIsPool
  <2> QED
    BY <2>2, <2>3 DEF Boot
<1>2. FilesOK'
  <2>1. copy' = [w \in Writer |-> NothingSaved]
    BY DEF Boot
  <2> QED
    BY <1>1, <2>1, EmptyIsPool DEF FilesOK
<1>3. LoopsOK'
  BY ServiceAssumption DEF Boot, LoopsOK, Writer, PluginStages, MainStages
<1>4. stage'[Main] = "serving"
  BY DEF Boot, Writer
<1>5. ExitOK'
  BY <1>4 DEF ExitOK, DownIsSaved
<1> QED
  BY <1>1, <1>2, <1>3, <1>5 DEF ServiceInv

-----------------------------------------------------------------------------
(* The theorems. *)

LEMMA ServiceInitInv == ServiceInit => ServiceInv
<1> SUFFICES ASSUME ServiceInit PROVE ServiceInv
  OBVIOUS
<1>1. PoolInv
  BY InitInv DEF ServiceInit
<1>2. FilesOK
  BY EmptyIsPool DEF ServiceInit, FilesOK
<1>3. LoopsOK
  BY ServiceAssumption DEF ServiceInit, LoopsOK, Writer, PluginStages, MainStages
<1>4. ExitOK
  BY DEF ServiceInit, Writer, ExitOK, DownIsSaved
<1> QED
  BY <1>1, <1>2, <1>3, <1>4 DEF ServiceInv

LEMMA ServiceNextInv == ServiceInv /\ [ServiceNext]_vars => ServiceInv'
<1> SUFFICES ASSUME ServiceInv, [ServiceNext]_vars PROVE ServiceInv'
  OBVIOUS
<1>1. ASSUME NEW p \in Plugin, RefreshStep(p) \/ TimerFires(p) \/ Quit(p)
      PROVE  ServiceInv'
  BY <1>1, FetchInv, ValidateInv, ApplyInv, ListInv, EndRefreshInv, WaitInv
  DEF RefreshStep, Writer
<1>2. CASE Signal \/ MainStep
  BY <1>2, StopInv, ListInv, SaveAtExitInv DEF MainStep, Writer
<1>3. CASE Proxy
  BY <1>3, ProxyInv
<1>4. CASE Boot
  BY <1>4, BootInv
<1>5. CASE UNCHANGED vars
  <2>1. PoolInv'
    BY <1>5, SamePoolInv DEF vars, ServiceInv
  <2> QED
    BY <1>5, <2>1 DEF vars, poolVars, refreshVars, ServiceInv, LoopsOK, FilesOK, ExitOK,
                      DownIsSaved
<1> QED
  BY <1>1, <1>2, <1>3, <1>4, <1>5 DEF ServiceNext

\* The inductive invariant holds across refreshes, exits, crashes and restarts
\* (app.go 117-172, 230-293, storage.go 37-73).
THEOREM ServiceInvariance == ServiceSpec => []ServiceInv
<1> QED
  BY ServiceInitInv, ServiceNextInv, PTL DEF ServiceSpec

\* The types of the refreshes, and that pool.json always holds a pool that can be
\* loaded (storage.go 65-73, 128-161).
THEOREM ServiceTypeCorrect == ServiceSpec => []ServiceTypeOK
<1>1. ServiceInv => ServiceTypeOK
  BY DEF ServiceInv, PoolInv, LoopsOK, FilesOK, IsPool, ServiceTypeOK, PluginStages,
         MainStages
<1> QED
  BY <1>1, ServiceInvariance, PTL

\* After a graceful exit that could write its file, pool.json holds exactly the
\* pool, for any number of plugins that save, too (app.go 152-159, 288).
THEOREM ServiceDownIsSaved == ServiceSpec => []DownIsSaved
<1>1. ServiceInv => DownIsSaved
  BY DEF ServiceInv, ExitOK
<1> QED
  BY <1>1, ServiceInvariance, PTL

-----------------------------------------------------------------------------
(* Steady candidates, where every candidate has one source.  If two sources  *)
(* share one, it is lost: a report replaces what it does not know under its   *)
(* own label.                                                                *)

\* Sources have names, and what two of them offer is never the same candidate.
SourcesApart ==
    /\ NoLabel \notin Label
    /\ \A o, q \in Offers : o.fp = q.fp => o.source = q.source /\ o.label = q.label

\* The candidates of a pool are under the names of their sources.
Labelled(its) ==
    \A o \in Offers : o.fp \in DOMAIN its =>
        its[o.fp].source = o.source /\ its[o.fp].label = o.label

\* A refresh that was not cancelled carries each steady offer to the report of
\* its source, unless that source could not be read.
CarriesSteady ==
    \A p \in Plugin : stage[p] \in {"validate", "apply"} =>
        \A o \in Steady \cap Findings(p) : o.label \in errs[p] \/ o \in found[p]

SteadyInv ==
    /\ Labelled(items)
    /\ \A w \in Writer : Labelled(copy[w].items)
    /\ Labelled(disk.items)
    /\ Cancelled \/ CarriesSteady

\* A merge puts each candidate under the name of its source (pool.go 42-59).
LEMMA UpsertLabels ==
    ASSUME SourcesApart, NEW batch, NEW gone, NEW valid \in SUBSET Offers,
           batch \in Batches(valid), Labelled(items), Upsert(batch, gone)
    PROVE  Labelled(items')
<1> SUFFICES ASSUME NEW o \in Offers, o.fp \in DOMAIN items'
             PROVE  items'[o.fp].source = o.source /\ items'[o.fp].label = o.label
  BY DEF Labelled
<1>1. items' = [fp \in (DOMAIN items \ gone) \cup DOMAIN batch |->
                  IF fp \in DOMAIN batch THEN Admitted(batch[fp]) ELSE items[fp]]
  BY DEF Upsert
<1>2. CASE o.fp \in DOMAIN batch
  <2>1. batch[o.fp] \in Offers /\ batch[o.fp].fp = o.fp
    BY <1>2 DEF Batches
  <2>2. items'[o.fp] = Admitted(batch[o.fp])
    BY <1>1, <1>2
  <2>3. batch[o.fp].source = o.source /\ batch[o.fp].label = o.label
    BY <2>1 DEF SourcesApart
  <2> QED
    BY <2>2, <2>3 DEF Admitted
<1>3. CASE o.fp \notin DOMAIN batch
  BY <1>1, <1>3 DEF Labelled
<1> QED
  BY <1>2, <1>3

\* An outcome changes neither the candidates nor their sources (pool.go 297-328).
LEMMA OutcomeLabels ==
    ASSUME PoolInv, Labelled(items), Outcome
    PROVE  Labelled(items') /\ DOMAIN items' = DOMAIN items
<1>1. PICK fp \in Fingerprint : MarkFailure(fp) \/ MarkSuccess(fp)
  BY DEF Outcome
<1>2. /\ DOMAIN items' = DOMAIN items
      /\ \A g \in DOMAIN items :
           items'[g].source = items[g].source /\ items'[g].label = items[g].label
  <2>1. items \in [DOMAIN items -> Candidate]
    BY DEF PoolInv, TypeOK
  <2>2. \A g \in DOMAIN items : items[g] \in Candidate
    BY <2>1
  <2>3. CASE MarkFailure(fp)
    BY <2>1, <2>2, <2>3 DEF MarkFailure, Candidate
  <2>4. CASE MarkSuccess(fp)
    BY <2>1, <2>2, <2>4 DEF MarkSuccess, IsAvailable, Candidate
  <2> QED
    BY <1>1, <2>3, <2>4
<1> QED
  BY <1>2 DEF Labelled

\* Loading keeps the sources (storage.go 37-63).
LEMMA LoadLabels ==
    ASSUME NEW its, NEW ord, Labelled(its), Load(its, ord)
    PROVE  Labelled(items')
<1>1. items' = [fp \in DOMAIN its |-> Loaded(fp, its[fp])]
  BY DEF Load
<1>2. \A fp \in DOMAIN its :
        /\ Loaded(fp, its[fp]).source = its[fp].source
        /\ Loaded(fp, its[fp]).label = its[fp].label
  BY DEF Loaded
<1> QED
  BY <1>1, <1>2 DEF Labelled

LEMMA EmptyIsLabelled == Labelled(NothingSaved.items)
BY DEF Labelled, NothingSaved, Saved

\* A report of one source leaves the steady candidates of the others alone, and
\* finds its own among what it merges (app.go 274-286, 304-333).
LEMMA ApplyKeepsSteady ==
    ASSUME SourcesApart, ServiceInv, SteadyInv, ~Cancelled, NEW p \in Plugin, Apply(p)
    PROVE  KeepsSteady
<1> SUFFICES ASSUME NEW o \in Steady, o.fp \in DOMAIN items
             PROVE  o.fp \in DOMAIN items'
  BY DEF KeepsSteady
<1>1. PICK label \in todo[p] : ApplyReport(found[p], p, label, label \in errs[p])
  BY DEF Apply
<1> DEFINE valid == ReportCandidates(found[p], p, label)
<1>2. PICK batch \in Batches(valid) :
        IF label \in errs[p]
          THEN AddValidated(batch)
          ELSE ReplaceValidatedMatching(batch, MatchingReport(p, label))
  BY <1>1 DEF ApplyReport
<1>3. o \in Offers /\ label \in Label /\ label # NoLabel
  BY ServiceAssumption DEF SourcesApart, ServiceInv, LoopsOK
<1>4. items[o.fp].source = o.source /\ items[o.fp].label = o.label
  BY <1>3 DEF SteadyInv, Labelled
<1>5. o.label \in Label
  <2>1. o \in Offer
    BY <1>3, OffersAssumption
  <2>2. o.label \in SourcesOf[o.source] /\ o.source \in Plugin
    BY <1>3, <2>1, ServiceAssumption DEF Offer
  <2> QED
    BY <2>2, ServiceAssumption
<1>6. CASE label \in errs[p] \/ o.fp \notin MatchingReport(p, label)
  BY <1>2, <1>6 DEF AddValidated, ReplaceValidatedMatching, Upsert
<1>7. CASE label \notin errs[p] /\ o.fp \in MatchingReport(p, label)
  <2>1. o.source = p /\ o.label = label
    BY <1>3, <1>4, <1>5, <1>7 DEF MatchingReport, MatchesReport, SourcesApart
  <2>2. o \in found[p]
    BY <1>3, <1>7, <2>1 DEF SteadyInv, CarriesSteady, Findings, Apply
  <2>3. o \in valid
    BY <2>1, <2>2 DEF ReportCandidates, MatchesReport
  <2>4. o.fp \in DOMAIN batch
    BY <2>3 DEF Batches
  <2> QED
    BY <1>2, <2>4 DEF AddValidated, ReplaceValidatedMatching, Upsert
<1> QED
  BY <1>6, <1>7

\* Every other step but a start keeps all candidates.
LEMMA StepKeepsSteady ==
    ASSUME SourcesApart, ServiceInv, SteadyInv, [ServiceNext]_vars
    PROVE  KeepsSteady \/ Cancelled
<1>1. CASE DOMAIN items' = DOMAIN items
  BY <1>1 DEF KeepsSteady
<1>2. ASSUME NEW p \in Plugin, RefreshStep(p) \/ TimerFires(p) \/ Quit(p)
      PROVE  KeepsSteady \/ Cancelled
  <2>1. CASE Apply(p)
    BY <2>1, ApplyKeepsSteady
  <2>2. CASE ~Apply(p)
    BY <1>1, <1>2, <2>2
    DEF RefreshStep, Fetch, Validate, List, EndRefresh, Save, TimerFires, Quit, poolVars
  <2> QED
    BY <2>1, <2>2
<1>3. CASE Signal \/ MainStep
  BY <1>1, <1>3 DEF Signal, MainStep, Stop, List, SaveAtExit, Save, poolVars
<1>4. CASE Proxy
  BY <1>1, <1>4, OutcomeLabels DEF Proxy, ServiceInv, SteadyInv
<1>5. CASE Boot
  BY <1>5 DEF KeepsSteady
<1>6. CASE UNCHANGED vars
  BY <1>1, <1>6 DEF vars, poolVars
<1> QED
  BY <1>2, <1>3, <1>4, <1>5, <1>6 DEF ServiceNext

-----------------------------------------------------------------------------

\* The files keep their sources, whoever saves what when.
LEMMA SavingLabels ==
    ASSUME ServiceInv, SteadyInv, NEW w \in Writer,
           List(w) \/ (\E done, failed : Save(w, done, failed))
    PROVE  /\ Labelled(items') /\ Labelled(disk'.items)
           /\ \A v \in Writer : Labelled(copy'[v].items)
<1>1. copy = [v \in Writer |-> copy[v]] /\ UNCHANGED items
  BY DEF ServiceInv, FilesOK, List, Save, poolVars
<1>2. CASE List(w)
  <2>1. \A v \in Writer : copy'[v] = IF v = w THEN Saved(items, order) ELSE copy[v]
    BY <1>1, <1>2 DEF List
  <2> QED
    BY <1>1, <1>2, <2>1 DEF SteadyInv, List, Saved
<1>3. CASE \E done, failed : Save(w, done, failed)
  <2>1. copy' = [copy EXCEPT ![w] = NothingSaved] /\ disk' \in {copy[w], disk}
    BY <1>3 DEF Save
  <2>2. \A v \in Writer : copy'[v] = IF v = w THEN NothingSaved ELSE copy[v]
    BY <1>1, <2>1
  <2> QED
    BY <1>1, <2>1, <2>2, EmptyIsLabelled DEF SteadyInv
<1> QED
  BY <1>2, <1>3

\* A step of another loop leaves what a refresh carries.
LEMMA CarriedOn ==
    ASSUME ServiceInv, CarriesSteady, NEW p \in Plugin,
           \A q \in Plugin \ {p} :
              stage'[q] = stage[q] /\ found'[q] = found[q] /\ errs'[q] = errs[q],
           stage'[p] \in {"validate", "apply"} =>
              \A o \in Steady \cap Findings(p) : o.label \in errs'[p] \/ o \in found'[p]
    PROVE  CarriesSteady'
BY DEF CarriesSteady, Findings

LEMMA RefreshKeepsCarrying ==
    ASSUME ServiceInv, CarriesSteady, ~Cancelled, NEW p \in Plugin,
           RefreshStep(p) \/ TimerFires(p) \/ Quit(p)
    PROVE  CarriesSteady'
<1>1. /\ p \in Writer /\ Plugin \subseteq Writer
      /\ stage \in [Writer -> PluginStages \cup MainStages]
      /\ found = [q \in Plugin |-> found[q]] /\ errs = [q \in Plugin |-> errs[q]]
  BY DEF Writer, ServiceInv, LoopsOK
<1>2. CASE Fetch(p)
  <2>1. PICK failed \in SUBSET SourcesOf[p], offers \in SUBSET Findings(p) :
          /\ Returned(p, failed, offers)
          /\ found' = [found EXCEPT ![p] = offers]
          /\ errs' = [errs EXCEPT ![p] = failed]
    BY <1>2 DEF Fetch
  <2>2. stage' = [stage EXCEPT ![p] = "validate"]
    BY <1>2 DEF Fetch, Goto
  <2> QED
    BY <1>1, <2>1, <2>2, CarriedOn DEF Returned
<1>3. CASE Validate(p)
  <2>1. PICK valid \in SUBSET found[p] :
          /\ Steady \cap found[p] \subseteq valid
          /\ found' = [found EXCEPT ![p] = valid]
    BY <1>3 DEF Validate
  <2>2. stage' = [stage EXCEPT ![p] = "apply"] /\ errs' = errs /\ stage[p] = "validate"
    BY <1>3 DEF Validate, Goto
  <2>3. \A o \in Steady \cap Findings(p) : o.label \in errs'[p] \/ o \in found'[p]
    BY <1>1, <2>1, <2>2 DEF CarriesSteady
  <2> QED
    BY <1>1, <2>1, <2>2, <2>3, CarriedOn
<1>4. CASE Apply(p)
  <2>1. UNCHANGED <<found, errs>> /\ stage[p] = "apply"
    BY <1>4 DEF Apply
  <2>2. PICK there : stage' = [stage EXCEPT ![p] = there]
    BY <1>4 DEF Apply, Goto
  <2> QED
    BY <1>1, <2>1, <2>2, CarriedOn DEF CarriesSteady
<1>5. CASE List(p) \/ EndRefresh(p) \/ TimerFires(p) \/ Quit(p)
  <2>1. PICK there \in {"save", "wait", "fetch", "stopped"} :
          stage' = [stage EXCEPT ![p] = there]
    BY <1>5 DEF List, EndRefresh, Save, TimerFires, Quit, Goto
  <2>2. \A q \in Plugin \ {p} : found'[q] = found[q] /\ errs'[q] = errs[q]
    BY <1>1, <1>5 DEF List, EndRefresh, TimerFires, Quit, refreshVars
  <2> QED
    BY <1>1, <2>1, <2>2, CarriedOn
<1> QED
  BY <1>2, <1>3, <1>4, <1>5 DEF RefreshStep

LEMMA SteadyNextInv ==
    ASSUME SourcesApart, ServiceInv, SteadyInv, [ServiceNext]_vars
    PROVE  SteadyInv'
<1>1. ASSUME NEW p \in Plugin, RefreshStep(p) \/ TimerFires(p) \/ Quit(p)
      PROVE  SteadyInv'
  <2>1. /\ Labelled(items') /\ Labelled(disk'.items)
        /\ \A w \in Writer : Labelled(copy'[w].items)
    <3>1. CASE Apply(p)
      <4>1. PICK label \in todo[p] : ApplyReport(found[p], p, label, label \in errs[p])
        BY <3>1 DEF Apply
      <4>2. ReportCandidates(found[p], p, label) \in SUBSET Offers
        BY DEF ReportCandidates, ServiceInv, LoopsOK
      <4>3. Labelled(items')
        BY <4>1, <4>2, UpsertLabels
        DEF ApplyReport, AddValidated, ReplaceValidatedMatching, SteadyInv
      <4> QED
        BY <3>1, <4>3 DEF Apply, SteadyInv
    <3>2. CASE List(p) \/ EndRefresh(p)
      BY <3>2, SavingLabels DEF EndRefresh, Writer
    <3>3. CASE Fetch(p) \/ Validate(p) \/ TimerFires(p) \/ Quit(p)
      BY <3>3 DEF Fetch, Validate, TimerFires, Quit, poolVars, SteadyInv
    <3> QED
      BY <1>1, <3>1, <3>2, <3>3 DEF RefreshStep
  <2>2. Cancelled' <=> Cancelled
    <3>1. PICK there : Goto(p, there)
      BY <1>1 DEF RefreshStep, Fetch, Validate, Apply, List, EndRefresh, Save,
                  TimerFires, Quit
    <3>2. p # Main /\ stage'[Main] = stage[Main]
      BY <3>1, ServiceAssumption DEF Goto, ServiceInv, LoopsOK, Writer
    <3> QED
      BY <3>2 DEF Cancelled
  <2>3. Cancelled' \/ CarriesSteady'
    BY <1>1, <2>2, RefreshKeepsCarrying DEF SteadyInv
  <2> QED
    BY <2>1, <2>3 DEF SteadyInv
<1>2. CASE Signal \/ MainStep
  <2>1. /\ Labelled(items') /\ Labelled(disk'.items)
        /\ \A w \in Writer : Labelled(copy'[w].items)
    <3>1. CASE List(Main) \/ SaveAtExit
      BY <3>1, SavingLabels DEF SaveAtExit, Writer
    <3>2. CASE Signal \/ Stop
      BY <3>2 DEF Signal, Stop, poolVars, SteadyInv
    <3> QED
      BY <1>2, <3>1, <3>2 DEF MainStep
  <2>2. Cancelled'
    <3>1. PICK there \in {"stopping", "list", "save", "down", "unsaved"} :
            stage' = [stage EXCEPT ![Main] = there]
      BY <1>2 DEF Signal, MainStep, Stop, List, SaveAtExit, Save, Goto
    <3>2. stage'[Main] = there
      BY <3>1 DEF ServiceInv, LoopsOK, Writer
    <3> QED
      BY <3>2 DEF Cancelled
  <2> QED
    BY <2>1, <2>2 DEF SteadyInv
<1>3. CASE Proxy
  <2>1. Labelled(items')
    BY <1>3, OutcomeLabels DEF Proxy, ServiceInv, SteadyInv
  <2> QED
    BY <1>3, <2>1 DEF Proxy, refreshVars, SteadyInv, Cancelled, CarriesSteady, Findings
<1>4. CASE Boot
  <2>1. Labelled(items')
    BY <1>4, LoadLabels, EmptyIsLabelled DEF Boot, SteadyInv, NothingSaved, Saved
  <2>2. Labelled(disk'.items)
    BY <1>4, EmptyIsLabelled DEF Boot, SteadyInv
  <2>3. \A w \in Writer : Labelled(copy'[w].items)
    BY <1>4, EmptyIsLabelled DEF Boot
  <2>4. CarriesSteady'
    BY <1>4, ServiceAssumption DEF Boot, CarriesSteady, Writer
  <2> QED
    BY <2>1, <2>2, <2>3, <2>4 DEF SteadyInv
<1>5. CASE UNCHANGED vars
  BY <1>5 DEF vars, poolVars, refreshVars, SteadyInv, Cancelled, CarriesSteady, Findings
<1> QED
  BY <1>1, <1>2, <1>3, <1>4, <1>5 DEF ServiceNext

\* Where every candidate has one source, no refresh loses a steady candidate,
\* whatever sources fail and however the loops, the proxy and crashes interleave
\* (app.go 249-293, pool.go 93-104).
THEOREM ServiceSteadyIsKept ==
    ASSUME SourcesApart
    PROVE  ServiceSpec => SteadyIsKept
<1>1. ServiceInit => SteadyInv
  <2> SUFFICES ASSUME ServiceInit PROVE SteadyInv
    OBVIOUS
  <2>1. Labelled(items)
    BY DEF ServiceInit, Init, Labelled
  <2>2. CarriesSteady
    BY ServiceAssumption DEF ServiceInit, CarriesSteady, Writer
  <2> QED
    BY <2>1, <2>2, EmptyIsLabelled DEF ServiceInit, SteadyInv
<1>2. ServiceInv /\ SteadyInv /\ [ServiceNext]_vars => (ServiceInv /\ SteadyInv)'
  BY ServiceNextInv, SteadyNextInv
<1>3. ServiceInv /\ SteadyInv /\ [ServiceNext]_vars => [KeepsSteady \/ Cancelled]_vars
  BY StepKeepsSteady
<1> QED
  BY <1>1, <1>2, <1>3, ServiceInitInv, PTL DEF ServiceSpec, SteadyIsKept

-----------------------------------------------------------------------------
(* The pool within the service. *)

\* While a process runs, its loops, the proxy and the shutdown do to the pool only
\* what module Pool allows; a start loads what pool.json holds, which may be
\* older than the pool.
PoolSteps == Next \/ Boot

LEMMA ServiceIsPoolStep ==
    ASSUME ServiceInv, [ServiceNext]_vars
    PROVE  [PoolSteps]_poolVars
<1>1. ASSUME NEW p \in Plugin, RefreshStep(p) \/ TimerFires(p) \/ Quit(p)
      PROVE  Next \/ UNCHANGED poolVars
  <2>1. CASE Apply(p)
    <3>1. PICK label \in todo[p] : ApplyReport(found[p], p, label, label \in errs[p])
      BY <2>1 DEF Apply
    <3>2. found[p] \in SUBSET Findings(p) /\ label \in Label /\ (label \in errs[p]) \in BOOLEAN
      BY DEF ServiceInv, LoopsOK
    <3>3. Refresh
      BY <3>1, <3>2 DEF Refresh
    <3> QED
      BY <3>3 DEF Next
  <2> QED
    BY <1>1, <2>1
    DEF RefreshStep, Fetch, Validate, List, EndRefresh, Save, TimerFires, Quit
<1>2. CASE Signal \/ MainStep
  BY <1>2 DEF Signal, MainStep, Stop, List, SaveAtExit, Save
<1>3. CASE Proxy
  BY <1>3 DEF Proxy, Next, PoolSteps
<1>4. CASE UNCHANGED vars
  BY <1>4 DEF vars
<1> QED
  BY <1>1, <1>2, <1>3, <1>4 DEF ServiceNext, PoolSteps

\* Whatever loops, sources, shutdowns and crashes do to the pool, each step is one
\* of module Pool or the start of a process (app.go 150-159, 249-293;
\* storage.go 37-63).
THEOREM ServiceIsPool == ServiceSpec => Init /\ [][PoolSteps]_poolVars
<1>1. ServiceInit => Init
  BY DEF ServiceInit
<1>2. ServiceInv /\ [ServiceNext]_vars => [PoolSteps]_poolVars
  BY ServiceIsPoolStep
<1> QED
  BY <1>1, <1>2, ServiceInvariance, PTL DEF ServiceSpec

\* While a process runs, a candidate that went out of rotation is not available
\* before a refresh has validated it again, whatever the refreshes of other
\* plugins, the reports that fail and the outcomes of the proxy are interleaved
\* with (pool.go 89-124, 297-328).
THEOREM ServiceEvictedUntilValidated == ServiceSpec => []EvictedUntilValidated
<1>1. ServiceInv => EvictedUntilValidated
  BY DEF ServiceInv, PoolInv
<1> QED
  BY <1>1, ServiceInvariance, PTL

\* What SurvivorsKeepOrder asks of a step, for the pool of one process: the file
\* that a start loads may be older than the pool was.
OrderIsSteady ==
    \/ \A i, j \in DOMAIN order : i < j =>
         \A a, b \in DOMAIN order' :
             order'[a] = order[i] /\ order'[b] = order[j] => a < b
    \/ Boot

\* While a process runs, the candidates that stay keep their scheduling order
\* through the interleaved refreshes of all plugins (pool.go 89-115).
THEOREM ServiceOrderIsSteady == ServiceSpec => [][OrderIsSteady]_poolVars
<1>1. ASSUME PoolInv, [PoolSteps]_poolVars
      PROVE  [OrderIsSteady]_poolVars
  <2>1. SUFFICES ASSUME [Next]_poolVars
                 PROVE  OrderIsSteady
    BY <1>1 DEF PoolSteps, OrderIsSteady
  <2> QED
    BY <1>1, <2>1, OrderKept DEF OrderIsSteady
<1>2. ServiceInv => PoolInv
  BY DEF ServiceInv
<1> QED
  BY <1>1, <1>2, ServiceIsPool, ServiceInvariance, PTL
=============================================================================
