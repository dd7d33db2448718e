--------------------------- MODULE PipelineAssembly ---------------------------
(***************************************************************************)
(* A launch from its settings to its scans: the configuration is resolved,  *)
(* modules are registered by importing them, the enabled ones are selected  *)
(* and wired into one execution graph per required_history, and every scan  *)
(* is run through the graphs, stored, and enriched.  `adapt postprocess`    *)
(* puts its own modules through the same registry, selection and executor.  *)
(* (configuration/schemas/initialization.py, execution/, execution/nodes/,  *)
(* runtime/processor.py, runtime/postprocessor.py)                         *)
(*                                                                         *)
(* A module is its declarations: the context keys it needs and gives, those *)
(* its run() indexes or its input contracts require (must), those a         *)
(* contract validates (strict), required_history and pipeline_phase.  What  *)
(* it computes is left out; it may raise, or break its output contract.     *)
(***************************************************************************)
EXTENDS RunConfig, Sequences, SequencesExt

CONSTANTS
  ExtensionDecl, (* the declarations behind the extension paths that import*)
  Files,         (* the config files a launch may name                     *)
  Flags,         (* the flags of a launch                                  *)
  PostRequests,  (* the --module sets of `adapt postprocess`               *)
  MaxHistory,    (* config.processor.max_history                           *)
  MaxScans,      (* bound: scans per launch                                *)
  MaxLaunches    (* bound: launches                                        *)

(* Field(default=2, ge=2, le=10)                                            *)
ASSUME MaxHistoryAssumption == MaxHistory \in 2 .. 10
ASSUME BoundsAssumption == MaxScans \in Nat /\ MaxLaunches \in Nat

(* A setting that is None is not given, and pipeline.extensions is a list   *)
(* of paths.                                                                *)
ASSUME FilesAssumption ==
  \A f \in Files :
    /\ \A k \in {"start", "end", "dl_start", "dl_end"} \cap DOMAIN f : f[k] # None
    /\ "extensions" \in DOMAIN f => f.extensions \in Seq(STRING)

(* The fields of CLIConfig.                                                 *)
ASSUME FlagsAssumption ==
  \A c \in Flags : DOMAIN c \subseteq {"mode", "radar", "base_dir", "start", "end", "run_id",
                                       "only", "exclude"}

-----------------------------------------------------------------------------
(* The modules                                                             *)

Ingest ==
  [needs |-> {"nexrad_file", "ingest_config", "scan_time"},
   must |-> {"nexrad_file", "ingest_config", "scan_time"}, strict |-> {},
   gives |-> {"grid_ds", "grid_ds_2d"}, config |-> "ingest_config",
   checked |-> TRUE, history |-> 1, phase |-> 0]

Detection ==
  [needs |-> {"grid_ds_2d", "grid_ds", "detection_config"},
   must |-> {"grid_ds_2d", "grid_ds", "detection_config"}, strict |-> {"grid_ds_2d"},
   gives |-> {"segmented_ds", "num_cells"}, config |-> "detection_config",
   checked |-> TRUE, history |-> 1, phase |-> 0]

Projection ==
  [needs |-> {"segmented_ds", "scan_history", "projection_config"},
   must |-> {"segmented_ds", "scan_history", "projection_config"},
   strict |-> {"segmented_ds", "scan_history"},
   gives |-> {"projected_ds"}, config |-> "projection_config",
   checked |-> TRUE, history |-> 2, phase |-> 0]

(* scan_time is declared and never read.                                    *)
Analysis ==
  [needs |-> {"projected_ds", "analysis_config", "scan_time"},
   must |-> {"projected_ds", "analysis_config"}, strict |-> {},
   gives |-> {"cell_stats", "cell_adjacency"}, config |-> "analysis_config",
   checked |-> TRUE, history |-> 2, phase |-> 0]

Tracking ==
  [needs |-> {"projected_ds", "cell_stats", "tracking_config", "scan_time", "scan_id"},
   must |-> {"projected_ds", "cell_stats", "tracking_config", "scan_id"},
   strict |-> {"projected_ds"},
   gives |-> {"tracked_cells", "cell_events", "analysis_ds"},
   config |-> "tracking_config", checked |-> TRUE, history |-> 2, phase |-> 0]

(* Its run() asks the context with get() and returns an empty frame when    *)
(* the grid, the segmentation or the tracks are absent.                     *)
CellVolumeStats ==
  [needs |-> {"cell_volume_stats_config", "grid_ds_3d", "segmented_ds", "tracked_cells"},
   must |-> {"cell_volume_stats_config"}, strict |-> {},
   gives |-> {"cell_volume_stats_rows"}, config |-> "cell_volume_stats_config",
   checked |-> TRUE, history |-> 1, phase |-> 3]

PostPhase == 4

XlmaStat ==
  [needs |-> {"xlma_stat_config", "minute_masks", "radar_origin", "run_id"},
   must |-> {"xlma_stat_config", "minute_masks", "radar_origin", "run_id"},
   strict |-> {}, gives |-> {"xlma_stat_minutes_rows", "xlma_stat_scan_rows"},
   config |-> "xlma_stat_config", checked |-> TRUE, history |-> 1, phase |-> PostPhase]

CoreDecl ==
  [ingest |-> Ingest, detection |-> Detection, projection |-> Projection,
   analysis |-> Analysis, tracking |-> Tracking, cell_volume_stats |-> CellVolumeStats]

(* defaults.yaml and postprocess_defaults.yaml                              *)
CoreModules == <<"ingest", "detection", "projection", "analysis", "tracking",
                 "cell_volume_stats">>
PostModules == <<"xlma_stat">>

(* register() raises when a name is taken, and required_history counts the  *)
(* scan itself.                                                             *)
ASSUME ExtensionsAssumption ==
  \A e \in DOMAIN ExtensionDecl :
    /\ e \notin DOMAIN CoreDecl \cup {"xlma_stat"}
    /\ ExtensionDecl[e].history \in Nat \ {0}

AllDecl == DeepMerge(DeepMerge(CoreDecl, [xlma_stat |-> XlmaStat]), ExtensionDecl)
Decl(m) == AllDecl[m]
Modules == DOMAIN AllDecl

-----------------------------------------------------------------------------
(* Registration and selection                                              *)

(* A registry is a dict: its modules, each with its place in the order of   *)
(* registration.  A path that was imported before registers nothing.        *)
Registered(paths) ==
  [m \in ToSet(paths) |-> Min({i \in DOMAIN paths : paths[i] = m})]

Named(c, selection) == IF selection \in DOMAIN c THEN c[selection] ELSE {}

UnknownNames(names, c) ==
  (UNION {Named(c, s) : s \in {"modules", "only", "exclude"}}) \ names

(* --only replaces the file's allowlist, --not subtracts from it.           *)
EnabledNames(names, c) ==
  LET allowed == IF "modules" \in DOMAIN c THEN c.modules ELSE names
  IN IF Named(c, "only") # {} THEN c.only ELSE allowed \ Named(c, "exclude")

(* The module a key is looked up under: the last one registered with it.    *)
ProducerOf(all, key) ==
  LET givers == {m \in DOMAIN all : key \in Decl(m).gives}
  IN {m \in givers : \A p \in givers : all[p] <= all[m]}

(* Mutant: only the enabled modules are asked what they give.               *)
NeedsDisabledBlind(all, names) ==
  \E m \in names : \E key \in Decl(m).needs :
    ~(ProducerOf([n \in DOMAIN all \cap names |-> all[n]], key) \subseteq names)

NeedsDisabled(all, names) ==
  \E m \in names : \E key \in Decl(m).needs : ~(ProducerOf(all, key) \subseteq names)

Select(all, c) == DOMAIN all \cap EnabledNames(DOMAIN all, c)

SelectionError(all, c) ==
  IF UnknownNames(DOMAIN all, c) # {} THEN "unknown"
  ELSE IF NeedsDisabled(all, EnabledNames(DOMAIN all, c)) THEN "disabled" ELSE None

-----------------------------------------------------------------------------
(* The graphs                                                              *)

(* The processor keeps phase 3 for after the store and runs every other     *)
(* phase in the pipeline.                                                   *)
InPipeline(mods) == {m \in mods : Decl(m).phase # 3}
PostGraph(mods)  == {m \in mods : Decl(m).phase = 3}
Histories(mods)  == {Decl(m).history : m \in InPipeline(mods)}
Graph(mods, h)   == {m \in InPipeline(mods) : Decl(m).history = h}
Graphs(mods) ==
  {Graph(mods, h) : h \in Histories(mods)} \cup {PostGraph(mods)}

DuplicateKey(nodes) ==
  \E m, p \in nodes : m # p /\ Decl(m).gives \cap Decl(p).gives # {}

Dependencies(nodes, m) ==
  {p \in nodes : Decl(p).gives \cap Decl(m).needs # {}}

-----------------------------------------------------------------------------
VARIABLES
  cwd,       (* {} or {the config.yaml of the working directory}           *)
  saved,     (* {} or {the config recorded with the run}                   *)
  launch,    (* what this launch was given and what it resolved to         *)
  bootstrap, (* {} or {the launch that wrote cwd}                          *)
  launches,
  registry,  (* ModuleRegistry._modules: place by name                     *)
  enabled,   (* the modules resolve_enabled_modules returned               *)
  pc,
  scan,      (* the scan in hand                                           *)
  exec,      (* GraphExecutor.run's locals                                 *)
  history,   (* RadarProcessor._scan_history                               *)
  log,       (* what ran for the scan, and what it saw of its needs        *)
  verdict    (* why the scan, or the post-process, ended                   *)

disk    == <<cwd, saved, bootstrap, launches>>
process == <<launch, registry, enabled>>
vars    == <<disk, process, pc, scan, exec, history, log, verdict>>

Empty == [k \in {} |-> None]
NoLaunch == [kind |-> None, file |-> Empty, flags |-> Empty, fresh |-> FALSE,
             config |-> Empty, why |-> None]
NoScan == [no |-> 0, near |-> FALSE, cells |-> FALSE, left |-> {}, result |-> Empty,
           held |-> {}, committed |-> FALSE]
NoExec == [nodes |-> {}, at |-> 1, done |-> {}, moved |-> FALSE, rounds |-> 1,
           ctx |-> Empty]
NoVerdict == [why |-> None, module |-> None, keys |-> {}]

Init ==
  /\ cwd = {} /\ saved = {} /\ bootstrap = {} /\ launches = 0
  /\ launch = NoLaunch /\ registry = Empty /\ enabled = {} /\ pc = "off"
  /\ scan = NoScan /\ exec = NoExec /\ history = <<>> /\ log = <<>>
  /\ verdict = NoVerdict

-----------------------------------------------------------------------------
(* Launching                                                               *)

Launched(kind, file, flags, r) ==
  /\ pc = "off" /\ launches < MaxLaunches
  /\ launches' = launches + 1
  /\ launch' = [kind |-> kind, file |-> file, flags |-> flags, fresh |-> TRUE,
                config |-> r.config, why |-> r.why]
  /\ pc' = IF r.why = None THEN "configured" ELSE "refused"
  /\ UNCHANGED <<registry, enabled, scan, exec, history, log, verdict>>

(* --run-id of a recorded run: its config comes back, and the file and the  *)
(* other flags are ignored.                                                 *)
Continue(flags) ==
  /\ pc = "off" /\ launches < MaxLaunches
  /\ {"run_id", "base_dir"} \subseteq DOMAIN flags /\ saved # {}
  /\ launches' = launches + 1
  /\ launch' = [kind |-> "live", file |-> Empty, flags |-> flags, fresh |-> FALSE,
                config |-> CHOOSE c \in saved : TRUE, why |-> None]
  /\ pc' = "configured"
  /\ UNCHANGED <<cwd, saved, bootstrap, registry, enabled, scan, exec, history, log, verdict>>

Starts(flags) ==
  "run_id" \in DOMAIN flags => "base_dir" \in DOMAIN flags /\ saved = {}

LaunchWith(file, flags) ==
  /\ Starts(flags)
  /\ Launched("live", file, flags, Resolve(file, flags))
  /\ UNCHANGED <<cwd, saved, bootstrap>>

(* Neither a file nor --base-dir: the working directory is the base, its    *)
(* config.yaml is the file, and one is written when there is none (this     *)
(* launch still resolves from nothing).                                     *)
LaunchHere(flags) ==
  LET here == DeepMerge(flags, [base_dir |-> "cwd"])
      file == IF cwd = {} THEN Empty ELSE CHOOSE f \in cwd : TRUE
      r    == Resolve(file, here)
  IN /\ Starts(flags) /\ "base_dir" \notin DOMAIN flags
     /\ Launched("live", file, here, r)
     /\ cwd' = IF cwd = {} THEN {DefaultFile("cwd", ToSet(CoreModules))} ELSE cwd
     /\ bootstrap' = IF cwd = {} THEN {[flags |-> here, why |-> r.why, config |-> r.config]}
                     ELSE bootstrap
     /\ UNCHANGED saved

(* The config of the latest run; one given by --config is resolved without  *)
(* it.                                                                      *)
LaunchPost(file, request) ==
  /\ saved # {}
  /\ Launched("post", file, [request |-> request],
              IF file = Empty THEN [why |-> None, config |-> CHOOSE c \in saved : TRUE]
              ELSE Resolve(file, Empty))
  /\ UNCHANGED <<cwd, saved, bootstrap>>

Refuse(why) ==
  /\ pc' = "refused" /\ launch' = [launch EXCEPT !.why = why]
  /\ UNCHANGED <<disk, enabled, scan, exec, history, log, verdict>>

(* _record_run_start: the run is on record, with its config, before its     *)
(* modules are looked at; a continued run is reopened.                      *)
RecordRun ==
  /\ pc = "configured" /\ launch.kind = "live"
  /\ saved' = IF launch.fresh THEN {launch.config} ELSE saved
  /\ pc' = "recorded"
  /\ UNCHANGED <<cwd, bootstrap, launches, process, scan, exec, history, log, verdict>>

Paths ==
  IF launch.kind = "post" THEN PostModules
  ELSE CoreModules \o launch.config.extensions

ImportModules ==
  /\ pc = IF launch.kind = "post" THEN "configured" ELSE "recorded"
  /\ LET broken == {i \in DOMAIN Paths : Paths[i] \notin Modules}
     IN IF broken # {}
        THEN Refuse("import") /\ registry' = Registered(SubSeq(Paths, 1, Min(broken) - 1))
        ELSE /\ registry' = Registered(Paths) /\ pc' = "registered"
             /\ UNCHANGED <<disk, launch, enabled, scan, exec, history, log, verdict>>

(* What selects: the config's three selections, or the post-process request.*)
Selection ==
  IF launch.kind = "post" THEN [modules |-> launch.flags.request] ELSE launch.config

Available ==
  IF launch.kind = "post" THEN [m \in {p \in DOMAIN registry : Decl(p).phase = PostPhase} |-> registry[m]]
  ELSE registry

SelectModules ==
  /\ pc = "registered" /\ UNCHANGED registry
  /\ LET why == SelectionError(Available, Selection)
     IN IF why # None THEN Refuse(why)
        ELSE /\ enabled' = Select(Available, Selection) /\ pc' = "selected"
             /\ UNCHANGED <<disk, launch, scan, exec, history, log, verdict>>

ConfigKeys == {Decl(m).config : m \in DOMAIN registry} \ {None}
Given(keys) == [k \in keys |-> "base"]

NewExec(nodes, ctx) == [NoExec EXCEPT !.nodes = nodes, !.ctx = ctx]

(* PostProcessor._build_context: what the store holds is read only for the  *)
(* modules that declare it.                                                 *)
PostContext ==
  Given({"run_id"} \cup ConfigKeys \cup
        ((UNION {Decl(m).needs : m \in enabled})
           \cap {"minute_masks", "projection_minute_masks", "radar_origin"}))

BuildGraphs ==
  /\ pc = "selected" /\ UNCHANGED registry
  /\ LET graphs == IF launch.kind = "post" THEN {enabled} ELSE Graphs(enabled)
     IN IF \E g \in graphs : DuplicateKey(g)
        THEN Refuse("duplicate")
        ELSE /\ IF launch.kind = "post"
                THEN pc' = "posting" /\ exec' = NewExec(enabled, PostContext)
                ELSE pc' = "ready" /\ UNCHANGED exec
             /\ UNCHANGED <<disk, launch, enabled, scan, history, log, verdict>>

(* The process ends; nothing of it outlives it but the files.               *)
Exit ==
  /\ pc \in {"ready", "stopped", "refused", "posted"}
  /\ pc' = "off" /\ launch' = NoLaunch /\ registry' = Empty /\ enabled' = {}
  /\ scan' = NoScan /\ exec' = NoExec /\ history' = <<>> /\ log' = <<>>
  /\ verdict' = NoVerdict
  /\ UNCHANGED disk

-----------------------------------------------------------------------------
(* One scan                                                                *)

ScanKeys == {"nexrad_file", "scan_id", "scan_time"}
BaseContext == Given(ScanKeys \cup ConfigKeys)

(* near: whether it is within max_time_interval_minutes of the last scan of *)
(* the history; cells: whether tracking will find any.                      *)
BeginScan(near, cells) ==
  /\ pc = "ready" /\ launch.kind = "live" /\ scan.no < MaxScans
  /\ scan' = [NoScan EXCEPT !.no = scan.no + 1, !.near = near, !.cells = cells,
                            !.left = Histories(enabled), !.held = {scan.no + 1}]
  /\ pc' = "groups" /\ exec' = NoExec /\ log' = <<>> /\ verdict' = NoVerdict
  /\ UNCHANGED <<disk, process, history>>

NextGroup == Min(scan.left)
PriorNeeded == NextGroup - 1
HasHistory == Len(history) >= PriorNeeded
GapFits == NextGroup > 1 => scan.near

SkipGroup ==
  /\ pc = "groups" /\ scan.left # {} /\ ~(HasHistory /\ GapFits)
  /\ scan' = [scan EXCEPT !.left = @ \ {NextGroup}]
  /\ UNCHANGED <<disk, process, pc, exec, history, log, verdict>>

EnterGroup ==
  /\ pc = "groups" /\ scan.left # {} /\ HasHistory /\ GapFits
  /\ LET ctx == DeepMerge(BaseContext, scan.result)
     IN exec' = NewExec(Graph(enabled, NextGroup),
                        IF NextGroup = 1 THEN ctx
                        ELSE DeepMerge(ctx, Given({"scan_history"})))
  /\ pc' = "running"
  /\ UNCHANGED <<disk, process, scan, history, log, verdict>>

(* The prior scans handed to a group of history h.                          *)
Prior(h) == SubSeq(history, Len(history) - (h - 1) + 1, Len(history))

(* The executor's result is its whole context, scan_history included, and   *)
(* all of it becomes the scan's result: the entries of scan_history carry   *)
(* the scan_history they were given in turn.                                *)
EndGroup ==
  /\ pc = "running" /\ exec.done = exec.nodes
  /\ LET held == IF NextGroup = 1 THEN {}
                 ELSE UNION {Prior(NextGroup)[i].held : i \in DOMAIN Prior(NextGroup)}
     IN scan' = [scan EXCEPT !.left = @ \ {NextGroup}, !.result = exec.ctx,
                             !.held = @ \cup held]
  /\ exec' = NoExec /\ pc' = "groups"
  /\ UNCHANGED <<disk, process, history, log, verdict>>

(* Mutant: one scan too many is kept.                                       *)
TrimmedLate(h) == IF Len(h) > MaxHistory + 1 THEN Tail(h) ELSE h

Trimmed(h) == IF Len(h) > MaxHistory THEN Tail(h) ELSE h

Accumulate ==
  /\ pc = "groups" /\ scan.left = {}
  /\ history' = Trimmed(Append(history,
                   [no |-> scan.no, keys |-> ScanKeys \cup DOMAIN scan.result,
                    held |-> scan.held]))
  /\ pc' = "persist"
  /\ UNCHANGED <<disk, process, scan, exec, log, verdict>>

Tracked == "tracked_cells" \in DOMAIN scan.result /\ scan.cells

Persist ==
  /\ pc = "persist"
  /\ scan' = [scan EXCEPT !.committed = Tracked]
  /\ pc' = "enrich"
  /\ UNCHANGED <<disk, process, exec, history, log, verdict>>

SkipEnrichment ==
  /\ pc = "enrich" /\ (PostGraph(enabled) = {} \/ ~Tracked)
  /\ pc' = "ready"
  /\ UNCHANGED <<disk, process, scan, exec, history, log, verdict>>

WantsGrid == \E m \in PostGraph(enabled) : "grid_ds_3d" \in Decl(m).needs

EnrichContext ==
  DeepMerge(scan.result,
    Given({"run_id", "scan_id", "scan_time"} \cup IF WantsGrid THEN {"grid_ds_3d"} ELSE {}))

(* The enrichment, or the post-process, is complete and its rows are stored.*)
EndGraph ==
  /\ pc \in {"enriching", "posting"} /\ exec.done = exec.nodes
  /\ pc' = IF pc = "posting" THEN "posted" ELSE "ready"
  /\ UNCHANGED <<disk, process, scan, exec, history, log, verdict>>

(* A contract violation stops the processor, anything else ends the scan; a *)
(* post-process just ends.                                                  *)
Fails(why, m, keys) ==
  /\ verdict' = [why |-> why, module |-> m, keys |-> keys]
  /\ pc' = IF pc = "posting" THEN "posted"
           ELSE IF why \in {"contract", "history"} THEN "stopped" ELSE "ready"
  /\ UNCHANGED <<disk, process, scan, exec, history, log>>

(* ensure_collection_location (which comes before the history), persist() or*)
(* an enrichment's rows fail.                                               *)
StoreFails ==
  /\ \/ pc = "groups" /\ scan.left = {}
        /\ {"grid_ds", "grid_ds_2d"} \cap DOMAIN scan.result # {}
     \/ pc = "persist"
     \/ (pc \in {"enriching", "posting"} /\ exec.done = exec.nodes)
  /\ Fails("store", None, {})

EnterEnrichment ==
  /\ pc = "enrich" /\ PostGraph(enabled) # {} /\ Tracked
  /\ IF WantsGrid /\ "grid_ds" \notin DOMAIN scan.result
     THEN Fails("grid", None, {"grid_ds"})
     ELSE /\ exec' = NewExec(PostGraph(enabled), EnrichContext) /\ pc' = "enriching"
          /\ UNCHANGED <<disk, process, scan, history, log, verdict>>

-----------------------------------------------------------------------------
(* The executor                                                            *)

Executing == pc \in {"running", "enriching", "posting"}

(* Mutant: a node is ready as soon as the context holds its inputs.         *)
IsReadyWhenPresent(m) == Decl(m).needs \subseteq DOMAIN exec.ctx

IsReady(m) == Dependencies(exec.nodes, m) \subseteq exec.done

(* The nodes of this round still ahead that are ready: the first is next.   *)
Ahead == {m \in exec.nodes \ exec.done : registry[m] >= exec.at /\ IsReady(m)}

Visit(m) == Executing /\ m \in Ahead /\ \A p \in Ahead : registry[m] <= registry[p]

Missing(m) == Decl(m).must \ DOMAIN exec.ctx

(* check_scan_history: every entry, the current scan's among them, carries  *)
(* segmented_ds and scan_time.                                              *)
HistoryShaped(m) ==
  "scan_history" \in Decl(m).strict =>
    /\ \A i \in DOMAIN Prior(NextGroup) :
         {"segmented_ds", "scan_time"} \subseteq Prior(NextGroup)[i].keys
    /\ "segmented_ds" \in DOMAIN scan.result

Seen(m) == [k \in Decl(m).needs \cap DOMAIN exec.ctx |-> exec.ctx[k]]

RunNode(m) ==
  /\ Visit(m) /\ Missing(m) = {} /\ HistoryShaped(m)
  /\ log' = Append(log, [module |-> m, saw |-> Seen(m)])
  /\ exec' = [exec EXCEPT !.at = registry[m] + 1, !.done = @ \cup {m}, !.moved = TRUE,
                          !.ctx = DeepMerge(@, [k \in Decl(m).gives |-> m])]
  /\ UNCHANGED <<disk, process, pc, scan, history, verdict>>

LacksInput(m) ==
  /\ Visit(m) /\ Missing(m) # {}
  /\ Fails(IF Missing(m) \cap Decl(m).strict # {} THEN "contract" ELSE "missing",
           m, Missing(m))

NodeRaises(m) ==
  /\ Visit(m) /\ Missing(m) = {} /\ HistoryShaped(m)
  /\ Fails("raised", m, {})

(* A validator refuses the history it is handed, or an output.              *)
ContractFails(m) ==
  /\ Visit(m) /\ Missing(m) = {}
  /\ HistoryShaped(m) => Decl(m).checked
  /\ Fails(IF HistoryShaped(m) THEN "contract" ELSE "history", m, {})

RoundEnds == Executing /\ Ahead = {} /\ exec.done # exec.nodes
RoundLimit == Cardinality(exec.nodes) * Cardinality(exec.nodes) + Cardinality(exec.nodes) + 1

NextRound ==
  /\ RoundEnds /\ exec.moved /\ exec.rounds < RoundLimit
  /\ exec' = [exec EXCEPT !.at = 1, !.moved = FALSE, !.rounds = @ + 1]
  /\ UNCHANGED <<disk, process, pc, scan, history, log, verdict>>

(* Mutant: gives up after any round that left modules pending.              *)
NoProgressHasty ==
  /\ RoundEnds
  /\ Fails("stuck", None, exec.nodes \ exec.done)

NoProgress ==
  /\ RoundEnds /\ ~exec.moved
  /\ Fails("stuck", None, exec.nodes \ exec.done)

-----------------------------------------------------------------------------
Next ==
  \/ \E flags \in Flags :
       \/ Continue(flags)
       \/ LaunchHere(flags)
       \/ \E file \in Files : LaunchWith(file, flags)
  \/ \E request \in PostRequests, file \in Files \cup {Empty} : LaunchPost(file, request)
  \/ RecordRun \/ ImportModules \/ SelectModules \/ BuildGraphs \/ Exit
  \/ \E near, cells \in BOOLEAN : BeginScan(near, cells)
  \/ SkipGroup \/ EnterGroup \/ EndGroup \/ Accumulate
  \/ Persist \/ SkipEnrichment \/ EnterEnrichment \/ EndGraph \/ StoreFails
  \/ \E m \in exec.nodes :
       RunNode(m) \/ LacksInput(m) \/ NodeRaises(m) \/ ContractFails(m)
  \/ NextRound \/ NoProgress

Spec == Init /\ [][Next]_vars

-----------------------------------------------------------------------------
(* Properties                                                              *)

Names == DOMAIN AllDecl
AllKeys ==
  (UNION {Decl(m).needs \cup Decl(m).gives \cup {Decl(m).config} : m \in Names})
    \cup ScanKeys \cup {"run_id", "grid_ds_3d", "scan_history"}

(* The variables hold what the code's can: sequences of registered modules, *)
(* a context of known keys, a phase of the launch.                          *)
TypeOK ==
  /\ Cardinality(cwd) <= 1 /\ Cardinality(saved) <= 1 /\ Cardinality(bootstrap) <= 1
  /\ launches \in 0 .. MaxLaunches /\ launch.fresh \in BOOLEAN
  /\ DOMAIN registry \subseteq Names /\ enabled \subseteq DOMAIN registry
  /\ \A m \in DOMAIN registry : registry[m] \in Nat \ {0}
  /\ pc \in {"off", "configured", "recorded", "registered", "selected", "ready", "groups", "running",
             "persist", "enrich", "enriching", "posting", "posted", "stopped", "refused"}
  /\ scan.no \in 0 .. MaxScans /\ scan.left \subseteq Histories(enabled)
  /\ scan.held \subseteq 1 .. scan.no /\ {scan.near, scan.cells, scan.committed} \subseteq BOOLEAN
  /\ exec.nodes \subseteq enabled /\ exec.done \subseteq exec.nodes
  /\ exec.at \in Nat \ {0} /\ exec.moved \in BOOLEAN
  /\ DOMAIN exec.ctx \cup DOMAIN scan.result \subseteq AllKeys
  /\ verdict.module \in Names \cup {None}

GraphOf(m) ==
  IF launch.kind = "post" THEN enabled
  ELSE IF Decl(m).phase = 3 THEN PostGraph(enabled) ELSE Graph(enabled, Decl(m).history)

(* GraphExecutor.run: within a scan no module runs twice, and every module  *)
(* reads a key some module of its graph gives from that module, run earlier *)
(* for this very scan, whatever the order of registration and whatever the  *)
(* context already held under that key.                                     *)
OnceAfterProducers ==
  /\ \A i, j \in DOMAIN log : i # j => log[i].module # log[j].module
  /\ \A i \in DOMAIN log :
       LET m == log[i].module
       IN \A p \in GraphOf(m) : \A k \in Decl(p).gives \cap Decl(m).needs :
            /\ k \in DOMAIN log[i].saw /\ log[i].saw[k] = p
            /\ \E j \in 1 .. i - 1 : log[j].module = p

(* What has run, or could have, when a graph is entered.                    *)
RunsBefore(m) ==
  {p \in enabled :
     \/ Decl(m).phase = 3
     \/ Decl(p).phase # 3 /\ Decl(p).history <= Decl(m).history}

(* Extensions the validation sees through: one requires only what it        *)
(* declares, nothing gives what configures it, it gives a core module its   *)
(* input no later than that one's group, gives the tracks, if it does, no   *)
(* earlier than tracking, and enriches from what every tracked scan has.    *)
SelectionContracts ==
  \A e \in DOMAIN ExtensionDecl :
    LET d == ExtensionDecl[e]
    IN /\ d.must \subseteq d.needs
       /\ \A m \in Modules : d.config \notin Decl(m).gives
       /\ \A m \in DOMAIN CoreDecl :
            d.gives \cap CoreDecl[m].must # {} =>
              d.phase # 3 /\ d.history <= CoreDecl[m].history
       /\ "tracked_cells" \in d.gives => d.phase = 3 \/ d.history >= 2
       /\ d.phase = 3 =>
            \A p \in Modules : Decl(p).gives \cap d.must # {} =>
              Decl(p).phase = 3 \/ Decl(p).history <= 2

(* resolve_enabled_modules "validates that no enabled module needs an input *)
(* produced solely by a disabled module": of an accepted selection no core  *)
(* module ever lacks an input, and an extension lacks one only where no     *)
(* module of its graph or an earlier one gives it (a producer the check     *)
(* does count may be in a later graph).                                     *)
MissingExplained ==
  verdict.keys # {} /\ verdict.why \in {"missing", "contract"} =>
    /\ verdict.module \notin ToSet(CoreModules)
    /\ \A p \in RunsBefore(verdict.module) : Decl(p).gives \cap verdict.keys = {}

(* GraphExecutor.run gives up only when the pending modules wait for each   *)
(* other in a circle, and its iteration limit is "preempted by no-progress  *)
(* check": every round but the last completes a module.                     *)
StuckOnlyOnCycle ==
  /\ verdict.why = "stuck" =>
       \A m \in verdict.keys : Dependencies(exec.nodes, m) \cap verdict.keys # {}
  /\ exec.rounds <= Cardinality(exec.done) + 1
  /\ exec.nodes # {} => exec.rounds < RoundLimit

(* Extensions a history can rely on: nothing gives what configures a module,*)
(* one that gives the segmentation after the first group reads it, and one  *)
(* that validates scan_history is of a later group and reads both.          *)
HistoryContracts ==
  \A e \in DOMAIN ExtensionDecl :
    LET d == ExtensionDecl[e]
    IN /\ \A m \in Modules : d.config \notin Decl(m).gives
       /\ "segmented_ds" \in d.gives /\ d.phase # 3 /\ d.history # 1 => "segmented_ds" \in d.must
       /\ "scan_history" \in d.strict =>
            d.history > 1 /\ d.phase \notin {3, PostPhase} /\ "segmented_ds" \in d.must

(* _run_scan: the history holds the last scans that got through their       *)
(* groups, oldest first, never a failed one and never more than max_history *)
(* of them, and each carries what check_scan_history asks of it: a history  *)
(* never stops the processor.                                               *)
HistoryFits ==
  /\ Len(history) <= MaxHistory
  /\ \A i \in 1 .. Len(history) - 1 : history[i].no < history[i + 1].no
  /\ "detection" \in enabled =>
       \A i \in DOMAIN history : {"segmented_ds", "scan_time"} \subseteq history[i].keys
  /\ verdict.why # "history"

Resolved == launch.fresh /\ launch.kind = "live" /\ launch.why \notin
              {"incomplete", "no_start", "no_end", "field", "kept"}

GivesTimes(f) == DOMAIN f \cap {"start", "end", "dl_start", "dl_end"} # {}

(* resolve_config: the flags take precedence over the file; the mode that   *)
(* acquisition reads (downloader.mode) is the mode of the run unless the    *)
(* file itself sets downloader.mode; an acquisition that is historical has  *)
(* both ends of its range; and a range given anywhere, with a mode given    *)
(* nowhere, makes the run historical.                                       *)
LaunchAsAsked ==
  Resolved =>
    LET f == launch.file  c == launch.flags  r == launch.config
    IN /\ \A k \in DOMAIN c \ {"run_id"} : r[k] = c[k]
       /\ "dl_mode" \notin DOMAIN f => r.dl_mode = r.mode
       /\ r.dl_mode = "historical" => r.start # None /\ r.end # None
       /\ (GivesTimes(f) \/ GivesTimes(c)) /\ "mode" \notin DOMAIN f \cup DOMAIN c =>
            r.mode = "historical"

(* init_runtime_config: the config.yaml a first launch leaves behind says   *)
(* what that launch did: a second launch there, with the same flags, reads  *)
(* it and comes to the same settings, the same modules or the same refusal. *)
BootstrapNeutral ==
  \A b \in bootstrap :
    (/\ launch.kind = "live" /\ launch.fresh /\ launch.flags = b.flags
     /\ launch.file \in cwd /\ registry = Empty) =>
      /\ launch.why = b.why
      /\ \A k \in DOMAIN b.config : launch.config[k] = b.config[k]
      /\ LET core == ToSet(CoreModules)
         IN EnabledNames(core, launch.config) = EnabledNames(core, b.config)

(* "Maintain the two-frame rolling buffer" (02_runtime_orchestration.md):   *)
(* the processor keeps the data of at most max_history scans.               *)
HistoryBounded ==
  Cardinality(UNION {history[i].held : i \in DOMAIN history}) <= MaxHistory
=============================================================================
