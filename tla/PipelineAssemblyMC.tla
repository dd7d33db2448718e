-------------------------- MODULE PipelineAssemblyMC --------------------------
EXTENDS PipelineAssembly

Ext(needs, gives, prior, phase) ==
  [needs |-> needs, must |-> needs, strict |-> {}, gives |-> gives, config |-> None,
   checked |-> FALSE, history |-> prior, phase |-> phase]

(* "first" is listed before "second", which gives what it needs; "early"    *)
(* needs what a later group gives, "guard" too and by contract; "remask"    *)
(* gives the segmentation again for the scan pair, "regrid" within ingest's *)
(* own graph; "deep" wants three scans; "summary" enriches the enrichment.  *)
MCExtensionDecl ==
  [first   |-> Ext({"extra"}, {"first_rows"}, 1, 0),
   second  |-> Ext({"grid_ds_2d"}, {"extra"}, 1, 0),
   early   |-> Ext({"cell_stats"}, {"early_rows"}, 1, 0),
   guard   |-> [Ext({"tracked_cells"}, {"guard_rows"}, 1, 0)
                  EXCEPT !.strict = {"tracked_cells"}],
   remask  |-> Ext({"segmented_ds"}, {"segmented_ds"}, 2, 0),
   regrid  |-> Ext({"grid_ds"}, {"grid_ds_2d"}, 1, 0),
   deep    |-> Ext({"cell_stats", "scan_history"}, {"deep_rows"}, 3, 0),
   summary |-> Ext({"cell_volume_stats_rows"}, {"summary_rows"}, 1, 3)]

Radar == [radar |-> "KLOT", base_dir |-> "store"]
Loads(paths) == DeepMerge(Radar, [extensions |-> paths])
Written == DefaultFile("store", ToSet(CoreModules))

MCFiles ==
  {Empty, Radar,
   Loads(<<"first", "second", "summary">>), Loads(<<"early">>), Loads(<<"guard">>),
   Loads(<<"remask">>), Loads(<<"regrid">>), Loads(<<"deep">>), Loads(<<"xlma_stat">>),
   Loads(<<"cell_volume_stats">>),
   Loads(<<"absent">>),
   DeepMerge(Radar, [dl_start |-> "t1", end |-> "t2"]),
   DeepMerge(Radar, [start |-> "t1", end |-> "t2", steps |-> 12, excludes |-> {"velocity"}]),
   DeepMerge(Radar, [dl_mode |-> "historical"]),
   DeepMerge(Radar, [gl_field |-> "kdp"]),
   DeepMerge(Radar, [rd_kept |-> {"velocity"}]),
   DeepMerge(Written, [dl_radar |-> "KLOT", dl_start |-> "t1", dl_end |-> "t2"]),
   DeepMerge(Radar, [modules |-> {"ingest", "detection"}])}

Store == [radar |-> "KVNX", base_dir |-> "disk"]
MCFlags ==
  {Empty, Store, [radar |-> "KVNX"], [start |-> "t3"],
   [radar |-> "KVNX", start |-> "t3", end |-> "t4"],
   [radar |-> "KVNX", mode |-> "realtime", end |-> "t4"],
   DeepMerge(Store, [mode |-> "historical"]),
   DeepMerge(Store, [run_id |-> "r"]),
   DeepMerge(Store, [only |-> {"ingest", "detection", "projection"}]),
   DeepMerge(Store, [exclude |-> {"cell_volume_stats"}]),
   DeepMerge(Store, [exclude |-> {"detection"}]),
   DeepMerge(Store, [only |-> {"radar"}])}

MCPostRequests == {{"xlma_stat"}, {"tracking"}}

(* What the theorems on histories and selections ask of the extensions.     *)
ASSUME MCExtensionsFit == HistoryContracts /\ SelectionContracts
=============================================================================
