------------------------------ MODULE RunConfig ------------------------------
(***************************************************************************)
(* How one launch of the pipeline finds its configuration: expert defaults, *)
(* the user's file and the command line's flags are merged in that order,   *)
(* the mode is inferred from the times, and the result is validated         *)
(* (configuration/schemas).                                                *)
(*                                                                         *)
(* A source of settings is a partial function: a setting it does not give   *)
(* (or gives as None) is outside its domain.  A nested section of the       *)
(* merged tree is flattened into one setting per leaf, so that merging two  *)
(* trees is overriding one function by another.  dl_mode is                 *)
(* downloader.mode, the copy of the mode acquisition reads; field,          *)
(* whitelist and kept are global.tracking_field, analyzer.radar_variables   *)
(* and reader.fields; steps is projector.max_projection_steps.              *)
(***************************************************************************)
EXTENDS Naturals, FiniteSets, FiniteSetsExt

None == "none"
StepCap == 10

DeepMerge(base, override) ==
  [k \in DOMAIN base \cup DOMAIN override |->
     IF k \in DOMAIN override THEN override[k] ELSE base[k]]

(* downloader.mode is not among the defaults: resolve_config adds it.       *)
ParamDefaults ==
  [mode |-> "realtime", radar |-> None, output_dir |-> None, start |-> None,
   end |-> None, field |-> "reflectivity", whitelist |-> {"reflectivity", "velocity"},
   kept |-> {}, excludes |-> {"roi"}, steps |-> 5]

(* What InternalConfig adds for settings none of the sources gave; modules, *)
(* only and exclude (the three selections) stay outside the domain.         *)
InternalDefaults == [base_dir |-> None, extensions |-> <<>>]

-----------------------------------------------------------------------------
(* The user's file                                                         *)

UserInferred(f) ==
  LET whole == {"start", "end"} \subseteq DOMAIN f
      section == {"dl_start", "dl_end"} \subseteq DOMAIN f
  IN IF "mode" \notin DOMAIN f /\ (whole \/ section)
     THEN DeepMerge(f, [mode |-> "historical"]) ELSE f

(* Where a top-level key of the file ends, and where a key of a section     *)
(* ends: the sections are written over the top level.                       *)
FlatHome ==
  [mode |-> "mode", radar |-> "radar", start |-> "start", end |-> "end",
   base_dir |-> "base_dir", extensions |-> "extensions", modules |-> "modules",
   steps |-> "steps", whitelist |-> "whitelist", excludes |-> "excludes"]
SectionHome ==
  [dl_mode |-> "dl_mode", dl_radar |-> "radar", dl_start |-> "start",
   dl_end |-> "end", dl_output |-> "output_dir", gl_field |-> "field",
   an_whitelist |-> "whitelist", an_excludes |-> "excludes", pr_steps |-> "steps",
   rd_kept |-> "kept"]

Routed(f, home) ==
  LET given == DOMAIN f \cap DOMAIN home
  IN [p \in {home[k] : k \in given} |-> f[CHOOSE k \in given : home[k] = p]]

(* base_dir is also where the downloader writes.                            *)
WithOutput(o) ==
  IF "base_dir" \in DOMAIN o
  THEN DeepMerge(o, [output_dir |-> o.base_dir]) ELSE o

UserOverrides(f) ==
  DeepMerge(WithOutput(Routed(f, FlatHome)), Routed(f, SectionHome))

UserExcludes(f) ==
  UNION {f[k] : k \in DOMAIN f \cap {"excludes", "an_excludes"}}

-----------------------------------------------------------------------------
(* The command line                                                        *)

(* Mutant: the flags leave the inference to resolve_config.                 *)
CliUninferred(c) == c

CliInferred(c) ==
  IF "mode" \notin DOMAIN c /\ DOMAIN c \cap {"start", "end"} # {}
  THEN DeepMerge(c, [mode |-> "historical"]) ELSE c

CliOverrides(c) ==
  WithOutput([k \in DOMAIN c \ {"run_id"} |-> c[k]])

-----------------------------------------------------------------------------
(* resolve_config                                                          *)

(* Excluded fields are amended, not replaced.                               *)
WithExcludes(m, f) ==
  IF UserExcludes(f) = {} THEN m
  ELSE [m EXCEPT !.excludes = ParamDefaults.excludes \cup UserExcludes(f)]

WithMode(m, f, c) ==
  IF "mode" \notin DOMAIN f \cup DOMAIN c /\ (m.start # None \/ m.end # None)
  THEN [m EXCEPT !.mode = "historical"] ELSE m

WithCap(m) == [m EXCEPT !.steps = Min({@, StepCap})]

(* Mutant: the downloader's mode defaults instead of following the run's.   *)
WithDownloaderDefault(m) ==
  IF "dl_mode" \in DOMAIN m THEN m ELSE DeepMerge(m, [dl_mode |-> ParamDefaults.mode])

WithDownloaderMode(m) ==
  IF "dl_mode" \in DOMAIN m THEN m ELSE DeepMerge(m, [dl_mode |-> m.mode])

Merged(file, flags) ==
  LET f == UserInferred(file)
      c == CliInferred(flags)
      m == DeepMerge(DeepMerge(ParamDefaults, UserOverrides(f)), CliOverrides(c))
  IN DeepMerge(InternalDefaults, WithDownloaderMode(WithCap(
       WithMode(WithExcludes(m, f), f, c))))

(* Why the merged settings are refused, or None.                            *)
Refusal(m) ==
  IF m.radar = None \/ m.base_dir = None \/ m.output_dir = None THEN "incomplete"
  ELSE IF m.dl_mode = "historical" /\ m.start = None THEN "no_start"
  ELSE IF m.dl_mode = "historical" /\ m.end = None THEN "no_end"
  ELSE IF m.field \notin m.whitelist THEN "field"
  ELSE IF m.kept # {} /\ m.field \notin m.kept THEN "kept"
  ELSE None

Resolve(file, flags) ==
  LET m == Merged(file, flags)
  IN [why |-> Refusal(m), config |-> m]

-----------------------------------------------------------------------------
(* The file write_default_config leaves behind: every default of            *)
(* ParamConfig (a null one is absent once loaded), every registered module  *)
(* and the folder it stands in.                                             *)
DefaultFile(dir, registered) ==
  [base_dir |-> dir, modules |-> registered, mode |-> ParamDefaults.mode,
   gl_field |-> ParamDefaults.field, an_whitelist |-> ParamDefaults.whitelist,
   an_excludes |-> ParamDefaults.excludes, pr_steps |-> ParamDefaults.steps,
   rd_kept |-> ParamDefaults.kept]
=============================================================================
