------------------------ MODULE PipelineAssemblyProofs ------------------------
(***************************************************************************)
(* What holds of a launch and its scans for any extensions, files, flags,  *)
(* requests, bounds and faults.                                            *)
(*                                                                         *)
(* The executor's promises are carried by what it keeps from node to node: *)
(* what is done has run for this scan, and under every key it gives the    *)
(* context holds its own value.  From group to group, what has run is of a *)
(* group that is behind, so no module of the next one has run; what the    *)
(* groups behind gave is in the scan's result, so nothing an enabled       *)
(* module of theirs gives is missing, and the history has the segmentation *)
(* of every scan in it or of none.                                         *)
(***************************************************************************)
EXTENDS PipelineAssembly, FiniteSetTheorems, SequenceTheorems, WellFoundedInduction, TLAPS

(***************************************************************************)
(* Numbers, merges and declarations                                        *)
(***************************************************************************)
(* A set of naturals has a least member, and Min is it.                     *)
LEMMA LeastOfNaturals ==
  ASSUME NEW S, S \subseteq Nat, S # {}
  PROVE  Min(S) \in S /\ \A k \in S : Min(S) <= k
<1> DEFINE R == OpToRel(<, Nat)
<1>1. IsWellFoundedOn(R, Nat)
  BY NatLessThanWellFounded
<1>2. PICK x \in S : \A y \in S : ~ (<<y, x>> \in R)
  <2> HIDE DEF R
  <2> QED
    BY <1>1, WFMin
<1>3. \A y \in S : <<y, x>> \in R <=> y < x
  BY DEF OpToRel
<1> HIDE DEF R
<1>4. ASSUME NEW k \in S PROVE x <= k
  <2>1. ~ (k < x) /\ k \in Nat /\ x \in Nat
    BY <1>2, <1>3
  <2> QED
    BY <2>1
<1>5. \E y \in S : \A k \in S : y <= k
  BY <1>4
<1> QED
  BY <1>5 DEF Min

(* A merged tree has the settings of both, and the second's where both have *)
(* one.                                                                     *)
IsTree(m) == m = [k \in DOMAIN m |-> m[k]]
IsMerge(m, a, b) ==
  /\ IsTree(m) /\ DOMAIN m = DOMAIN a \cup DOMAIN b
  /\ \A k \in DOMAIN b : m[k] = b[k]
  /\ \A k \in DOMAIN a \ DOMAIN b : m[k] = a[k]

LEMMA MergeIs ==
  ASSUME NEW a, NEW b
  PROVE  IsMerge(DeepMerge(a, b), a, b)
BY DEF DeepMerge, IsMerge, IsTree

(* The shipped modules keep their declarations whatever the extensions are. *)
LEMMA CoreDecls ==
  /\ DOMAIN CoreDecl \cup {"xlma_stat"} \cup DOMAIN ExtensionDecl = Modules
  /\ \A m \in DOMAIN CoreDecl : Decl(m) = CoreDecl[m]
  /\ Decl("xlma_stat") = XlmaStat
  /\ \A e \in DOMAIN ExtensionDecl : Decl(e) = ExtensionDecl[e]
<1> DEFINE Post == [xlma_stat |-> XlmaStat]
           Shipped == DeepMerge(CoreDecl, Post)
<1>1. DOMAIN CoreDecl = {"ingest", "detection", "projection", "analysis", "tracking",
                         "cell_volume_stats"}
  BY DEF CoreDecl
<1>2. DOMAIN Post = {"xlma_stat"} /\ Post["xlma_stat"] = XlmaStat
  OBVIOUS
<1> HIDE DEF Post
<1>3. /\ DOMAIN Shipped = DOMAIN CoreDecl \cup {"xlma_stat"}
      /\ Shipped["xlma_stat"] = XlmaStat
      /\ \A m \in DOMAIN CoreDecl : Shipped[m] = CoreDecl[m]
  <2>1. IsMerge(Shipped, CoreDecl, Post)
    BY MergeIs
  <2>2. "xlma_stat" \notin DOMAIN CoreDecl
    BY <1>1
  <2> HIDE DEF Shipped
  <2> QED
    BY <1>2, <2>1, <2>2 DEF IsMerge
<1> HIDE DEF Shipped
<1>4. IsMerge(AllDecl, Shipped, ExtensionDecl)
  BY MergeIs DEF AllDecl, Shipped, Post
<1> QED
  BY <1>3, <1>4, ExtensionsAssumption DEF Decl, Modules, IsMerge

LEMMA HistoryTyped == \A m \in Modules : Decl(m).history \in Nat \ {0}
<1>1. \A m \in DOMAIN CoreDecl : CoreDecl[m].history \in Nat \ {0}
  BY DEF CoreDecl, Ingest, Detection, Projection, Analysis, Tracking, CellVolumeStats
<1> QED
  BY <1>1, CoreDecls, ExtensionsAssumption DEF XlmaStat

-----------------------------------------------------------------------------
(***************************************************************************)
(* Types                                                                   *)
(***************************************************************************)
Contexts == UNION {[K -> {"base"} \cup Modules] : K \in SUBSET AllKeys}
Registries == UNION {[R -> Nat \ {0}] : R \in SUBSET Modules}

Execs == [nodes : SUBSET Modules, at : Nat \ {0}, done : SUBSET Modules, moved : BOOLEAN,
          rounds : Nat, ctx : Contexts]
Scans == [no : 0 .. MaxScans, near : BOOLEAN, cells : BOOLEAN, left : SUBSET Nat,
          result : Contexts, held : SUBSET Nat, committed : BOOLEAN]
Entries == [module : Modules, saw : Contexts]
Pasts == [no : Nat, keys : SUBSET AllKeys, held : SUBSET Nat]

LiveOnly == {"recorded", "ready", "groups", "running", "persist", "enrich", "enriching", "stopped"}
PostOnly == {"posting", "posted"}
Either == {"configured", "registered", "selected", "refused"}

HereFile == DefaultFile("cwd", ToSet(CoreModules))

(* What a launch is while it lasts, and what launches leave behind.         *)
LaunchTyped ==
  /\ pc \in {"off"} \cup LiveOnly \cup PostOnly \cup Either
  /\ launch = [kind |-> launch.kind, file |-> launch.file, flags |-> launch.flags,
               fresh |-> launch.fresh, config |-> launch.config, why |-> launch.why]
  /\ launch.fresh \in BOOLEAN /\ launches \in 0 .. MaxLaunches
  /\ cwd \subseteq {HereFile}
  /\ \A c \in saved : c.extensions \in Seq(STRING)
  /\ pc = "off" => launch = NoLaunch
  /\ pc \in LiveOnly => launch.kind = "live"
  /\ pc \in PostOnly => launch.kind = "post"
  /\ pc \in Either => launch.kind \in {"live", "post"}
  /\ launch.kind = "live" => launch.config.extensions \in Seq(STRING)
LEMMA ContextIs ==
  ASSUME NEW c \in Contexts
  PROVE  /\ DOMAIN c \subseteq AllKeys
         /\ \A k \in DOMAIN c : c[k] \in {"base"} \cup Modules
         /\ c = [k \in DOMAIN c |-> c[k]]
BY DEF Contexts

LEMMA IsContext ==
  ASSUME NEW K, K \subseteq AllKeys, NEW c \in [K -> {"base"} \cup Modules]
  PROVE  c \in Contexts
BY DEF Contexts

LEMMA MergeTyped ==
  ASSUME NEW a \in Contexts, NEW b \in Contexts
  PROVE  DeepMerge(a, b) \in Contexts
<1> DEFINE K == DOMAIN a \cup DOMAIN b
<1>1. K \subseteq AllKeys
  BY ContextIs
<1>2. \A k \in K : (IF k \in DOMAIN b THEN b[k] ELSE a[k]) \in {"base"} \cup Modules
  BY ContextIs
<1>3. DeepMerge(a, b) \in [K -> {"base"} \cup Modules]
  BY <1>2 DEF DeepMerge
<1> QED
  BY <1>1, <1>3, IsContext

LEMMA GivenTyped ==
  ASSUME NEW K, K \subseteq AllKeys
  PROVE  Given(K) \in Contexts /\ DOMAIN Given(K) = K /\ \A k \in K : Given(K)[k] = "base"
<1>1. Given(K) \in [K -> {"base"} \cup Modules]
  BY DEF Given
<1> QED
  BY <1>1, IsContext DEF Given

LEMMA EmptyTyped == Empty \in Contexts /\ DOMAIN Empty = {} /\ Empty \in Registries
<1>1. Empty \in [{} -> {"base"} \cup Modules] /\ Empty \in [{} -> Nat \ {0}]
  BY DEF Empty
<1> QED
  BY <1>1, IsContext DEF Registries, Empty

LEMMA KeysKnown ==
  /\ ScanKeys \subseteq AllKeys /\ {"run_id", "grid_ds_3d", "scan_history"} \subseteq AllKeys
  /\ \A m \in Modules : Decl(m).needs \cup Decl(m).gives \cup {Decl(m).config} \subseteq AllKeys
<1> DEFINE KeysOf(m) == Decl(m).needs \cup Decl(m).gives \cup {Decl(m).config}
<1>1. AllKeys = (UNION {KeysOf(m) : m \in Modules})
                  \cup ScanKeys \cup {"run_id", "grid_ds_3d", "scan_history"}
  BY DEF AllKeys, Names, Modules
<1>2. \A m \in Modules : KeysOf(m) \in {KeysOf(x) : x \in Modules}
  OBVIOUS
<1> HIDE DEF KeysOf
<1> DEFINE All == {KeysOf(x) : x \in Modules}
<1> HIDE DEF All
<1>3. AllKeys = (UNION All) \cup ScanKeys \cup {"run_id", "grid_ds_3d", "scan_history"}
  BY <1>1 DEF All
<1>4. \A m \in Modules : KeysOf(m) \in All
  BY <1>2 DEF All
<1>5. \A m \in Modules : KeysOf(m) \subseteq AllKeys
  BY <1>3, <1>4
<1>6. \A k \in ScanKeys : k \in AllKeys
  BY <1>3
<1>7. "run_id" \in AllKeys /\ "grid_ds_3d" \in AllKeys /\ "scan_history" \in AllKeys
  BY <1>3
<1> QED
  BY <1>5, <1>6, <1>7 DEF KeysOf

LEMMA RegistryIs ==
  ASSUME registry \in Registries
  PROVE  DOMAIN registry \subseteq Modules /\ \A m \in DOMAIN registry : registry[m] \in Nat \ {0}
BY DEF Registries

LEMMA BaseTyped ==
  ASSUME registry \in Registries
  PROVE  /\ ConfigKeys \subseteq AllKeys
         /\ BaseContext \in Contexts /\ DOMAIN BaseContext = ScanKeys \cup ConfigKeys
         /\ \A k \in ScanKeys \cup ConfigKeys : BaseContext[k] = "base"
<1>1. ConfigKeys \subseteq AllKeys
  BY RegistryIs, KeysKnown DEF ConfigKeys
<1>2. ScanKeys \cup ConfigKeys \subseteq AllKeys
  BY <1>1, KeysKnown
<1> QED
  BY <1>1, <1>2, GivenTyped DEF BaseContext

(* NextGroup is the least history whose group is still to come.             *)
LEMMA NextGroupIs ==
  ASSUME scan.left \subseteq Nat, scan.left # {}
  PROVE  NextGroup \in scan.left /\ NextGroup \in Nat /\ \A h \in scan.left : NextGroup <= h
BY LeastOfNaturals DEF NextGroup

LEMMA GroupsTyped ==
  ASSUME NEW mods, mods \subseteq Modules
  PROVE  /\ Histories(mods) \subseteq Nat \ {0}
         /\ PostGraph(mods) \subseteq mods
         /\ \A h : Graph(mods, h) \subseteq mods
BY HistoryTyped DEF Histories, InPipeline, PostGraph, Graph

(* The entries handed to a group of history h: the last h - 1.              *)
LEMMA PriorIs ==
  ASSUME history \in Seq(Pasts), NEW h \in Nat \ {0}, Len(history) >= h - 1
  PROVE  /\ DOMAIN Prior(h) = 1 .. (h - 1)
         /\ \A i \in 1 .. (h - 1) : \E j \in DOMAIN history : Prior(h)[i] = history[j]
         /\ \A i \in DOMAIN Prior(h) : Prior(h)[i] \in Pasts
<1>1. Len(history) \in Nat /\ DOMAIN history = 1 .. Len(history)
  BY LenProperties
<1> DEFINE m == Len(history) - (h - 1) + 1
           n == Len(history)
<1>2. m \in 1 .. n + 1 /\ n \in m - 1 .. n /\ (m <= n => m \in 1 .. n)
  BY <1>1
<1>3. Prior(h) = SubSeq(history, m, n)
  BY DEF Prior
<1>4. Prior(h) = [i \in 1 .. (1 + n - m) |-> history[i + m - 1]]
  BY <1>3
<1>5. 1 + n - m = h - 1 /\ \A i \in 1 .. (h - 1) : i + m - 1 \in 1 .. n
  BY <1>1
<1>6. \A i \in 1 .. (h - 1) : Prior(h)[i] = history[i + m - 1]
  BY <1>4, <1>5
<1>7. \A i \in 1 .. n : history[i] \in Pasts
  BY <1>1, ElementOfSeq
<1>8. DOMAIN Prior(h) = 1 .. (h - 1)
  BY <1>3, <1>4, <1>5
<1> HIDE DEF m, n
<1>9. \A i \in 1 .. (h - 1) : \E j \in DOMAIN history : Prior(h)[i] = history[j]
  BY <1>1, <1>5, <1>6 DEF n
<1> QED
  BY <1>1, <1>7, <1>8, <1>9 DEF n

-----------------------------------------------------------------------------
(***************************************************************************)
(* Settings                                                                *)
(***************************************************************************)
(* Every setting of what is routed comes from a key that was given.         *)
IsRouted(r, f, home) ==
  /\ DOMAIN r = {home[k] : k \in DOMAIN f \cap DOMAIN home}
  /\ \A p \in DOMAIN r : \E k \in DOMAIN f \cap DOMAIN home : home[k] = p /\ r[p] = f[k]

LEMMA RoutedIs ==
  ASSUME NEW f, NEW home
  PROVE  IsRouted(Routed(f, home), f, home)
<1> DEFINE given == DOMAIN f \cap DOMAIN home
<1>1. Routed(f, home) = [p \in {home[k] : k \in given} |-> f[CHOOSE k \in given : home[k] = p]]
  BY DEF Routed
<1>2. DOMAIN Routed(f, home) = {home[k] : k \in given}
  BY <1>1
<1>3. ASSUME NEW p \in DOMAIN Routed(f, home)
      PROVE  \E k \in given : home[k] = p /\ Routed(f, home)[p] = f[k]
  <2>1. \E k \in given : home[k] = p
    BY <1>2
  <2> DEFINE k0 == CHOOSE k \in given : home[k] = p
  <2>2. k0 \in given /\ home[k0] = p
    BY <2>1
  <2>3. Routed(f, home)[p] = f[k0]
    BY <1>1, <1>2
  <2> QED
    BY <2>2, <2>3
<1> QED
  BY <1>2, <1>3 DEF IsRouted

(* A top-level key keeps its name, and no two keys of sections end in one   *)
(* setting.                                                                 *)
LEMMA FlatIs ==
  ASSUME NEW f
  PROVE  /\ DOMAIN Routed(f, FlatHome) = DOMAIN f \cap DOMAIN FlatHome
         /\ \A k \in DOMAIN f \cap DOMAIN FlatHome : Routed(f, FlatHome)[k] = f[k]
<1>1. \A k \in DOMAIN FlatHome : FlatHome[k] = k
  BY DEF FlatHome
<1> DEFINE R == Routed(f, FlatHome)
<1>2. IsRouted(R, f, FlatHome)
  BY RoutedIs
<1> HIDE DEF R
<1>3. DOMAIN R = DOMAIN f \cap DOMAIN FlatHome
  BY <1>1, <1>2 DEF IsRouted
<1>4. \A p \in DOMAIN R : R[p] = f[p]
  BY <1>1, <1>2 DEF IsRouted
<1> QED
  BY <1>3, <1>4 DEF R

LEMMA SectionIs ==
  ASSUME NEW f
  PROVE  /\ DOMAIN Routed(f, SectionHome) = {SectionHome[k] : k \in DOMAIN f \cap DOMAIN SectionHome}
         /\ \A k \in DOMAIN f \cap DOMAIN SectionHome :
              Routed(f, SectionHome)[SectionHome[k]] = f[k]
<1>1. \A k, l \in DOMAIN SectionHome : SectionHome[k] = SectionHome[l] => k = l
  BY DEF SectionHome
<1> DEFINE R == Routed(f, SectionHome)
           G == DOMAIN f \cap DOMAIN SectionHome
<1>0. IsRouted(R, f, SectionHome)
  BY RoutedIs
<1> HIDE DEF R
<1>2. /\ DOMAIN R = {SectionHome[k] : k \in G}
      /\ \A p \in DOMAIN R : \E k \in G : SectionHome[k] = p /\ R[p] = f[k]
  BY <1>0 DEF IsRouted
<1>3. ASSUME NEW k \in G PROVE R[SectionHome[k]] = f[k]
  <2>1. SectionHome[k] \in DOMAIN R
    BY <1>2
  <2>2. PICK l \in G : SectionHome[l] = SectionHome[k] /\ R[SectionHome[k]] = f[l]
    BY <1>2, <2>1
  <2>3. l = k
    BY <1>1, <2>2
  <2> QED
    BY <2>2, <2>3
<1> QED
  BY <1>2, <1>3 DEF R

(* What UserConfig.to_internal_overrides makes of one setting p: the        *)
(* section's value, else the top level's, else base_dir for output_dir.     *)
LEMMA UserOverridesIs ==
  ASSUME NEW f
  PROVE  /\ IsTree(UserOverrides(f))
         /\ DOMAIN UserOverrides(f) =
              (DOMAIN f \cap DOMAIN FlatHome) \cup DOMAIN Routed(f, SectionHome)
                \cup (IF "base_dir" \in DOMAIN f THEN {"output_dir"} ELSE {})
         /\ \A p \in DOMAIN Routed(f, SectionHome) :
              UserOverrides(f)[p] = Routed(f, SectionHome)[p]
         /\ \A p \in (DOMAIN f \cap DOMAIN FlatHome) \ DOMAIN Routed(f, SectionHome) :
              UserOverrides(f)[p] = f[p]
         /\ "base_dir" \in DOMAIN f /\ "output_dir" \notin DOMAIN Routed(f, SectionHome)
              => UserOverrides(f)["output_dir"] = f["base_dir"]
<1> DEFINE F == Routed(f, FlatHome)
           S == Routed(f, SectionHome)
           W == WithOutput(F)
<1>1. UserOverrides(f) = DeepMerge(W, S)
  BY DEF UserOverrides
<1>2. /\ DOMAIN F = DOMAIN f \cap DOMAIN FlatHome
      /\ \A k \in DOMAIN F : F[k] = f[k]
  BY FlatIs
<1>3. "base_dir" \in DOMAIN FlatHome /\ "output_dir" \notin DOMAIN FlatHome
  BY DEF FlatHome
<1> HIDE DEF F, S
<1>4. CASE "base_dir" \in DOMAIN f
  <2> DEFINE O == [output_dir |-> F.base_dir]
  <2>1. DOMAIN O = {"output_dir"} /\ O["output_dir"] = F.base_dir
    OBVIOUS
  <2>2. W = DeepMerge(F, O)
    BY <1>2, <1>3, <1>4 DEF WithOutput
  <2> HIDE DEF O, W
  <2>3. /\ DOMAIN W = DOMAIN F \cup {"output_dir"} /\ W["output_dir"] = F.base_dir
        /\ \A k \in DOMAIN F : W[k] = F[k]
    <3>1. IsMerge(W, F, O)
      BY <2>2, MergeIs
    <3>2. "output_dir" \notin DOMAIN F
      BY <1>2, <1>3
    <3> QED
      BY <2>1, <3>1, <3>2 DEF IsMerge
  <2>4. F.base_dir = f["base_dir"]
    BY <1>2, <1>3, <1>4
  <2> HIDE DEF O, W
  <2>5. IsMerge(UserOverrides(f), W, S)
    BY <1>1, MergeIs
  <2>6. IsTree(UserOverrides(f))
    BY <2>5 DEF IsMerge
  <2>7. DOMAIN UserOverrides(f) = DOMAIN F \cup DOMAIN S \cup {"output_dir"}
    BY <2>3, <2>5 DEF IsMerge
  <2>8. /\ \A k \in DOMAIN S : UserOverrides(f)[k] = S[k]
        /\ \A k \in DOMAIN F \ DOMAIN S : UserOverrides(f)[k] = f[k]
        /\ "output_dir" \notin DOMAIN S => UserOverrides(f)["output_dir"] = f["base_dir"]
    BY <1>2, <2>3, <2>4, <2>5 DEF IsMerge
  <2> QED
    BY <1>2, <1>4, <2>6, <2>7, <2>8 DEF S
<1>5. CASE "base_dir" \notin DOMAIN f
  <2>1. W = F
    BY <1>2, <1>5 DEF WithOutput
  <2>3. IsMerge(UserOverrides(f), F, S)
    BY <1>1, <2>1, MergeIs
  <2>4. IsTree(UserOverrides(f))
    BY <2>3 DEF IsMerge
  <2>5. DOMAIN UserOverrides(f) = DOMAIN F \cup DOMAIN S
    BY <2>3 DEF IsMerge
  <2>6. /\ \A k \in DOMAIN S : UserOverrides(f)[k] = S[k]
        /\ \A k \in DOMAIN F \ DOMAIN S : UserOverrides(f)[k] = f[k]
    BY <1>2, <2>3 DEF IsMerge
  <2> QED
    BY <1>2, <1>5, <2>4, <2>5, <2>6 DEF S
<1> QED
  BY <1>4, <1>5

(* The flags as settings: --run-id is none, and --base-dir is two.          *)
LEMMA CliOverridesIs ==
  ASSUME NEW c
  PROVE  /\ DOMAIN CliOverrides(c) = (DOMAIN c \ {"run_id"})
              \cup (IF "base_dir" \in DOMAIN c THEN {"output_dir"} ELSE {})
         /\ \A k \in DOMAIN c \ {"run_id", "output_dir"} : CliOverrides(c)[k] = c[k]
         /\ "base_dir" \in DOMAIN c => CliOverrides(c)["output_dir"] = c["base_dir"]
<1> DEFINE F == [k \in DOMAIN c \ {"run_id"} |-> c[k]]
<1>1. CliOverrides(c) = WithOutput(F)
  BY DEF CliOverrides
<1>2. DOMAIN F = DOMAIN c \ {"run_id"} /\ \A k \in DOMAIN F : F[k] = c[k]
  OBVIOUS
<1> HIDE DEF F
<1>4. CASE "base_dir" \in DOMAIN c
  <2> DEFINE O == [output_dir |-> F.base_dir]
  <2>1. DOMAIN O = {"output_dir"} /\ O["output_dir"] = F.base_dir
    OBVIOUS
  <2>2. CliOverrides(c) = DeepMerge(F, O)
    BY <1>1, <1>2, <1>4 DEF WithOutput
  <2> HIDE DEF O
  <2>3. IsMerge(CliOverrides(c), F, O)
    BY <2>2, MergeIs
  <2>4. F.base_dir = c["base_dir"]
    BY <1>2, <1>4
  <2> QED
    BY <1>2, <1>4, <2>1, <2>3, <2>4 DEF IsMerge
<1>5. CASE "base_dir" \notin DOMAIN c
  <2>1. CliOverrides(c) = F
    BY <1>1, <1>2, <1>5 DEF WithOutput
  <2> QED
    BY <1>2, <1>5, <2>1
<1> QED
  BY <1>4, <1>5

(* What the steps of resolve_config after the merge change: one setting     *)
(* each.                                                                    *)
Alters(n, m, k, v) ==
  /\ IsTree(n) /\ DOMAIN n = DOMAIN m \cup {k} /\ n[k] = v
  /\ \A l \in DOMAIN m \ {k} : n[l] = m[l]

LEMMA WithExcludesIs ==
  ASSUME NEW m, NEW f, IsTree(m), "excludes" \in DOMAIN m
  PROVE  Alters(WithExcludes(m, f), m, "excludes",
                IF UserExcludes(f) = {} THEN m["excludes"]
                ELSE ParamDefaults.excludes \cup UserExcludes(f))
<1> DEFINE v == ParamDefaults.excludes \cup UserExcludes(f)
<1>1. WithExcludes(m, f) = IF UserExcludes(f) = {} THEN m ELSE [m EXCEPT !["excludes"] = v]
  BY DEF WithExcludes
<1> HIDE DEF v
<1>2. CASE UserExcludes(f) = {}
  BY <1>1, <1>2 DEF Alters
<1>3. CASE UserExcludes(f) # {}
  BY <1>1, <1>3 DEF Alters, IsTree, v
<1> QED
  BY <1>2, <1>3

Untold(m, f, c) ==
  "mode" \notin DOMAIN f \cup DOMAIN c /\ (m["start"] # None \/ m["end"] # None)

LEMMA WithModeIs ==
  ASSUME NEW m, NEW f, NEW c, IsTree(m), "mode" \in DOMAIN m
  PROVE  Alters(WithMode(m, f, c), m, "mode", IF Untold(m, f, c) THEN "historical" ELSE m["mode"])
<1>1. WithMode(m, f, c) = IF Untold(m, f, c) THEN [m EXCEPT !["mode"] = "historical"] ELSE m
  BY DEF WithMode, Untold
<1>2. CASE Untold(m, f, c)
  BY <1>1, <1>2 DEF Alters, IsTree
<1>3. CASE ~Untold(m, f, c)
  BY <1>1, <1>3 DEF Alters
<1> QED
  BY <1>2, <1>3

LEMMA WithCapIs ==
  ASSUME NEW m, IsTree(m), "steps" \in DOMAIN m
  PROVE  Alters(WithCap(m), m, "steps", Min({m["steps"], StepCap}))
<1> DEFINE v == Min({m["steps"], StepCap})
<1>1. WithCap(m) = [m EXCEPT !["steps"] = v]
  BY DEF WithCap
<1> HIDE DEF v
<1> QED
  BY <1>1 DEF Alters, IsTree, v

LEMMA WithDownloaderModeIs ==
  ASSUME NEW m, IsTree(m)
  PROVE  Alters(WithDownloaderMode(m), m, "dl_mode",
                IF "dl_mode" \in DOMAIN m THEN m["dl_mode"] ELSE m["mode"])
<1>1. CASE "dl_mode" \in DOMAIN m
  BY <1>1 DEF Alters, WithDownloaderMode
<1>2. CASE "dl_mode" \notin DOMAIN m
  <2> DEFINE d == [dl_mode |-> m.mode]
  <2>1. DOMAIN d = {"dl_mode"} /\ d["dl_mode"] = m["mode"]
    OBVIOUS
  <2>2. WithDownloaderMode(m) = DeepMerge(m, d)
    BY <1>2 DEF WithDownloaderMode
  <2> HIDE DEF d
  <2>3. IsMerge(WithDownloaderMode(m), m, d)
    BY <2>2, MergeIs
  <2> QED
    BY <1>2, <2>1, <2>3 DEF IsMerge, Alters
<1> QED
  BY <1>1, <1>2

(* The three sources as one tree.                                           *)
Sources(file, flags) ==
  DeepMerge(DeepMerge(ParamDefaults, UserOverrides(UserInferred(file))),
            CliOverrides(CliInferred(flags)))

(* A tree m has a setting of the flags c where they give it, else of the    *)
(* file u, else the default.                                                *)
AreSources(m, u, c) ==
  /\ IsTree(m)
  /\ DOMAIN m = DOMAIN ParamDefaults \cup DOMAIN u \cup DOMAIN c
  /\ \A k \in DOMAIN c : m[k] = c[k]
  /\ \A k \in DOMAIN u \ DOMAIN c : m[k] = u[k]
  /\ \A k \in DOMAIN ParamDefaults \ (DOMAIN u \cup DOMAIN c) : m[k] = ParamDefaults[k]

LEMMA SourcesIs ==
  ASSUME NEW file, NEW flags
  PROVE  AreSources(Sources(file, flags), UserOverrides(UserInferred(file)),
                    CliOverrides(CliInferred(flags)))
<1> DEFINE u == UserOverrides(UserInferred(file))
           c == CliOverrides(CliInferred(flags))
           m == Sources(file, flags)
           n == DeepMerge(ParamDefaults, u)
<1>1. m = DeepMerge(n, c)
  BY DEF Sources
<1>2. IsMerge(n, ParamDefaults, u)
  BY MergeIs
<1> HIDE DEF n, m
<1>3. IsMerge(m, n, c)
  BY <1>1, MergeIs
<1> HIDE DEF u, c
<1>4. AreSources(m, u, c)
  BY <1>2, <1>3 DEF IsMerge, AreSources
<1> QED
  BY <1>4 DEF m, u, c

LEMMA ParamDefaultsIs ==
  /\ DOMAIN ParamDefaults = {"mode", "radar", "output_dir", "start", "end", "field", "whitelist",
                             "kept", "excludes", "steps"}
  /\ ParamDefaults["mode"] = "realtime" /\ ParamDefaults["start"] = None
  /\ ParamDefaults["end"] = None
  /\ DOMAIN InternalDefaults = {"base_dir", "extensions"}
  /\ InternalDefaults["base_dir"] = None /\ InternalDefaults["extensions"] = <<>>
BY DEF ParamDefaults, InternalDefaults

(* What resolve_config makes of the three sources.                          *)
IsResolved(r, m, f, c) ==
  /\ IsTree(r)
  /\ DOMAIN r = DOMAIN m \cup {"dl_mode", "base_dir", "extensions"}
  /\ \A k \in DOMAIN m \ {"excludes", "mode", "steps"} : r[k] = m[k]
  /\ r["mode"] = IF Untold(m, f, c) THEN "historical" ELSE m["mode"]
  /\ r["excludes"] = IF UserExcludes(f) = {} THEN m["excludes"]
                     ELSE ParamDefaults.excludes \cup UserExcludes(f)
  /\ r["steps"] = Min({m["steps"], StepCap})
  /\ "dl_mode" \notin DOMAIN m => r["dl_mode"] = r["mode"]
  /\ "base_dir" \notin DOMAIN m => r["base_dir"] = None
  /\ "extensions" \notin DOMAIN m => r["extensions"] = <<>>

LEMMA MergedIs ==
  ASSUME NEW file, NEW flags
  PROVE  IsResolved(Merged(file, flags), Sources(file, flags), UserInferred(file),
                    CliInferred(flags))
<1> DEFINE f == UserInferred(file)
           c == CliInferred(flags)
           m == Sources(file, flags)
           m1 == WithExcludes(m, f)
           m2 == WithMode(m1, f, c)
           m3 == WithCap(m2)
           m4 == WithDownloaderMode(m3)
           r == Merged(file, flags)
           v1 == IF UserExcludes(f) = {} THEN m["excludes"]
                 ELSE ParamDefaults.excludes \cup UserExcludes(f)
           v2 == IF Untold(m1, f, c) THEN "historical" ELSE m1["mode"]
           v3 == Min({m2["steps"], StepCap})
           v4 == IF "dl_mode" \in DOMAIN m3 THEN m3["dl_mode"] ELSE m3["mode"]
<1>1. r = DeepMerge(InternalDefaults, m4)
  BY DEF Merged, Sources
<1>2. IsTree(m) /\ DOMAIN ParamDefaults \subseteq DOMAIN m
  BY SourcesIs DEF AreSources
<1>3. {"excludes", "mode", "steps"} \subseteq DOMAIN m
  BY <1>2, ParamDefaultsIs
<1> HIDE DEF m
<1>4. Alters(m1, m, "excludes", v1)
  BY <1>2, <1>3, WithExcludesIs
<1> HIDE DEF m1, v1
<1>5. IsTree(m1) /\ "mode" \in DOMAIN m1 /\ "steps" \in DOMAIN m1
  BY <1>3, <1>4 DEF Alters
<1>6. Alters(m2, m1, "mode", v2)
  BY <1>5, WithModeIs
<1> HIDE DEF m2, v2
<1>7. IsTree(m2) /\ "steps" \in DOMAIN m2
  BY <1>5, <1>6 DEF Alters
<1>8. Alters(m3, m2, "steps", v3)
  BY <1>7, WithCapIs
<1> HIDE DEF m3, v3
<1>9. IsTree(m3)
  BY <1>8 DEF Alters
<1>10. Alters(m4, m3, "dl_mode", v4)
  BY <1>9, WithDownloaderModeIs
<1> HIDE DEF m4, v4
<1>11. IsMerge(r, InternalDefaults, m4)
  BY <1>1, MergeIs
<1> HIDE DEF r
<1>12. /\ DOMAIN m1 = DOMAIN m /\ DOMAIN m2 = DOMAIN m /\ DOMAIN m3 = DOMAIN m
       /\ DOMAIN m4 = DOMAIN m \cup {"dl_mode"}
  BY <1>3, <1>4, <1>6, <1>8, <1>10 DEF Alters
<1>13. Untold(m1, f, c) = Untold(m, f, c) /\ m1["mode"] = m["mode"] /\ m2["steps"] = m["steps"]
  <2>1. {"start", "end"} \subseteq DOMAIN m
    BY <1>2, ParamDefaultsIs
  <2>2. m1["start"] = m["start"] /\ m1["end"] = m["end"] /\ m1["mode"] = m["mode"]
    BY <1>3, <1>4, <2>1 DEF Alters
  <2>3. m2["steps"] = m1["steps"] /\ m1["steps"] = m["steps"]
    BY <1>3, <1>4, <1>6, <1>12 DEF Alters
  <2> QED
    BY <2>2, <2>3 DEF Untold
<1>14. /\ IsTree(r) /\ DOMAIN r = DOMAIN m \cup {"dl_mode", "base_dir", "extensions"}
       /\ \A k \in DOMAIN m4 : r[k] = m4[k]
  BY <1>11, <1>12, ParamDefaultsIs DEF IsMerge
<1>15. \A k \in DOMAIN m \ {"dl_mode"} : r[k] = m3[k]
  BY <1>10, <1>12, <1>14 DEF Alters
<1>16. \A k \in DOMAIN m \ {"excludes", "mode", "steps", "dl_mode"} : r[k] = m[k]
  BY <1>4, <1>6, <1>8, <1>12, <1>15 DEF Alters
<1>17. "dl_mode" \in DOMAIN m => r["dl_mode"] = m["dl_mode"]
  <2>1. "dl_mode" \in DOMAIN m => r["dl_mode"] = m3["dl_mode"]
    BY <1>10, <1>12, <1>14 DEF Alters, v4
  <2> QED
    BY <2>1, <1>4, <1>6, <1>8, <1>12 DEF Alters
<1>18. r["excludes"] = v1
  BY <1>3, <1>4, <1>6, <1>8, <1>12, <1>15 DEF Alters
<1>19. r["mode"] = v2
  BY <1>3, <1>6, <1>8, <1>12, <1>15 DEF Alters
<1>20. r["steps"] = v3
  BY <1>3, <1>8, <1>12, <1>15 DEF Alters
<1>21. "dl_mode" \notin DOMAIN m => r["dl_mode"] = r["mode"]
  <2> SUFFICES ASSUME "dl_mode" \notin DOMAIN m PROVE r["dl_mode"] = r["mode"]
    OBVIOUS
  <2>1. r["dl_mode"] = m3["mode"]
    BY <1>10, <1>12, <1>14 DEF Alters, v4
  <2> QED
    BY <2>1, <1>3, <1>15
<1>22. /\ "base_dir" \notin DOMAIN m => r["base_dir"] = None
       /\ "extensions" \notin DOMAIN m => r["extensions"] = <<>>
  BY <1>11, <1>12, ParamDefaultsIs DEF IsMerge
<1>23. /\ v2 = IF Untold(m, f, c) THEN "historical" ELSE m["mode"]
       /\ v3 = Min({m["steps"], StepCap})
  BY <1>13 DEF v2, v3
<1> QED
  BY <1>14, <1>16, <1>17, <1>18, <1>19, <1>20, <1>21, <1>22, <1>23
  DEF r, m, v1, IsResolved

CliKeys == {"mode", "radar", "base_dir", "start", "end", "run_id", "only", "exclude"}
SectionHomes == {"dl_mode", "radar", "start", "end", "output_dir", "field", "whitelist",
                 "excludes", "steps", "kept"}

LEMMA SectionRange ==
  ASSUME NEW f
  PROVE  DOMAIN Routed(f, SectionHome) \subseteq SectionHomes
<1>1. \A k \in DOMAIN SectionHome : SectionHome[k] \in SectionHomes
  BY DEF SectionHome, SectionHomes
<1> DEFINE R == Routed(f, SectionHome)
<1>2. IsRouted(R, f, SectionHome)
  BY RoutedIs
<1> HIDE DEF R
<1>3. DOMAIN R \subseteq SectionHomes
  BY <1>1, <1>2 DEF IsRouted
<1> QED
  BY <1>3 DEF R

(* The mode is the only setting an inference adds.                          *)
LEMMA CliInferredIs ==
  ASSUME NEW c
  PROVE  LET d == CliInferred(c)
         IN /\ DOMAIN c \subseteq DOMAIN d /\ DOMAIN d \subseteq DOMAIN c \cup {"mode"}
            /\ \A k \in DOMAIN c : d[k] = c[k]
            /\ "mode" \notin DOMAIN c =>
                 IF DOMAIN c \cap {"start", "end"} # {}
                 THEN "mode" \in DOMAIN d /\ d["mode"] = "historical" ELSE "mode" \notin DOMAIN d
<1> DEFINE h == [mode |-> "historical"]
<1>1. DOMAIN h = {"mode"} /\ h["mode"] = "historical"
  OBVIOUS
<1>2. CliInferred(c) = IF "mode" \notin DOMAIN c /\ DOMAIN c \cap {"start", "end"} # {}
                       THEN DeepMerge(c, h) ELSE c
  BY DEF CliInferred
<1>3. IsMerge(DeepMerge(c, h), c, h)
  BY MergeIs
<1> HIDE DEF h
<1> QED
  BY <1>1, <1>2, <1>3 DEF IsMerge

LEMMA UserInferredIs ==
  ASSUME NEW f
  PROVE  LET d == UserInferred(f)
         IN /\ DOMAIN f \subseteq DOMAIN d /\ DOMAIN d \subseteq DOMAIN f \cup {"mode"}
            /\ \A k \in DOMAIN f : d[k] = f[k]
            /\ "mode" \in DOMAIN d \ DOMAIN f => d["mode"] = "historical"
<1> DEFINE h == [mode |-> "historical"]
<1>1. DOMAIN h = {"mode"} /\ h["mode"] = "historical"
  OBVIOUS
<1>2. (UserInferred(f) = DeepMerge(f, h) /\ "mode" \notin DOMAIN f) \/ UserInferred(f) = f
  BY DEF UserInferred
<1>3. IsMerge(DeepMerge(f, h), f, h)
  BY MergeIs
<1> HIDE DEF h
<1> QED
  BY <1>1, <1>2, <1>3 DEF IsMerge

LEMMA ExtensionsTyped ==
  ASSUME NEW file, "extensions" \in DOMAIN file => file["extensions"] \in Seq(STRING),
         NEW flags, DOMAIN flags \subseteq CliKeys
  PROVE  Merged(file, flags).extensions \in Seq(STRING)
<1> DEFINE f == UserInferred(file)
           d == CliInferred(flags)
           u == UserOverrides(f)
           c == CliOverrides(d)
           s == Routed(f, SectionHome)
           m == Sources(file, flags)
           r == Merged(file, flags)
<1>1. "extensions" \in DOMAIN f => f["extensions"] \in Seq(STRING)
  BY UserInferredIs
<1>2. DOMAIN d \subseteq DOMAIN flags \cup {"mode"}
  BY CliInferredIs
<1>3. DOMAIN c \subseteq DOMAIN d \cup {"output_dir"}
  BY CliOverridesIs
<1>4. /\ DOMAIN u = (DOMAIN f \cap DOMAIN FlatHome) \cup DOMAIN s
           \cup (IF "base_dir" \in DOMAIN f THEN {"output_dir"} ELSE {})
      /\ \A p \in (DOMAIN f \cap DOMAIN FlatHome) \ DOMAIN s : u[p] = f[p]
  BY UserOverridesIs
<1>5. "extensions" \notin DOMAIN s
  BY SectionRange DEF SectionHomes
<1>6. AreSources(m, u, c)
  BY SourcesIs
<1>7. IsResolved(r, m, f, d)
  BY MergedIs
<1> HIDE DEF f, d, u, c, s, m, r
<1>8. "extensions" \notin DOMAIN c
  BY <1>2, <1>3 DEF CliKeys
<1>9. "extensions" \in DOMAIN u => u["extensions"] \in Seq(STRING)
  BY <1>1, <1>4, <1>5
<1>10. "extensions" \in DOMAIN m => m["extensions"] \in Seq(STRING)
  BY <1>6, <1>8, <1>9, ParamDefaultsIs DEF AreSources
<1>11. /\ "extensions" \in DOMAIN m => r["extensions"] = m["extensions"]
       /\ "extensions" \notin DOMAIN m => r["extensions"] = <<>>
  BY <1>7 DEF IsResolved
<1>12. <<>> \in Seq(STRING)
  OBVIOUS
<1>13. r["extensions"] \in Seq(STRING)
  BY <1>10, <1>11, <1>12
<1> QED
  BY <1>13 DEF r

Timed(f) == \A k \in {"start", "end", "dl_start", "dl_end"} \cap DOMAIN f : f[k] # None

(* What one launch gets is what it asked for.                               *)
LEMMA AskedIs ==
  ASSUME NEW file, Timed(file), NEW flags, DOMAIN flags \subseteq CliKeys,
         Refusal(Merged(file, flags)) = None
  PROVE  LET r == Merged(file, flags)
         IN /\ \A k \in DOMAIN flags \ {"run_id"} : r[k] = flags[k]
            /\ "dl_mode" \notin DOMAIN file => r.dl_mode = r.mode
            /\ r.dl_mode = "historical" => r.start # None /\ r.end # None
            /\ (GivesTimes(file) \/ GivesTimes(flags))
                 /\ "mode" \notin DOMAIN file \cup DOMAIN flags => r.mode = "historical"
<1> DEFINE f == UserInferred(file)
           d == CliInferred(flags)
           u == UserOverrides(f)
           c == CliOverrides(d)
           s == Routed(f, SectionHome)
           m == Sources(file, flags)
           r == Merged(file, flags)
<1>1. /\ DOMAIN file \subseteq DOMAIN f /\ DOMAIN f \subseteq DOMAIN file \cup {"mode"}
      /\ \A k \in DOMAIN file : f[k] = file[k]
      /\ "mode" \in DOMAIN f \ DOMAIN file => f["mode"] = "historical"
  BY UserInferredIs
<1>2. /\ DOMAIN flags \subseteq DOMAIN d /\ DOMAIN d \subseteq DOMAIN flags \cup {"mode"}
      /\ \A k \in DOMAIN flags : d[k] = flags[k]
      /\ "mode" \notin DOMAIN flags =>
           IF DOMAIN flags \cap {"start", "end"} # {}
           THEN "mode" \in DOMAIN d /\ d["mode"] = "historical" ELSE "mode" \notin DOMAIN d
  BY CliInferredIs
<1>3. /\ DOMAIN c = (DOMAIN d \ {"run_id"})
           \cup (IF "base_dir" \in DOMAIN d THEN {"output_dir"} ELSE {})
      /\ \A k \in DOMAIN d \ {"run_id", "output_dir"} : c[k] = d[k]
  BY CliOverridesIs
<1>4. /\ DOMAIN u = (DOMAIN f \cap DOMAIN FlatHome) \cup DOMAIN s
           \cup (IF "base_dir" \in DOMAIN f THEN {"output_dir"} ELSE {})
      /\ \A p \in DOMAIN s : u[p] = s[p]
      /\ \A p \in (DOMAIN f \cap DOMAIN FlatHome) \ DOMAIN s : u[p] = f[p]
  BY UserOverridesIs
<1>5. /\ DOMAIN s = {SectionHome[k] : k \in DOMAIN f \cap DOMAIN SectionHome}
      /\ \A k \in DOMAIN f \cap DOMAIN SectionHome : s[SectionHome[k]] = f[k]
  BY SectionIs
<1>a. AreSources(m, u, c)
  BY SourcesIs
<1>b. IsResolved(r, m, f, d)
  BY MergedIs
<1> HIDE DEF f, d, u, c, s, m, r
<1>6. /\ DOMAIN m = DOMAIN ParamDefaults \cup DOMAIN u \cup DOMAIN c
      /\ \A k \in DOMAIN c : m[k] = c[k]
      /\ \A k \in DOMAIN u \ DOMAIN c : m[k] = u[k]
      /\ \A k \in DOMAIN ParamDefaults \ (DOMAIN u \cup DOMAIN c) : m[k] = ParamDefaults[k]
  BY <1>a DEF AreSources
<1>7. /\ DOMAIN r = DOMAIN m \cup {"dl_mode", "base_dir", "extensions"}
      /\ \A k \in DOMAIN m \ {"excludes", "mode", "steps"} : r[k] = m[k]
      /\ r["mode"] = IF Untold(m, f, d) THEN "historical" ELSE m["mode"]
      /\ "dl_mode" \notin DOMAIN m => r["dl_mode"] = r["mode"]
  BY <1>b DEF IsResolved
<1>8. \A k \in DOMAIN flags \ {"run_id"} : k \in DOMAIN c /\ c[k] = flags[k]
  BY <1>2, <1>3 DEF CliKeys
<1>9. \A k \in DOMAIN flags \ {"run_id"} : k \in DOMAIN m /\ m[k] = flags[k]
  BY <1>6, <1>8
<1>10. "mode" \in DOMAIN flags => r["mode"] = flags["mode"]
  BY <1>2, <1>7, <1>9 DEF Untold
<1>11. \A k \in DOMAIN flags \ {"run_id"} : r[k] = flags[k]
  BY <1>7, <1>9, <1>10 DEF CliKeys
<1>12. ASSUME "dl_mode" \notin DOMAIN file PROVE r["dl_mode"] = r["mode"]
  <2>1. "dl_mode" \notin DOMAIN f
    BY <1>1, <1>12
  <2>2. \A k \in DOMAIN SectionHome : SectionHome[k] = "dl_mode" => k = "dl_mode"
    BY DEF SectionHome
  <2>3. "dl_mode" \notin DOMAIN s
    BY <1>5, <2>1, <2>2
  <2>4. "dl_mode" \notin DOMAIN u
    BY <1>4, <2>1, <2>3
  <2>5. "dl_mode" \notin DOMAIN c
    BY <1>2, <1>3 DEF CliKeys
  <2> QED
    BY <1>6, <1>7, <2>4, <2>5, ParamDefaultsIs
<1>13. r["dl_mode"] = "historical" => r["start"] # None /\ r["end"] # None
  BY DEF Refusal, r, None
<1>14. ASSUME GivesTimes(file) \/ GivesTimes(flags),
              "mode" \notin DOMAIN file \cup DOMAIN flags
       PROVE  r["mode"] = "historical"
  <2>1. CASE "mode" \in DOMAIN d
    <3>1. d["mode"] = "historical" /\ c["mode"] = d["mode"] /\ "mode" \in DOMAIN c
      BY <1>2, <1>3, <1>14, <2>1
    <3> QED
      BY <1>6, <1>7, <2>1, <3>1 DEF Untold
  <2>2. CASE "mode" \notin DOMAIN d
    <3>1. "start" \notin DOMAIN flags /\ "end" \notin DOMAIN flags
      BY <1>2, <1>14, <2>2
    <3>2. PICK k \in {"start", "end", "dl_start", "dl_end"} : k \in DOMAIN file
      BY <1>14, <3>1 DEF GivesTimes, CliKeys
    <3>3. "mode" \notin DOMAIN c /\ "start" \notin DOMAIN c /\ "end" \notin DOMAIN c
      BY <1>2, <1>3, <2>2, <3>1
    <3>4. CASE "mode" \in DOMAIN f
      <4>1. f["mode"] = "historical" /\ "mode" \notin DOMAIN s
        BY <1>1, <1>14, <3>4, SectionRange DEF s, SectionHomes
      <4>2. "mode" \in DOMAIN u /\ u["mode"] = "historical"
        BY <1>4, <3>4, <4>1 DEF FlatHome
      <4> QED
        BY <1>6, <1>7, <3>3, <3>4, <4>2 DEF Untold
    <3>5. CASE "mode" \notin DOMAIN f
      <4>1. \A l \in {"start", "end", "dl_start", "dl_end"} \cap DOMAIN f : f[l] # None
        BY <1>1 DEF Timed
      <4>2. /\ "start" \in DOMAIN f => "start" \in DOMAIN u
            /\ "end" \in DOMAIN f => "end" \in DOMAIN u
        BY <1>4 DEF FlatHome
      <4>3. /\ SectionHome["dl_start"] = "start" /\ SectionHome["dl_end"] = "end"
            /\ {"dl_start", "dl_end"} \subseteq DOMAIN SectionHome
            /\ \A l \in DOMAIN SectionHome : /\ SectionHome[l] = "start" => l = "dl_start"
                                             /\ SectionHome[l] = "end" => l = "dl_end"
        BY DEF SectionHome
      <4>4. /\ "start" \in DOMAIN s <=> "dl_start" \in DOMAIN f
            /\ "end" \in DOMAIN s <=> "dl_end" \in DOMAIN f
        BY <1>5, <4>3
      <4>5. /\ "start" \in DOMAIN s => s["start"] = f["dl_start"]
            /\ "end" \in DOMAIN s => s["end"] = f["dl_end"]
        BY <1>5, <4>3, <4>4
      <4>6. "start" \in DOMAIN u => u["start"] # None
        BY <1>4, <4>1, <4>4, <4>5
      <4>7. "end" \in DOMAIN u => u["end"] # None
        BY <1>4, <4>1, <4>4, <4>5
      <4>8. "start" \in DOMAIN u \/ "end" \in DOMAIN u
        BY <1>1, <1>4, <3>2, <4>2, <4>4
      <4>9. m["start"] # None \/ m["end"] # None
        BY <1>6, <3>3, <4>6, <4>7, <4>8
      <4> QED
        BY <1>7, <2>2, <3>5, <4>9 DEF Untold
    <3> QED
      BY <3>4, <3>5
  <2> QED
    BY <2>1, <2>2
<1> QED
  BY <1>11, <1>12, <1>13, <1>14 DEF r

LEMMA HereFileIs ==
  /\ DOMAIN HereFile = {"base_dir", "modules", "mode", "gl_field", "an_whitelist", "an_excludes",
                        "pr_steps", "rd_kept"}
  /\ HereFile["mode"] = ParamDefaults["mode"] /\ HereFile["gl_field"] = ParamDefaults["field"]
  /\ HereFile["modules"] = ToSet(CoreModules) /\ HereFile["base_dir"] = "cwd"
  /\ HereFile["an_whitelist"] = ParamDefaults["whitelist"]
  /\ HereFile["an_excludes"] = ParamDefaults["excludes"]
  /\ HereFile["pr_steps"] = ParamDefaults["steps"] /\ HereFile["rd_kept"] = ParamDefaults["kept"]
BY DEF HereFile, DefaultFile

(* The file a first launch leaves says again what the defaults say.         *)
LEMMA HereOverrides ==
  LET u == UserOverrides(UserInferred(HereFile))
  IN /\ DOMAIN u = {"base_dir", "modules", "mode", "output_dir", "field", "whitelist", "excludes",
                    "steps", "kept"}
     /\ \A k \in {"mode", "field", "whitelist", "excludes", "steps", "kept"} :
          u[k] = ParamDefaults[k]
     /\ u["modules"] = ToSet(CoreModules)
     /\ UserInferred(HereFile) = HereFile /\ UserExcludes(HereFile) = ParamDefaults["excludes"]
<1> DEFINE f == HereFile
           u == UserOverrides(f)
           s == Routed(f, SectionHome)
<1>1. UserInferred(f) = f
  BY HereFileIs DEF UserInferred
<1>2. /\ DOMAIN u = (DOMAIN f \cap DOMAIN FlatHome) \cup DOMAIN s
           \cup (IF "base_dir" \in DOMAIN f THEN {"output_dir"} ELSE {})
      /\ \A p \in DOMAIN s : u[p] = s[p]
      /\ \A p \in (DOMAIN f \cap DOMAIN FlatHome) \ DOMAIN s : u[p] = f[p]
  BY UserOverridesIs
<1>3. /\ DOMAIN s = {SectionHome[k] : k \in DOMAIN f \cap DOMAIN SectionHome}
      /\ \A k \in DOMAIN f \cap DOMAIN SectionHome : s[SectionHome[k]] = f[k]
  BY SectionIs
<1> HIDE DEF u, s, f
<1>4. DOMAIN f \cap DOMAIN FlatHome = {"base_dir", "modules", "mode"}
  BY HereFileIs DEF f, FlatHome
<1>5. DOMAIN f \cap DOMAIN SectionHome
        = {"gl_field", "an_whitelist", "an_excludes", "pr_steps", "rd_kept"}
  BY HereFileIs DEF f, SectionHome
<1>6. /\ SectionHome["gl_field"] = "field" /\ SectionHome["an_whitelist"] = "whitelist"
      /\ SectionHome["an_excludes"] = "excludes" /\ SectionHome["pr_steps"] = "steps"
      /\ SectionHome["rd_kept"] = "kept"
  BY DEF SectionHome
<1>7. DOMAIN s = {"field", "whitelist", "excludes", "steps", "kept"}
  BY <1>3, <1>5, <1>6
<1>8. /\ s["field"] = f["gl_field"] /\ s["whitelist"] = f["an_whitelist"]
      /\ s["excludes"] = f["an_excludes"] /\ s["steps"] = f["pr_steps"]
      /\ s["kept"] = f["rd_kept"]
  BY <1>3, <1>5, <1>6
<1>9. DOMAIN u = {"base_dir", "modules", "mode", "output_dir", "field", "whitelist", "excludes",
                  "steps", "kept"}
  BY <1>2, <1>4, <1>7
<1>10. /\ \A k \in {"field", "whitelist", "excludes", "steps", "kept"} : u[k] = s[k]
       /\ u["mode"] = f["mode"] /\ u["modules"] = f["modules"]
  BY <1>2, <1>4, <1>7
<1>11. /\ \A k \in {"mode", "field", "whitelist", "excludes", "steps", "kept"} :
            u[k] = ParamDefaults[k]
       /\ u["modules"] = ToSet(CoreModules)
  BY <1>8, <1>10, HereFileIs DEF f
<1>12. UserExcludes(f) = ParamDefaults["excludes"]
  <2>1. DOMAIN f \cap {"excludes", "an_excludes"} = {"an_excludes"}
    BY HereFileIs DEF f
  <2>2. UserExcludes(f) = UNION {f[k] : k \in {"an_excludes"}}
    BY <2>1 DEF UserExcludes
  <2>3. UserExcludes(f) = f["an_excludes"]
    BY <2>2
  <2> QED
    BY <2>3, HereFileIs DEF f
<1> QED
  BY <1>1, <1>9, <1>11, <1>12 DEF u, f

LEMMA EmptyOverrides ==
  LET u == UserOverrides(UserInferred(Empty))
  IN DOMAIN u = {} /\ UserInferred(Empty) = Empty /\ UserExcludes(Empty) = {}
<1> DEFINE f == Empty
           u == UserOverrides(f)
           s == Routed(f, SectionHome)
<1>0. DOMAIN f = {}
  BY DEF Empty
<1>1. UserInferred(f) = f
  BY <1>0 DEF UserInferred
<1>2. DOMAIN u = (DOMAIN f \cap DOMAIN FlatHome) \cup DOMAIN s
           \cup (IF "base_dir" \in DOMAIN f THEN {"output_dir"} ELSE {})
  BY UserOverridesIs
<1>3. DOMAIN s = {SectionHome[k] : k \in DOMAIN f \cap DOMAIN SectionHome}
  BY SectionIs
<1> HIDE DEF u, s, f
<1>4. DOMAIN s = {} /\ DOMAIN u = {}
  BY <1>0, <1>2, <1>3
<1>5. UserExcludes(f) = {}
  BY <1>0 DEF UserExcludes
<1> QED
  BY <1>1, <1>4, <1>5 DEF u, f

(* Resolved with the file a first launch left behind, or from nothing as    *)
(* that launch was, the same flags come to the same.                        *)
LEMMA NeutralIs ==
  ASSUME NEW flags, DOMAIN flags \subseteq CliKeys, "base_dir" \in DOMAIN flags
  PROVE  LET r == Merged(HereFile, flags)
             b == Merged(Empty, flags)
             core == ToSet(CoreModules)
         IN /\ \A k \in DOMAIN b : r[k] = b[k]
            /\ Refusal(r) = Refusal(b)
            /\ EnabledNames(core, r) = EnabledNames(core, b)
<1> DEFINE f == HereFile
           d == CliInferred(flags)
           u == UserOverrides(f)
           c == CliOverrides(d)
           m == Sources(f, flags)
           n == Sources(Empty, flags)
           r == Merged(f, flags)
           b == Merged(Empty, flags)
           P == ParamDefaults
           core == ToSet(CoreModules)
<1>1. /\ DOMAIN u = {"base_dir", "modules", "mode", "output_dir", "field", "whitelist", "excludes",
                     "steps", "kept"}
      /\ \A k \in {"mode", "field", "whitelist", "excludes", "steps", "kept"} : u[k] = P[k]
      /\ u["modules"] = core
      /\ UserInferred(f) = f /\ UserExcludes(f) = P["excludes"]
  BY HereOverrides
<1>2. DOMAIN UserOverrides(Empty) = {} /\ UserInferred(Empty) = Empty /\ UserExcludes(Empty) = {}
  BY EmptyOverrides
<1>3. /\ DOMAIN flags \subseteq DOMAIN d /\ DOMAIN d \subseteq DOMAIN flags \cup {"mode"}
      /\ "mode" \notin DOMAIN flags =>
           IF DOMAIN flags \cap {"start", "end"} # {}
           THEN "mode" \in DOMAIN d /\ d["mode"] = "historical" ELSE "mode" \notin DOMAIN d
  BY CliInferredIs
<1>4. /\ DOMAIN c = (DOMAIN d \ {"run_id"})
           \cup (IF "base_dir" \in DOMAIN d THEN {"output_dir"} ELSE {})
      /\ \A k \in DOMAIN d \ {"run_id", "output_dir"} : c[k] = d[k]
  BY CliOverridesIs
<1>5. /\ DOMAIN m = DOMAIN P \cup DOMAIN u \cup DOMAIN c
      /\ \A k \in DOMAIN c : m[k] = c[k]
      /\ \A k \in DOMAIN u \ DOMAIN c : m[k] = u[k]
      /\ \A k \in DOMAIN P \ (DOMAIN u \cup DOMAIN c) : m[k] = P[k]
  <2>1. m = DeepMerge(DeepMerge(P, u), c)
    BY <1>1 DEF Sources
  <2> DEFINE q == DeepMerge(P, u)
  <2>2. IsMerge(q, P, u) /\ m = DeepMerge(q, c)
    BY <2>1, MergeIs
  <2> HIDE DEF q, m, c, u
  <2>3. IsMerge(m, q, c)
    BY <2>2, MergeIs
  <2> QED
    BY <2>2, <2>3 DEF IsMerge
<1>6. /\ DOMAIN n = DOMAIN P \cup DOMAIN c
      /\ \A k \in DOMAIN c : n[k] = c[k]
      /\ \A k \in DOMAIN P \ DOMAIN c : n[k] = P[k]
  <2> DEFINE e == UserOverrides(Empty)
             q == DeepMerge(P, e)
  <2>1. n = DeepMerge(q, c)
    BY <1>2 DEF Sources
  <2>2. IsMerge(q, P, e) /\ DOMAIN e = {}
    BY <1>2, MergeIs
  <2> HIDE DEF q, n, c, e
  <2>3. IsMerge(n, q, c)
    BY <2>1, MergeIs
  <2> QED
    BY <2>2, <2>3 DEF IsMerge
<1>7. IsResolved(r, m, f, d)
  BY <1>1, MergedIs
<1>8. IsResolved(b, n, Empty, d)
  BY <1>2, MergedIs
<1> HIDE DEF f, d, u, c, m, n, r, b
<1>9. {"base_dir", "output_dir"} \subseteq DOMAIN c /\ DOMAIN c \subseteq CliKeys \cup {"output_dir"}
  BY <1>3, <1>4 DEF CliKeys
<1>10. DOMAIN m = DOMAIN n \cup {"modules"} /\ \A k \in DOMAIN n : m[k] = n[k]
  BY <1>1, <1>5, <1>6, <1>9, ParamDefaultsIs DEF CliKeys
<1>11. m["modules"] = core /\ "modules" \notin DOMAIN n
  BY <1>1, <1>5, <1>6, <1>9, ParamDefaultsIs DEF CliKeys
<1>12. "dl_mode" \notin DOMAIN m /\ "extensions" \notin DOMAIN m /\ "base_dir" \in DOMAIN n
       /\ {"mode", "start", "end", "excludes", "steps"} \subseteq DOMAIN n
  BY <1>1, <1>5, <1>6, <1>9, ParamDefaultsIs DEF CliKeys
<1>13. /\ DOMAIN r = DOMAIN m \cup {"dl_mode", "extensions"}
       /\ DOMAIN b = DOMAIN n \cup {"dl_mode", "extensions"}
  BY <1>7, <1>8, <1>10, <1>12 DEF IsResolved
<1>14. r["mode"] = b["mode"]
  <2>1. ~Untold(m, f, d)
    BY HereFileIs DEF Untold, f
  <2>2. CASE "mode" \in DOMAIN d
    <3>1. ~Untold(n, Empty, d)
      BY <2>2 DEF Untold
    <3> QED
      BY <1>7, <1>8, <1>10, <1>12, <2>1, <3>1 DEF IsResolved
  <2>3. CASE "mode" \notin DOMAIN d
    <3>1. "start" \notin DOMAIN c /\ "end" \notin DOMAIN c
      BY <1>3, <1>4, <2>3
    <3>2. n["start"] = None /\ n["end"] = None
      BY <1>6, <3>1, ParamDefaultsIs
    <3>3. ~Untold(n, Empty, d)
      BY <3>2 DEF Untold
    <3> QED
      BY <1>7, <1>8, <1>10, <1>12, <2>1, <3>3 DEF IsResolved
  <2> QED
    BY <2>2, <2>3
<1>15. r["excludes"] = b["excludes"]
  <2>1. "excludes" \notin DOMAIN c
    BY <1>9 DEF CliKeys
  <2>2. m["excludes"] = P["excludes"] /\ n["excludes"] = P["excludes"]
    BY <1>6, <1>10, <1>12, <2>1, ParamDefaultsIs
  <2>3. b["excludes"] = n["excludes"]
    BY <1>2, <1>8 DEF IsResolved
  <2>4. r["excludes"] = IF P["excludes"] = {} THEN m["excludes"]
                        ELSE ParamDefaults.excludes \cup P["excludes"]
    BY <1>1, <1>7 DEF IsResolved
  <2>5. ParamDefaults.excludes \cup P["excludes"] = P["excludes"]
    OBVIOUS
  <2> QED
    BY <2>2, <2>3, <2>4, <2>5
<1>16. r["steps"] = b["steps"] /\ r["dl_mode"] = b["dl_mode"] /\ r["extensions"] = b["extensions"]
  BY <1>7, <1>8, <1>10, <1>12, <1>14 DEF IsResolved
<1>17. \A k \in DOMAIN n \ {"excludes", "mode", "steps"} : r[k] = b[k]
  BY <1>7, <1>8, <1>10 DEF IsResolved
<1>18. \A k \in DOMAIN b : r[k] = b[k]
  BY <1>13, <1>14, <1>15, <1>16, <1>17
<1>19. Refusal(r) = Refusal(b)
  <2>1. {"radar", "base_dir", "output_dir", "dl_mode", "start", "end", "field", "whitelist", "kept"}
          \subseteq DOMAIN b
    BY <1>6, <1>12, <1>13, ParamDefaultsIs
  <2>2. /\ r["radar"] = b["radar"] /\ r["base_dir"] = b["base_dir"]
        /\ r["output_dir"] = b["output_dir"] /\ r["dl_mode"] = b["dl_mode"]
        /\ r["start"] = b["start"] /\ r["end"] = b["end"] /\ r["field"] = b["field"]
        /\ r["whitelist"] = b["whitelist"] /\ r["kept"] = b["kept"]
    BY <1>18, <2>1
  <2> QED
    BY <2>2 DEF Refusal
<1>20. EnabledNames(core, r) = EnabledNames(core, b)
  <2>1. DOMAIN r = DOMAIN b \cup {"modules"} /\ "modules" \notin DOMAIN b
    BY <1>10, <1>11, <1>13
  <2>2. r["modules"] = core
    BY <1>7, <1>10, <1>11 DEF IsResolved
  <2>3. Named(r, "only") = Named(b, "only") /\ Named(r, "exclude") = Named(b, "exclude")
    BY <1>18, <2>1 DEF Named
  <2>4. "only" \in DOMAIN r <=> "only" \in DOMAIN b
    BY <2>1
  <2>5. Named(r, "only") # {} => r["only"] = b["only"]
    BY <1>18, <2>4 DEF Named
  <2> QED
    BY <2>1, <2>2, <2>3, <2>5 DEF EnabledNames
<1> QED
  BY <1>18, <1>19, <1>20 DEF r, b, f

-----------------------------------------------------------------------------
(***************************************************************************)
(* The launch                                                              *)
(***************************************************************************)
(* Importing a list of modules registers them, each with a place of the     *)
(* list.                                                                    *)
LEMMA RegisteredIs ==
  ASSUME NEW S, NEW p \in Seq(S), \A i \in DOMAIN p : p[i] \in Modules
  PROVE  LET r == Registered(p)
         IN /\ r \in Registries /\ DOMAIN r = {p[i] : i \in DOMAIN p}
            /\ IsFiniteSet(DOMAIN r) /\ \A m \in DOMAIN r : r[m] <= Len(p)
<1> DEFINE r == Registered(p)
           R == {p[i] : i \in DOMAIN p}
<1>1. Len(p) \in Nat /\ DOMAIN p = 1 .. Len(p)
  BY LenProperties
<1>2. r = [m \in R |-> Min({i \in DOMAIN p : p[i] = m})]
  BY DEF Registered, ToSet
<1>3. ASSUME NEW m \in R
      PROVE  Min({i \in DOMAIN p : p[i] = m}) \in DOMAIN p
  <2> DEFINE I == {i \in DOMAIN p : p[i] = m}
  <2>1. I \subseteq Nat /\ I # {}
    BY <1>1
  <2>2. Min(I) \in I
    BY <2>1, LeastOfNaturals
  <2> QED
    BY <2>2
<1>4. r \in [R -> DOMAIN p]
  BY <1>2, <1>3
<1>5. IsFiniteSet(R)
  <2> DEFINE f == [i \in 1 .. Len(p) |-> p[i]]
  <2>1. f \in Surjection(1 .. Len(p), R)
    BY <1>1 DEF Surjection
  <2> QED
    BY <1>1, <2>1, FS_NatSurjection DEF ExistsSurjection
<1> HIDE DEF r, R
<1>6. r \in [R -> Nat \ {0}] /\ R \subseteq Modules
  BY <1>1, <1>4 DEF R
<1> QED
  BY <1>1, <1>4, <1>5, <1>6 DEF Registries, r, R

LEMMA ListIs ==
  ASSUME NEW S, NEW a \in S, NEW b \in S, NEW c \in S, NEW d \in S, NEW e \in S, NEW f \in S
  PROVE  <<a>> \in Seq(S) /\ <<a, b, c, d, e, f>> \in Seq(S)
OBVIOUS

LEMMA JoinIs ==
  ASSUME NEW S, NEW b \in Seq(S), NEW e \in Seq(S)
  PROVE  /\ b \o e \in Seq(S) /\ Len(b \o e) = Len(b) + Len(e)
         /\ \A i \in 1 .. Len(b) : (b \o e)[i] = b[i]
BY ConcatProperties, LenProperties

(* The paths a launch may import.                                           *)
PathNames == STRING \cup {"xlma_stat"} \cup DOMAIN CoreDecl

LEMMA ShippedIs ==
  /\ DOMAIN CoreDecl = {"ingest", "detection", "projection", "analysis", "tracking",
                        "cell_volume_stats"}
  /\ CoreModules \in Seq(PathNames) /\ Len(CoreModules) = 6 /\ PostModules \in Seq(PathNames)
  /\ \A m \in DOMAIN CoreDecl : \E i \in 1 .. 6 : CoreModules[i] = m
  /\ \A i \in 1 .. 6 : CoreModules[i] \in DOMAIN CoreDecl
  /\ ToSet(CoreModules) = DOMAIN CoreDecl
<1>1. /\ DOMAIN CoreDecl = {"ingest", "detection", "projection", "analysis", "tracking",
                            "cell_volume_stats"}
      /\ CoreModules \in Seq(PathNames) /\ Len(CoreModules) = 6 /\ PostModules \in Seq(PathNames)
  <2>1. DOMAIN CoreDecl = {"ingest", "detection", "projection", "analysis", "tracking",
                           "cell_volume_stats"}
    BY DEF CoreDecl
  <2> DEFINE S == PathNames
  <2>2. /\ "ingest" \in S /\ "detection" \in S /\ "projection" \in S /\ "analysis" \in S
        /\ "tracking" \in S /\ "cell_volume_stats" \in S /\ "xlma_stat" \in S
    BY <2>1 DEF PathNames
  <2>3. Len(CoreModules) = 6
    BY DEF CoreModules
  <2> HIDE DEF S
  <2>4. <<"xlma_stat">> \in Seq(S) /\ <<"ingest", "detection", "projection", "analysis", "tracking",
                                       "cell_volume_stats">> \in Seq(S)
    BY <2>2, ListIs
  <2> QED
    BY <2>1, <2>3, <2>4 DEF CoreModules, PostModules, S
<1>2. /\ CoreModules[1] = "ingest" /\ CoreModules[2] = "detection" /\ CoreModules[3] = "projection"
      /\ CoreModules[4] = "analysis" /\ CoreModules[5] = "tracking"
      /\ CoreModules[6] = "cell_volume_stats" /\ DOMAIN CoreModules = 1 .. 6
  BY DEF CoreModules
<1>3. \A i \in 1 .. 6 : i = 1 \/ i = 2 \/ i = 3 \/ i = 4 \/ i = 5 \/ i = 6
  OBVIOUS
<1>4. \A i \in 1 .. 6 : CoreModules[i] \in DOMAIN CoreDecl
  BY <1>1, <1>2, <1>3
<1>5. \A m \in DOMAIN CoreDecl : \E i \in 1 .. 6 : CoreModules[i] = m
  BY <1>1, <1>2
<1>6. ToSet(CoreModules) = {CoreModules[i] : i \in 1 .. 6}
  BY <1>2 DEF ToSet
<1> QED
  BY <1>1, <1>4, <1>5, <1>6

LEMMA PathsIs ==
  ASSUME launch.kind \in {"live", "post"},
         launch.kind = "live" => launch.config.extensions \in Seq(STRING)
  PROVE  /\ Paths \in Seq(PathNames) /\ Len(Paths) \in Nat /\ DOMAIN Paths = 1 .. Len(Paths)
         /\ launch.kind = "live" =>
              Len(Paths) >= 6 /\ \A i \in 1 .. 6 : Paths[i] = CoreModules[i]
<1>1. CASE launch.kind = "post"
  <2>1. Paths = PostModules
    BY <1>1 DEF Paths
  <2> QED
    BY <1>1, <2>1, ShippedIs, LenProperties
<1>2. CASE launch.kind = "live"
  <2> DEFINE e == launch.config.extensions
  <2>1. Paths = CoreModules \o e /\ e \in Seq(STRING)
    BY <1>2 DEF Paths
  <2>4. e \in Seq(PathNames)
    BY <2>1 DEF PathNames
  <2> HIDE DEF e
  <2>2. Len(e) \in Nat /\ Len(CoreModules) = 6 /\ CoreModules \in Seq(PathNames)
    BY <2>1, ShippedIs, LenProperties
  <2>3. /\ CoreModules \o e \in Seq(PathNames) /\ Len(CoreModules \o e) = 6 + Len(e)
        /\ \A i \in 1 .. 6 : (CoreModules \o e)[i] = CoreModules[i]
    <3> DEFINE b == CoreModules
    <3>1. b \in Seq(PathNames) /\ Len(b) = 6
      BY <2>2
    <3> HIDE DEF b
    <3>2. /\ b \o e \in Seq(PathNames) /\ Len(b \o e) = Len(b) + Len(e)
          /\ \A i \in 1 .. Len(b) : (b \o e)[i] = b[i]
      BY <2>4, <3>1, JoinIs
    <3> QED
      BY <3>1, <3>2 DEF b
  <2> QED
    BY <2>1, <2>2, <2>3, LenProperties
<1> QED
  BY <1>1, <1>2

LEMMA Beginning ==
  ASSUME NEW S, NEW s \in Seq(S), NEW n \in 0 .. Len(s)
  PROVE  LET b == SubSeq(s, 1, n)
         IN b \in Seq(S) /\ Len(b) = n /\ DOMAIN b = 1 .. n /\ \A i \in 1 .. n : b[i] = s[i]
<1>1. Len(s) \in Nat /\ DOMAIN s = 1 .. Len(s)
  BY LenProperties
<1>2. SubSeq(s, 1, n) = [i \in 1 .. n |-> s[i]]
  BY <1>1
<1>3. \A i \in 1 .. n : s[i] \in S
  BY <1>1, ElementOfSeq
<1>4. [i \in 1 .. n |-> s[i]] \in Seq(S) /\ Len([i \in 1 .. n |-> s[i]]) = n
  BY <1>1, <1>3
<1> QED
  BY <1>2, <1>4

(* What an import registers: the modules up to the first path that is       *)
(* broken, so the shipped ones always.                                      *)
LEMMA ImportIs ==
  ASSUME launch.kind \in {"live", "post"},
         launch.kind = "live" => launch.config.extensions \in Seq(STRING), ImportModules
  PROVE  /\ registry' \in Registries /\ IsFiniteSet(DOMAIN registry')
         /\ \E n \in Nat : \A m \in DOMAIN registry' : registry'[m] <= n
         /\ launch.kind = "live" => DOMAIN CoreDecl \subseteq DOMAIN registry'
<1> DEFINE broken == {i \in DOMAIN Paths : Paths[i] \notin Modules}
           n == IF broken = {} THEN Len(Paths) ELSE Min(broken) - 1
           p == SubSeq(Paths, 1, n)
<1>1. /\ Paths \in Seq(PathNames) /\ Len(Paths) \in Nat /\ DOMAIN Paths = 1 .. Len(Paths)
      /\ launch.kind = "live" =>
           Len(Paths) >= 6 /\ \A i \in 1 .. 6 : Paths[i] = CoreModules[i]
  BY PathsIs
<1>2. broken # {} => Min(broken) \in broken /\ \A i \in broken : Min(broken) <= i
  <2>1. broken \subseteq Nat
    BY <1>1
  <2> HIDE DEF broken
  <2> QED
    BY <2>1, LeastOfNaturals
<1>3. n \in 0 .. Len(Paths)
  BY <1>1, <1>2
<1>4. \A i \in 1 .. n : Paths[i] \in Modules
  <2> SUFFICES ASSUME NEW i \in 1 .. n PROVE i \notin broken /\ i \in DOMAIN Paths
    OBVIOUS
  <2>1. i \in DOMAIN Paths
    BY <1>1, <1>3
  <2>2. ASSUME broken # {} PROVE i < Min(broken) /\ Min(broken) \in Nat /\ i \in Nat
    BY <1>1, <1>2, <2>2
  <2>3. ASSUME i \in broken PROVE FALSE
    <3>1. broken # {} /\ Min(broken) <= i
      BY <1>2, <2>3
    <3> HIDE DEF broken
    <3> QED
      BY <2>2, <3>1
  <2> QED
    BY <2>1, <2>3
<1>5. p \in Seq(PathNames) /\ Len(p) = n /\ DOMAIN p = 1 .. n /\ \A i \in 1 .. n : p[i] = Paths[i]
  BY <1>1, <1>3, Beginning
<1>6. registry' = Registered(p)
  <2>1. CASE broken # {}
    BY <2>1 DEF ImportModules
  <2>2. CASE broken = {}
    <3>1. SubSeq(Paths, 1, Len(Paths)) = Paths
      BY <1>1
    <3> QED
      BY <2>2, <3>1 DEF ImportModules
  <2> QED
    BY <2>1, <2>2
<1>7. launch.kind = "live" => n >= 6
  <2> SUFFICES ASSUME launch.kind = "live", broken # {} PROVE n >= 6
    BY <1>1
  <2>1. \A i \in 1 .. 6 : Paths[i] \in Modules
    BY <1>1, ShippedIs, CoreDecls
  <2>2. Min(broken) \notin 1 .. 6 /\ Min(broken) \in 1 .. Len(Paths)
    BY <1>1, <1>2, <2>1
  <2> QED
    BY <1>1, <2>2
<1> HIDE DEF p, n
<1>8. /\ registry' \in Registries /\ DOMAIN registry' = {p[i] : i \in DOMAIN p}
      /\ IsFiniteSet(DOMAIN registry') /\ \A m \in DOMAIN registry' : registry'[m] <= Len(p)
  BY <1>4, <1>5, <1>6, RegisteredIs
<1>9. launch.kind = "live" => DOMAIN CoreDecl \subseteq DOMAIN registry'
  <2> SUFFICES ASSUME launch.kind = "live", NEW m \in DOMAIN CoreDecl PROVE m \in DOMAIN registry'
    OBVIOUS
  <2>1. PICK i \in 1 .. 6 : CoreModules[i] = m
    BY ShippedIs
  <2>2. i \in 1 .. n /\ p[i] = m
    BY <1>1, <1>3, <1>5, <1>7, <2>1
  <2> QED
    BY <1>5, <1>8, <2>2
<1>10. Len(p) \in Nat
  BY <1>3, <1>5
<1> QED
  BY <1>8, <1>9, <1>10


-----------------------------------------------------------------------------
(***************************************************************************)
(* From launch to launch                                                   *)
(***************************************************************************)
(* A step launches, records, imports, selects, builds or exits, or it is a  *)
(* step of a scan or of a post-process, which leaves the launch alone.      *)
ScanLive == {"ready", "groups", "running", "persist", "enrich", "enriching", "stopped"}

NodeStep ==
  \/ \E m \in exec.nodes : RunNode(m) \/ LacksInput(m) \/ NodeRaises(m) \/ ContractFails(m)
  \/ NextRound \/ NoProgress

ScanStep ==
  \/ \E near, cells \in BOOLEAN : BeginScan(near, cells)
  \/ SkipGroup \/ EnterGroup \/ EndGroup \/ Accumulate
  \/ Persist \/ SkipEnrichment \/ EnterEnrichment \/ EndGraph \/ StoreFails
  \/ NodeStep

LaunchStep ==
  \/ \E flags \in Flags :
       \/ Continue(flags)
       \/ LaunchHere(flags)
       \/ \E file \in Files : LaunchWith(file, flags)
  \/ \E request \in PostRequests, file \in Files \cup {Empty} : LaunchPost(file, request)

LEMMA StepCases ==
  Next => \/ LaunchStep \/ RecordRun \/ ImportModules \/ SelectModules \/ BuildGraphs \/ Exit
          \/ ScanStep
BY DEF Next, LaunchStep, ScanStep, NodeStep

LEMMA FailsIs ==
  ASSUME NEW why, NEW m, NEW keys, Fails(why, m, keys),
         pc \in {"posting", "groups", "running", "persist", "enrich", "enriching"}
  PROVE  /\ UNCHANGED <<disk, process, scan, exec, history, log>>
         /\ verdict' = [why |-> why, module |-> m, keys |-> keys]
         /\ pc = "posting" => pc' = "posted"
         /\ pc # "posting" => pc' \in {"ready", "stopped"}
<1>1. UNCHANGED <<disk, process, scan, exec, history, log>>
  BY DEF Fails
<1>2. verdict' = [why |-> why, module |-> m, keys |-> keys]
  BY DEF Fails
<1>3. pc' = IF pc = "posting" THEN "posted"
            ELSE IF why \in {"contract", "history"} THEN "stopped" ELSE "ready"
  BY DEF Fails
<1>4. pc = "posting" => pc' = "posted"
  BY <1>3
<1>5. pc # "posting" => pc' \in {"ready", "stopped"}
  BY <1>3
<1> QED
  BY <1>1, <1>2, <1>4, <1>5

(* A node runs and the rounds go on within the graph, or the graph is left  *)
(* for good with a verdict.                                                 *)
Goes == UNCHANGED <<disk, process, pc, scan, history, verdict>>
Leaves ==
  /\ UNCHANGED <<disk, process, scan, exec, history, log>>
  /\ pc = "posting" => pc' = "posted"
  /\ pc # "posting" => pc' \in {"ready", "stopped"}
  /\ verdict'.module \in exec.nodes \cup {None}

LEMMA NodeLeaves ==
  ASSUME NoProgress \/ \E m \in exec.nodes : LacksInput(m) \/ NodeRaises(m) \/ ContractFails(m)
  PROVE  Executing /\ Leaves
<1>1. CASE NoProgress
  <2>1. Executing /\ Fails("stuck", None, exec.nodes \ exec.done)
    BY <1>1 DEF NoProgress, RoundEnds
  <2> QED
    BY <2>1, FailsIs DEF Executing, Leaves
<1>2. ASSUME NEW m \in exec.nodes, LacksInput(m) \/ NodeRaises(m) \/ ContractFails(m)
      PROVE  Executing /\ Leaves
  <2>1. Executing /\ \E why, keys : Fails(why, m, keys)
    BY <1>2 DEF LacksInput, NodeRaises, ContractFails, Visit
  <2> QED
    BY <2>1, FailsIs DEF Executing, Leaves
<1> QED
  BY <1>1, <1>2

LEMMA NodeStepIs ==
  ASSUME NodeStep
  PROVE  Executing /\ (Goes \/ Leaves)
<1>1. CASE NextRound
  BY <1>1 DEF NextRound, RoundEnds, Goes
<1>2. ASSUME NEW m \in exec.nodes, RunNode(m) PROVE Executing /\ Goes
  BY <1>2 DEF RunNode, Visit, Goes
<1> QED
  BY <1>1, <1>2, NodeLeaves DEF NodeStep

LEMMA ScanStepIs ==
  ASSUME ScanStep
  PROVE  /\ UNCHANGED <<disk, process>>
         /\ \/ pc \in ScanLive /\ pc' \in ScanLive
            \/ pc = "posting" /\ pc' \in {"posting", "posted"}
<1>1. CASE NodeStep
  BY <1>1, NodeStepIs DEF Executing, Goes, Leaves, ScanLive
<1>2. ASSUME NEW near \in BOOLEAN, NEW cells \in BOOLEAN, BeginScan(near, cells)
      PROVE  UNCHANGED <<disk, process>> /\ pc \in ScanLive /\ pc' \in ScanLive
  BY <1>2 DEF BeginScan, ScanLive
<1>3. CASE SkipGroup
  BY <1>3 DEF SkipGroup, ScanLive
<1>4. CASE EnterGroup
  BY <1>4 DEF EnterGroup, ScanLive
<1>5. CASE EndGroup
  BY <1>5 DEF EndGroup, ScanLive
<1>6. CASE Accumulate
  BY <1>6 DEF Accumulate, ScanLive
<1>7. CASE Persist
  BY <1>7 DEF Persist, ScanLive
<1>8. CASE SkipEnrichment
  BY <1>8 DEF SkipEnrichment, ScanLive
<1>9. CASE EnterEnrichment
  <2>1. CASE WantsGrid /\ "grid_ds" \notin DOMAIN scan.result
    <3>1. pc = "enrich" /\ Fails("grid", None, {"grid_ds"})
      BY <1>9, <2>1 DEF EnterEnrichment
    <3> QED
      BY <3>1, FailsIs DEF ScanLive
  <2>2. CASE ~(WantsGrid /\ "grid_ds" \notin DOMAIN scan.result)
    BY <1>9, <2>2 DEF EnterEnrichment, ScanLive
  <2> QED
    BY <2>1, <2>2
<1>10. CASE EndGraph
  BY <1>10 DEF EndGraph, ScanLive
<1>11. CASE StoreFails
  <2>1. pc \in {"groups", "persist", "enriching", "posting"} /\ Fails("store", None, {})
    BY <1>11 DEF StoreFails
  <2> QED
    BY <2>1, FailsIs DEF ScanLive
<1> QED
  BY <1>1, <1>2, <1>3, <1>4, <1>5, <1>6, <1>7, <1>8, <1>9, <1>10, <1>11 DEF ScanStep

(* A fresh launch has the settings its file and flags merge into, and is    *)
(* refused for them or, once its modules are imported, for its modules; the *)
(* first launch of a working directory was resolved from its flags alone.   *)
Fresh == launch.fresh /\ launch.kind = "live"

LaunchInv ==
  /\ LaunchTyped
  /\ Fresh =>
       /\ DOMAIN launch.flags \subseteq CliKeys /\ Timed(launch.file)
       /\ launch.config = Merged(launch.file, launch.flags)
       /\ \/ launch.why = Refusal(launch.config)
          \/ /\ Refusal(launch.config) = None
             /\ launch.why \in {"import", "unknown", "disabled", "duplicate"}
             /\ DOMAIN CoreDecl \subseteq DOMAIN registry
  /\ pc \notin {"off", "refused"} => launch.why = None
  /\ pc \in {"off", "configured", "recorded"} => registry = Empty
  /\ launch.kind = "live" /\ pc \notin {"off", "configured", "recorded", "refused"} =>
       DOMAIN CoreDecl \subseteq DOMAIN registry
  /\ \A b \in bootstrap :
       /\ DOMAIN b.flags \subseteq CliKeys /\ "base_dir" \in DOMAIN b.flags
       /\ b.config = Merged(Empty, b.flags) /\ b.why = Refusal(b.config)

LEMMA LaunchInit == Init => LaunchInv
<1> SUFFICES ASSUME Init PROVE LaunchInv
  OBVIOUS
<1>1. /\ pc = "off" /\ launch = NoLaunch /\ launches = 0 /\ cwd = {} /\ saved = {} /\ bootstrap = {}
      /\ registry = Empty
  BY DEF Init
<1>2. /\ launch.kind = None /\ launch.fresh = FALSE
      /\ launch = [kind |-> launch.kind, file |-> launch.file, flags |-> launch.flags,
                   fresh |-> launch.fresh, config |-> launch.config, why |-> launch.why]
  BY <1>1 DEF NoLaunch
<1>3. LaunchTyped
  <2>1. pc \notin LiveOnly /\ pc \notin PostOnly /\ pc \notin Either /\ launch.kind # "live"
    BY <1>1, <1>2 DEF LiveOnly, PostOnly, Either, None
  <2>2. launches \in 0 .. MaxLaunches /\ launch.fresh \in BOOLEAN
    <3>1. launches = 0
      BY <1>1
    <3>2. launches \in 0 .. MaxLaunches
      BY <3>1, BoundsAssumption
    <3> QED
      BY <1>2, <3>2
  <2>3. cwd \subseteq {HereFile} /\ \A c \in saved : c.extensions \in Seq(STRING)
    BY <1>1
  <2> QED
    BY <1>1, <1>2, <2>1, <2>2, <2>3 DEF LaunchTyped
<1> QED
  BY <1>1, <1>2, <1>3 DEF LaunchInv, Fresh

LEMMA FileTyped ==
  ASSUME NEW file \in Files \cup {Empty, HereFile}
  PROVE  Timed(file) /\ ("extensions" \in DOMAIN file => file["extensions"] \in Seq(STRING))
<1>1. DOMAIN Empty = {}
  BY DEF Empty
<1>2. CASE file = HereFile
  BY <1>2, HereFileIs DEF Timed
<1>3. CASE file = Empty
  BY <1>1, <1>3 DEF Timed
<1>4. CASE file \in Files
  BY <1>4, FilesAssumption DEF Timed
<1> QED
  BY <1>2, <1>3, <1>4

(* A live launch from a known file and legal flags.                         *)
LEMMA LaunchedLive ==
  ASSUME LaunchInv, NEW file \in Files \cup {Empty, HereFile},
         NEW flags, DOMAIN flags \subseteq CliKeys,
         Launched("live", file, flags, Resolve(file, flags)),
         saved' = saved, cwd' \subseteq {HereFile},
         \A b \in bootstrap' :
           /\ DOMAIN b.flags \subseteq CliKeys /\ "base_dir" \in DOMAIN b.flags
           /\ b.config = Merged(Empty, b.flags) /\ b.why = Refusal(b.config)
  PROVE  LaunchInv'
<1> DEFINE r == Merged(file, flags)
<1>1. Resolve(file, flags).config = r /\ Resolve(file, flags).why = Refusal(r)
  BY DEF Resolve
<1>2. r.extensions \in Seq(STRING)
  BY FileTyped, ExtensionsTyped
<1> HIDE DEF r
<1>3. /\ pc = "off" /\ launches < MaxLaunches /\ launches' = launches + 1
      /\ launch' = [kind |-> "live", file |-> file, flags |-> flags, fresh |-> TRUE,
                    config |-> r, why |-> Refusal(r)]
      /\ pc' = IF Refusal(r) = None THEN "configured" ELSE "refused"
      /\ UNCHANGED registry
  BY <1>1 DEF Launched
<1>4. Timed(file)
  BY FileTyped
<1>5. /\ launch'.kind = "live" /\ launch'.file = file /\ launch'.flags = flags
      /\ launch'.fresh = TRUE /\ launch'.config = r /\ launch'.why = Refusal(r)
  BY <1>3
<1>6. LaunchTyped'
  BY <1>2, <1>3, <1>5, BoundsAssumption DEF LaunchInv, LaunchTyped, Either, LiveOnly, PostOnly
<1>7. launch'.config = Merged(launch'.file, launch'.flags)
  BY <1>5 DEF r
<1> QED
  BY <1>3, <1>4, <1>5, <1>6, <1>7 DEF LaunchInv, Fresh, Timed

(* One that goes by a recorded or a given configuration.                    *)
LEMMA LaunchedStale ==
  ASSUME LaunchInv, pc = "off", launches < MaxLaunches, launches' = launches + 1,
         UNCHANGED <<cwd, saved, bootstrap, registry>>,
         launch' = [kind |-> launch'.kind, file |-> launch'.file, flags |-> launch'.flags,
                    fresh |-> launch'.fresh, config |-> launch'.config, why |-> launch'.why],
         launch'.fresh \in BOOLEAN, ~Fresh', launch'.kind \in {"live", "post"},
         launch'.kind = "live" => launch'.config.extensions \in Seq(STRING),
         pc' = IF launch'.why = None THEN "configured" ELSE "refused"
  PROVE  LaunchInv'
<1>1. LaunchTyped'
  BY BoundsAssumption DEF LaunchInv, LaunchTyped, Either, LiveOnly, PostOnly
<1> QED
  BY <1>1 DEF LaunchInv

LEMMA LaunchStepKeeps == LaunchInv /\ LaunchStep => LaunchInv'
<1> SUFFICES ASSUME LaunchInv, LaunchStep PROVE LaunchInv'
  OBVIOUS
<1>1. \A c \in Flags : DOMAIN c \subseteq CliKeys
  BY FlagsAssumption DEF CliKeys
<1>2. \A c \in saved : c.extensions \in Seq(STRING)
  BY DEF LaunchInv, LaunchTyped
<1>3. ASSUME NEW flags \in Flags, Continue(flags) PROVE LaunchInv'
  <2> DEFINE c == CHOOSE x \in saved : TRUE
  <2>1. c \in saved
    BY <1>3 DEF Continue
  <2>2. c.extensions \in Seq(STRING)
    BY <1>2, <2>1
  <2>3. /\ launch' = [kind |-> "live", file |-> Empty, flags |-> flags, fresh |-> FALSE,
                      config |-> c, why |-> None]
        /\ pc = "off" /\ launches < MaxLaunches /\ launches' = launches + 1
        /\ UNCHANGED <<cwd, saved, bootstrap, registry>> /\ pc' = "configured"
    BY <1>3 DEF Continue
  <2> HIDE DEF c
  <2> QED
    BY <2>2, <2>3, LaunchedStale DEF Fresh
<1>4. ASSUME NEW flags \in Flags, LaunchHere(flags) PROVE LaunchInv'
  <2> DEFINE h == [base_dir |-> "cwd"]
             here == DeepMerge(flags, h)
             file == IF cwd = {} THEN Empty ELSE CHOOSE f \in cwd : TRUE
             r == Resolve(file, here)
  <2>1. DOMAIN h = {"base_dir"} /\ IsMerge(here, flags, h)
    BY MergeIs
  <2>2. DOMAIN here \subseteq CliKeys /\ "base_dir" \in DOMAIN here
    BY <1>1, <2>1 DEF IsMerge, CliKeys
  <2>3. cwd \subseteq {HereFile}
    BY DEF LaunchInv, LaunchTyped
  <2>4. file \in {Empty, HereFile} /\ (cwd = {} => file = Empty)
    BY <2>3
  <2>5. /\ Launched("live", file, here, r)
        /\ cwd' = IF cwd = {} THEN {HereFile} ELSE cwd
        /\ bootstrap' = IF cwd = {} THEN {[flags |-> here, why |-> r.why, config |-> r.config]}
                        ELSE bootstrap
        /\ UNCHANGED saved
    BY <1>4 DEF LaunchHere, HereFile
  <2>6. r.config = Merged(file, here) /\ r.why = Refusal(r.config)
    BY DEF Resolve
  <2> HIDE DEF file, here, h
  <2>7. Launched("live", file, here, Resolve(file, here))
    BY <2>5
  <2> HIDE DEF r
  <2>8. \A b \in bootstrap :
          /\ DOMAIN b.flags \subseteq CliKeys /\ "base_dir" \in DOMAIN b.flags
          /\ b.config = Merged(Empty, b.flags) /\ b.why = Refusal(b.config)
    BY DEF LaunchInv
  <2>9. \A b \in bootstrap' :
          /\ DOMAIN b.flags \subseteq CliKeys /\ "base_dir" \in DOMAIN b.flags
          /\ b.config = Merged(Empty, b.flags) /\ b.why = Refusal(b.config)
    <3>1. CASE cwd = {}
      BY <2>2, <2>4, <2>5, <2>6, <3>1
    <3>2. CASE cwd # {}
      BY <2>5, <2>8, <3>2
    <3> QED
      BY <3>1, <3>2
  <2> QED
    BY <2>2, <2>3, <2>4, <2>5, <2>7, <2>9, LaunchedLive
<1>5. ASSUME NEW flags \in Flags, NEW file \in Files, LaunchWith(file, flags) PROVE LaunchInv'
  <2>1. /\ Launched("live", file, flags, Resolve(file, flags))
        /\ UNCHANGED <<cwd, saved, bootstrap>>
    BY <1>5 DEF LaunchWith
  <2>2. /\ cwd \subseteq {HereFile}
        /\ \A b \in bootstrap :
             /\ DOMAIN b.flags \subseteq CliKeys /\ "base_dir" \in DOMAIN b.flags
             /\ b.config = Merged(Empty, b.flags) /\ b.why = Refusal(b.config)
    BY DEF LaunchInv, LaunchTyped
  <2> QED
    BY <1>1, <2>1, <2>2, LaunchedLive
<1>6. ASSUME NEW request \in PostRequests, NEW file \in Files \cup {Empty}, LaunchPost(file, request)
      PROVE  LaunchInv'
  <2> DEFINE r == IF file = Empty THEN [why |-> None, config |-> CHOOSE c \in saved : TRUE]
                  ELSE Resolve(file, Empty)
             q == [request |-> request]
  <2>1. Launched("post", file, q, r) /\ UNCHANGED <<cwd, saved, bootstrap>>
    BY <1>6 DEF LaunchPost
  <2> HIDE DEF r, q
  <2>2. /\ launch' = [kind |-> "post", file |-> file, flags |-> q, fresh |-> TRUE,
                      config |-> r.config, why |-> r.why]
        /\ pc = "off" /\ launches < MaxLaunches /\ launches' = launches + 1 /\ UNCHANGED registry
        /\ pc' = IF r.why = None THEN "configured" ELSE "refused"
    BY <2>1 DEF Launched
  <2> QED
    BY <2>1, <2>2, LaunchedStale DEF Fresh
<1> QED
  BY <1>3, <1>4, <1>5, <1>6 DEF LaunchStep

LEMMA RefuseKeeps ==
  ASSUME LaunchInv, NEW why \in {"import", "unknown", "disabled", "duplicate"}, Refuse(why),
         pc \in {"configured", "recorded", "registered", "selected"},
         launch.kind = "live" => DOMAIN CoreDecl \subseteq DOMAIN registry'
  PROVE  LaunchInv'
<1>1. launch' = [launch EXCEPT !.why = why] /\ pc' = "refused" /\ UNCHANGED disk
  BY DEF Refuse
<1>2. /\ launch' = [kind |-> launch.kind, file |-> launch.file, flags |-> launch.flags,
                    fresh |-> launch.fresh, config |-> launch.config, why |-> why]
      /\ launch.fresh \in BOOLEAN /\ launch.kind \in {"live", "post"}
      /\ launch.kind = "live" => launch.config.extensions \in Seq(STRING)
  BY <1>1 DEF LaunchInv, LaunchTyped, Either, LiveOnly, PostOnly
<1>3. LaunchTyped'
  BY <1>1, <1>2 DEF LaunchInv, LaunchTyped, Either, LiveOnly, PostOnly, disk
<1>4. Fresh' <=> Fresh
  BY <1>2 DEF Fresh
<1>5. launch.why = None
  BY DEF LaunchInv
<1>6. Fresh => Refusal(launch.config) = None
  BY <1>5 DEF LaunchInv, None
<1> QED
  BY <1>1, <1>2, <1>3, <1>4, <1>6 DEF LaunchInv, disk, Fresh

LEMMA LaunchKeeps == LaunchInv /\ [Next]_vars => LaunchInv'
<1> SUFFICES ASSUME LaunchInv, [Next]_vars PROVE LaunchInv'
  OBVIOUS
<1>1. LaunchTyped
  BY DEF LaunchInv
<1>2. CASE LaunchStep
  BY <1>2, LaunchStepKeeps
<1>3. CASE RecordRun
  <2>1. /\ pc = "configured" /\ launch.kind = "live" /\ pc' = "recorded"
        /\ saved' = (IF launch.fresh THEN {launch.config} ELSE saved)
        /\ UNCHANGED <<cwd, bootstrap, launches, launch, registry, enabled>>
    BY <1>3 DEF RecordRun, process
  <2>2. \A c \in saved' : c.extensions \in Seq(STRING)
    BY <1>1, <2>1 DEF LaunchTyped
  <2>3. LaunchTyped'
    BY <1>1, <2>1, <2>2 DEF LaunchTyped, Either, LiveOnly, PostOnly
  <2> QED
    BY <2>1, <2>3 DEF LaunchInv, Fresh
<1>4. CASE ImportModules
  <2>1. /\ pc = (IF launch.kind = "post" THEN "configured" ELSE "recorded")
        /\ launch.kind \in {"live", "post"}
        /\ launch.kind = "live" => launch.config.extensions \in Seq(STRING)
    BY <1>1, <1>4 DEF ImportModules, LaunchTyped, Either, LiveOnly
  <2>2. launch.kind = "live" => DOMAIN CoreDecl \subseteq DOMAIN registry'
    BY <1>4, <2>1, ImportIs
  <2>3. \/ Refuse("import")
        \/ pc' = "registered" /\ UNCHANGED <<disk, launch>>
    BY <1>4 DEF ImportModules
  <2>4. CASE Refuse("import")
    BY <2>1, <2>2, <2>4, RefuseKeeps
  <2>5. CASE pc' = "registered" /\ UNCHANGED <<disk, launch>>
    <3>1. LaunchTyped'
      BY <1>1, <2>1, <2>5 DEF LaunchTyped, Either, LiveOnly, PostOnly, disk
    <3> QED
      BY <2>1, <2>2, <2>5, <3>1 DEF LaunchInv, Fresh, disk
  <2> QED
    BY <2>3, <2>4, <2>5
<1>5. CASE SelectModules
  <2>1. pc = "registered" /\ UNCHANGED registry
    BY <1>5 DEF SelectModules
  <2>2. launch.kind = "live" => DOMAIN CoreDecl \subseteq DOMAIN registry'
    BY <2>1 DEF LaunchInv
  <2>3. \/ \E why \in {"unknown", "disabled"} : Refuse(why)
        \/ pc' = "selected" /\ UNCHANGED <<disk, launch>>
    BY <1>5 DEF SelectModules, SelectionError, None
  <2>4. CASE \E why \in {"unknown", "disabled"} : Refuse(why)
    BY <2>1, <2>2, <2>4, RefuseKeeps
  <2>5. CASE pc' = "selected" /\ UNCHANGED <<disk, launch>>
    <3>1. LaunchTyped'
      BY <1>1, <2>1, <2>5 DEF LaunchTyped, Either, LiveOnly, PostOnly, disk
    <3> QED
      BY <2>1, <2>2, <2>5, <3>1 DEF LaunchInv, Fresh, disk
  <2> QED
    BY <2>3, <2>4, <2>5
<1>6. CASE BuildGraphs
  <2>1. pc = "selected" /\ UNCHANGED registry
    BY <1>6 DEF BuildGraphs
  <2>2. launch.kind = "live" => DOMAIN CoreDecl \subseteq DOMAIN registry'
    BY <2>1 DEF LaunchInv
  <2>3. \/ Refuse("duplicate")
        \/ /\ pc' = (IF launch.kind = "post" THEN "posting" ELSE "ready")
           /\ UNCHANGED <<disk, launch>>
    BY <1>6 DEF BuildGraphs
  <2>4. CASE Refuse("duplicate")
    BY <2>1, <2>2, <2>4, RefuseKeeps
  <2>5. CASE /\ pc' = (IF launch.kind = "post" THEN "posting" ELSE "ready")
             /\ UNCHANGED <<disk, launch>>
    <3>1. LaunchTyped'
      BY <1>1, <2>1, <2>5 DEF LaunchTyped, Either, LiveOnly, PostOnly, disk
    <3> QED
      BY <2>1, <2>2, <2>5, <3>1 DEF LaunchInv, Fresh, disk
  <2> QED
    BY <2>3, <2>4, <2>5
<1>7. CASE Exit
  <2>1. pc' = "off" /\ launch' = NoLaunch /\ registry' = Empty /\ UNCHANGED disk
    BY <1>7 DEF Exit
  <2>2. /\ launch'.kind = None /\ launch'.fresh = FALSE
        /\ launch' = [kind |-> launch'.kind, file |-> launch'.file, flags |-> launch'.flags,
                      fresh |-> launch'.fresh, config |-> launch'.config, why |-> launch'.why]
    BY <2>1 DEF NoLaunch
  <2>3. pc' \notin LiveOnly /\ pc' \notin PostOnly /\ pc' \notin Either /\ launch'.kind # "live"
    BY <2>1, <2>2 DEF LiveOnly, PostOnly, Either, None
  <2>4. LaunchTyped'
    BY <1>1, <2>1, <2>2, <2>3 DEF LaunchTyped, disk
  <2> QED
    BY <2>1, <2>2, <2>3, <2>4 DEF LaunchInv, Fresh, disk
<1>8. CASE ScanStep
  <2>1. /\ UNCHANGED <<disk, process>>
        /\ \/ pc \in ScanLive /\ pc' \in ScanLive
           \/ pc = "posting" /\ pc' \in {"posting", "posted"}
    BY <1>8, ScanStepIs
  <2>2. LaunchTyped'
    BY <1>1, <2>1 DEF LaunchTyped, disk, process, ScanLive, LiveOnly, PostOnly, Either
  <2> QED
    BY <2>1, <2>2 DEF LaunchInv, Fresh, disk, process, ScanLive
<1>9. CASE UNCHANGED vars
  BY <1>1, <1>9 DEF LaunchInv, LaunchTyped, Fresh, vars, disk, process
<1> QED
  BY <1>2, <1>3, <1>4, <1>5, <1>6, <1>7, <1>8, <1>9, StepCases

LEMMA LaunchInvariant == Spec => []LaunchInv
<1>1. LaunchInv /\ [Next]_vars => LaunchInv'
  BY LaunchKeeps
<1> QED
  BY <1>1, LaunchInit, PTL DEF Spec

(* resolve_config, for any files and flags: a launch that is not refused    *)
(* for its settings has the flags it was given, downloader.mode is the mode *)
(* of the run unless the file sets it, a historical acquisition has both    *)
(* ends of its range, and a range with no mode makes the run historical.    *)
THEOREM LaunchAsAskedHolds == Spec => []LaunchAsAsked
<1>1. ASSUME LaunchInv PROVE LaunchAsAsked
  <2> SUFFICES ASSUME Resolved PROVE LaunchAsAsked
    BY DEF LaunchAsAsked
  <2>1. /\ launch.fresh /\ launch.kind = "live"
        /\ launch.why \notin {"incomplete", "no_start", "no_end", "field", "kept"}
    BY DEF Resolved
  <2>2. /\ DOMAIN launch.flags \subseteq CliKeys /\ Timed(launch.file)
        /\ launch.config = Merged(launch.file, launch.flags)
        /\ launch.why = Refusal(launch.config) \/ Refusal(launch.config) = None
    BY <1>1, <2>1 DEF LaunchInv, Fresh
  <2>3. Refusal(launch.config) \in {"incomplete", "no_start", "no_end", "field", "kept", None}
    BY DEF Refusal
  <2>4. Refusal(Merged(launch.file, launch.flags)) = None
    BY <2>1, <2>2, <2>3
  <2> QED
    BY <2>2, <2>4, AskedIs DEF LaunchAsAsked
<1> QED
  BY <1>1, LaunchInvariant, PTL

(* init_runtime_config, for any flags: the config.yaml a first launch left  *)
(* gives a second launch there with the same flags the same settings, the   *)
(* same modules or the same refusal.                                        *)
THEOREM BootstrapNeutralHolds == Spec => []BootstrapNeutral
<1>1. ASSUME LaunchInv PROVE BootstrapNeutral
  <2> SUFFICES ASSUME NEW b \in bootstrap, launch.kind = "live", launch.fresh,
                      launch.flags = b.flags, launch.file \in cwd, registry = Empty
               PROVE  /\ launch.why = b.why
                      /\ \A k \in DOMAIN b.config : launch.config[k] = b.config[k]
                      /\ LET core == ToSet(CoreModules)
                         IN EnabledNames(core, launch.config) = EnabledNames(core, b.config)
    BY DEF BootstrapNeutral
  <2>1. /\ launch.config = Merged(launch.file, launch.flags)
        /\ launch.why = Refusal(launch.config) \/ DOMAIN CoreDecl \subseteq DOMAIN registry
        /\ DOMAIN b.flags \subseteq CliKeys /\ "base_dir" \in DOMAIN b.flags
        /\ b.config = Merged(Empty, b.flags) /\ b.why = Refusal(b.config)
        /\ cwd \subseteq {HereFile}
    BY <1>1 DEF LaunchInv, LaunchTyped, Fresh
  <2>2. launch.file = HereFile /\ launch.config = Merged(HereFile, b.flags)
    BY <2>1
  <2>3. launch.why = Refusal(launch.config)
    BY <2>1, EmptyTyped, ShippedIs
  <2> DEFINE r == Merged(HereFile, b.flags)
             e == Merged(Empty, b.flags)
             core == ToSet(CoreModules)
  <2>4. /\ \A k \in DOMAIN e : r[k] = e[k]
        /\ Refusal(r) = Refusal(e)
        /\ EnabledNames(core, r) = EnabledNames(core, e)
    BY <2>1, NeutralIs
  <2> HIDE DEF r, e, core
  <2>5. launch.config = r /\ b.config = e
    BY <2>1, <2>2 DEF r, e
  <2> QED
    BY <2>1, <2>3, <2>4, <2>5 DEF core
<1> QED
  BY <1>1, LaunchInvariant, PTL

-----------------------------------------------------------------------------
(***************************************************************************)
(* Types and places                                                        *)
(***************************************************************************)
Early == {"off", "configured", "recorded", "registered", "selected", "refused"}

(* Before its graphs are built, and after it ended, a launch has no scan.   *)
NothingYet ==
  scan = NoScan /\ exec = NoExec /\ history = <<>> /\ log = <<>> /\ verdict = NoVerdict

RegistryTyped ==
  /\ registry \in Registries /\ IsFiniteSet(DOMAIN registry) /\ enabled \subseteq DOMAIN registry
  /\ pc \in {"off", "configured", "recorded", "registered"} => enabled = {}

ScanTyped ==
  /\ scan \in Scans /\ scan.left \subseteq Histories(enabled) /\ scan.held \subseteq 1 .. scan.no
  /\ history \in Seq(Pasts) /\ \A i \in DOMAIN history : history[i].held \subseteq 1 .. scan.no

ExecTyped ==
  /\ exec \in Execs /\ exec.nodes \subseteq enabled /\ exec.done \subseteq exec.nodes
  /\ log \in Seq(Entries)

(* What the graph in hand is, and that no two modules of a graph give the   *)
(* same key.                                                                *)
Placed ==
  /\ pc \in Early => NothingYet
  /\ pc \notin {"ready", "stopped", "posted"} => verdict = NoVerdict
  /\ verdict.module \in Modules \cup {None}
  /\ pc = "running" =>
       /\ scan.left # {} /\ Len(history) >= NextGroup - 1
       /\ exec.nodes = Graph(enabled, NextGroup)
  /\ pc = "enriching" => exec.nodes = PostGraph(enabled)
  /\ pc = "posting" => exec.nodes = enabled /\ ~DuplicateKey(enabled)
  /\ pc \in ScanLive => \A g \in Graphs(enabled) : ~DuplicateKey(g)

TypeInv == RegistryTyped /\ ScanTyped /\ ExecTyped /\ Placed

LEMMA NoExecTyped ==
  /\ NoExec \in Execs /\ NoExec.nodes = {} /\ NoExec.done = {} /\ NoExec.rounds = 1
  /\ NoExec.at = 1 /\ NoExec.moved = FALSE
BY EmptyTyped DEF NoExec, Execs

LEMMA NoScanTyped ==
  /\ NoScan \in Scans /\ NoScan.left = {} /\ NoScan.held = {} /\ NoScan.no = 0
  /\ NoScan.result = Empty
BY EmptyTyped, BoundsAssumption DEF NoScan, Scans

(* Records with some of their fields set.                                   *)
LEMMA ExecIs ==
  ASSUME NEW e \in Execs
  PROVE  e = [nodes |-> e.nodes, at |-> e.at, done |-> e.done, moved |-> e.moved,
              rounds |-> e.rounds, ctx |-> e.ctx]
BY DEF Execs

LEMMA ScanIs ==
  ASSUME NEW s \in Scans
  PROVE  s = [no |-> s.no, near |-> s.near, cells |-> s.cells, left |-> s.left,
              result |-> s.result, held |-> s.held, committed |-> s.committed]
BY DEF Scans

LEMMA EnteredIs ==
  ASSUME NEW e \in Execs, NEW nodes, NEW ctx
  PROVE  [e EXCEPT !.nodes = nodes, !.ctx = ctx]
           = [nodes |-> nodes, at |-> e.at, done |-> e.done, moved |-> e.moved,
              rounds |-> e.rounds, ctx |-> ctx]
<1> DEFINE e1 == [e EXCEPT !.nodes = nodes]
           e2 == [e1 EXCEPT !.ctx = ctx]
<1> HIDE DEF e1, e2
<1>1. e1 = [nodes |-> nodes, at |-> e.at, done |-> e.done, moved |-> e.moved,
             rounds |-> e.rounds, ctx |-> e.ctx]
  BY ExecIs DEF e1
<1>2. e2 = [nodes |-> nodes, at |-> e.at, done |-> e.done, moved |-> e.moved,
             rounds |-> e.rounds, ctx |-> ctx]
  BY <1>1 DEF e2
<1> QED
  BY <1>2 DEF e1, e2

LEMMA RanIs ==
  ASSUME NEW e \in Execs, NEW at, NEW done, NEW moved, NEW ctx
  PROVE  [e EXCEPT !.at = at, !.done = done, !.moved = moved, !.ctx = ctx]
           = [nodes |-> e.nodes, at |-> at, done |-> done, moved |-> moved,
              rounds |-> e.rounds, ctx |-> ctx]
<1> DEFINE e1 == [e EXCEPT !.at = at]
           e2 == [e1 EXCEPT !.done = done]
           e3 == [e2 EXCEPT !.moved = moved]
           e4 == [e3 EXCEPT !.ctx = ctx]
<1> HIDE DEF e1, e2, e3, e4
<1>1. e1 = [nodes |-> e.nodes, at |-> at, done |-> e.done, moved |-> e.moved,
             rounds |-> e.rounds, ctx |-> e.ctx]
  BY ExecIs DEF e1
<1>2. e2 = [nodes |-> e.nodes, at |-> at, done |-> done, moved |-> e.moved,
             rounds |-> e.rounds, ctx |-> e.ctx]
  BY <1>1 DEF e2
<1>3. e3 = [nodes |-> e.nodes, at |-> at, done |-> done, moved |-> moved,
             rounds |-> e.rounds, ctx |-> e.ctx]
  BY <1>2 DEF e3
<1>4. e4 = [nodes |-> e.nodes, at |-> at, done |-> done, moved |-> moved,
             rounds |-> e.rounds, ctx |-> ctx]
  BY <1>3 DEF e4
<1> QED
  BY <1>4 DEF e1, e2, e3, e4

LEMMA RoundIs ==
  ASSUME NEW e \in Execs, NEW at, NEW moved, NEW rounds
  PROVE  [e EXCEPT !.at = at, !.moved = moved, !.rounds = rounds]
           = [nodes |-> e.nodes, at |-> at, done |-> e.done, moved |-> moved,
              rounds |-> rounds, ctx |-> e.ctx]
<1> DEFINE e1 == [e EXCEPT !.at = at]
           e2 == [e1 EXCEPT !.moved = moved]
           e3 == [e2 EXCEPT !.rounds = rounds]
<1> HIDE DEF e1, e2, e3
<1>1. e1 = [nodes |-> e.nodes, at |-> at, done |-> e.done, moved |-> e.moved,
             rounds |-> e.rounds, ctx |-> e.ctx]
  BY ExecIs DEF e1
<1>2. e2 = [nodes |-> e.nodes, at |-> at, done |-> e.done, moved |-> moved,
             rounds |-> e.rounds, ctx |-> e.ctx]
  BY <1>1 DEF e2
<1>3. e3 = [nodes |-> e.nodes, at |-> at, done |-> e.done, moved |-> moved,
             rounds |-> rounds, ctx |-> e.ctx]
  BY <1>2 DEF e3
<1> QED
  BY <1>3 DEF e1, e2, e3

LEMMA ExtendedIs ==
  ASSUME NEW e \in Scans, NEW left, NEW result, NEW held
  PROVE  [e EXCEPT !.left = left, !.result = result, !.held = held]
           = [no |-> e.no, near |-> e.near, cells |-> e.cells, left |-> left,
              result |-> result, held |-> held, committed |-> e.committed]
<1> DEFINE e1 == [e EXCEPT !.left = left]
           e2 == [e1 EXCEPT !.result = result]
           e3 == [e2 EXCEPT !.held = held]
<1> HIDE DEF e1, e2, e3
<1>1. e1 = [no |-> e.no, near |-> e.near, cells |-> e.cells, left |-> left,
             result |-> e.result, held |-> e.held, committed |-> e.committed]
  BY ScanIs DEF e1
<1>2. e2 = [no |-> e.no, near |-> e.near, cells |-> e.cells, left |-> left,
             result |-> result, held |-> e.held, committed |-> e.committed]
  BY <1>1 DEF e2
<1>3. e3 = [no |-> e.no, near |-> e.near, cells |-> e.cells, left |-> left,
             result |-> result, held |-> held, committed |-> e.committed]
  BY <1>2 DEF e3
<1> QED
  BY <1>3 DEF e1, e2, e3

LEMMA SkippedIs ==
  ASSUME NEW e \in Scans, NEW left
  PROVE  [e EXCEPT !.left = left]
           = [no |-> e.no, near |-> e.near, cells |-> e.cells, left |-> left,
              result |-> e.result, held |-> e.held, committed |-> e.committed]
<1> DEFINE e1 == [e EXCEPT !.left = left]
<1> HIDE DEF e1
<1>1. e1 = [no |-> e.no, near |-> e.near, cells |-> e.cells, left |-> left,
             result |-> e.result, held |-> e.held, committed |-> e.committed]
  BY ScanIs DEF e1
<1> QED
  BY <1>1 DEF e1

LEMMA PersistedIs ==
  ASSUME NEW e \in Scans, NEW committed
  PROVE  [e EXCEPT !.committed = committed]
           = [no |-> e.no, near |-> e.near, cells |-> e.cells, left |-> e.left,
              result |-> e.result, held |-> e.held, committed |-> committed]
<1> DEFINE e1 == [e EXCEPT !.committed = committed]
<1> HIDE DEF e1
<1>1. e1 = [no |-> e.no, near |-> e.near, cells |-> e.cells, left |-> e.left,
             result |-> e.result, held |-> e.held, committed |-> committed]
  BY ScanIs DEF e1
<1> QED
  BY <1>1 DEF e1

IsNew(e, nodes, ctx) ==
  /\ e.nodes = nodes /\ e.done = {} /\ e.ctx = ctx /\ e.at = 1 /\ e.moved = FALSE
  /\ e.rounds = 1 /\ (nodes \subseteq Modules /\ ctx \in Contexts => e \in Execs)

LEMMA NewExecIs ==
  ASSUME NEW nodes, NEW ctx
  PROVE  IsNew(NewExec(nodes, ctx), nodes, ctx)
<1> DEFINE b == NoExec
           e == NewExec(nodes, ctx)
<1>1. e = [b EXCEPT !.nodes = nodes, !.ctx = ctx]
  BY DEF NewExec
<1>2. b \in Execs /\ b.done = {} /\ b.rounds = 1 /\ b.at = 1 /\ b.moved = FALSE
  BY NoExecTyped
<1> HIDE DEF b, e
<1>3. e = [nodes |-> nodes, at |-> b.at, done |-> b.done, moved |-> b.moved,
           rounds |-> b.rounds, ctx |-> ctx]
  BY <1>1, <1>2, EnteredIs
<1>4. /\ e.nodes = nodes /\ e.done = {} /\ e.ctx = ctx /\ e.at = 1 /\ e.moved = FALSE
      /\ e.rounds = 1
  BY <1>2, <1>3
<1>5. ASSUME nodes \subseteq Modules, ctx \in Contexts PROVE e \in Execs
  BY <1>2, <1>3, <1>5 DEF Execs
<1> QED
  BY <1>4, <1>5 DEF e, IsNew

IsTrim(t, h, e) ==
  \/ /\ Len(t) = Len(h) + 1 /\ Len(h) + 1 <= MaxHistory /\ t[Len(h) + 1] = e
     /\ \A i \in 1 .. Len(h) : t[i] = h[i]
  \/ /\ Len(t) = Len(h) /\ Len(h) >= MaxHistory /\ Len(h) >= 1 /\ t[Len(h)] = e
     /\ \A i \in 1 .. Len(h) - 1 : t[i] = h[i + 1]

LEMMA TrimmedIs ==
  ASSUME NEW S, NEW h \in Seq(S), NEW e \in S
  PROVE  LET t == Trimmed(Append(h, e)) IN t \in Seq(S) /\ IsTrim(t, h, e)
<1> DEFINE a == Append(h, e)
           n == Len(h)
<1>1. n \in Nat /\ a \in Seq(S) /\ Len(a) = n + 1 /\ a[n + 1] = e /\ \A i \in 1 .. n : a[i] = h[i]
  BY AppendProperties, LenProperties
<1>2. MaxHistory \in Nat /\ MaxHistory >= 2
  BY MaxHistoryAssumption
<1> HIDE DEF a
<1>3. Tail(a) \in Seq(S) /\ Len(Tail(a)) = n /\ \A i \in 1 .. n : Tail(a)[i] = a[i + 1]
  <2>1. a # << >>
    BY <1>1
  <2> QED
    BY <1>1, <2>1, HeadTailProperties
<1>4. CASE n + 1 > MaxHistory
  <2>1. Trimmed(a) = Tail(a)
    BY <1>1, <1>4 DEF Trimmed
  <2>2. n >= 1 /\ n >= MaxHistory
    BY <1>1, <1>2, <1>4
  <2>3. Tail(a)[n] = e
    BY <1>1, <1>3, <2>2
  <2>4. \A i \in 1 .. n - 1 : Tail(a)[i] = h[i + 1]
    BY <1>1, <1>3
  <2> QED
    BY <1>3, <2>1, <2>2, <2>3, <2>4 DEF a, IsTrim
<1>5. CASE ~(n + 1 > MaxHistory)
  <2>1. Trimmed(a) = a
    BY <1>1, <1>5 DEF Trimmed
  <2> QED
    BY <1>1, <1>2, <1>5, <2>1 DEF a, IsTrim
<1> QED
  BY <1>4, <1>5

LEMMA TypeInit == Init => TypeInv
<1> SUFFICES ASSUME Init PROVE TypeInv
  OBVIOUS
<1>1. /\ registry = Empty /\ enabled = {} /\ pc = "off" /\ scan = NoScan /\ exec = NoExec
      /\ history = <<>> /\ log = <<>> /\ verdict = NoVerdict
  BY DEF Init
<1>2. RegistryTyped
  BY <1>1, EmptyTyped, FS_EmptySet DEF RegistryTyped
<1>3. ScanTyped
  BY <1>1, NoScanTyped DEF ScanTyped
<1>4. ExecTyped
  BY <1>1, NoExecTyped DEF ExecTyped
<1>5. verdict.module = None
  BY <1>1 DEF NoVerdict
<1>6. Placed
  BY <1>1, <1>5 DEF Placed, NothingYet, ScanLive
<1> QED
  BY <1>2, <1>3, <1>4, <1>6 DEF TypeInv

(* Nothing of a scan, before the first one.                                 *)
LEMMA NothingTyped ==
  ASSUME NothingYet', RegistryTyped', pc' \in Early \cup {"ready"},
         pc' = "ready" => \A g \in Graphs(enabled') : ~DuplicateKey(g)
  PROVE  TypeInv'
<1>1. /\ scan' = NoScan /\ exec' = NoExec /\ history' = <<>> /\ log' = <<>>
      /\ verdict' = NoVerdict
  BY DEF NothingYet
<1>2. ScanTyped'
  BY <1>1, NoScanTyped DEF ScanTyped
<1>3. ExecTyped'
  BY <1>1, NoExecTyped DEF ExecTyped
<1>4. verdict'.module = None
  BY <1>1 DEF NoVerdict
<1>5. pc' \notin {"running", "enriching", "posting"} /\ (pc' \in ScanLive => pc' = "ready")
  BY DEF Early, ScanLive
<1>6. Placed'
  BY <1>1, <1>4, <1>5 DEF Placed
<1> QED
  BY <1>2, <1>3, <1>6 DEF TypeInv

(* A node runs: it is done, what it gives is in the context, and it is on   *)
(* the log with what it saw.                                                *)
LEMMA RunNodeIs ==
  ASSUME TypeInv, NEW m \in exec.nodes, RunNode(m)
  PROVE  /\ Executing /\ m \in Ahead /\ m \in Modules /\ m \notin exec.done
         /\ exec'.nodes = exec.nodes /\ exec'.done = exec.done \cup {m}
         /\ exec'.at = registry[m] + 1 /\ exec'.moved = TRUE /\ exec'.rounds = exec.rounds
         /\ exec'.ctx = DeepMerge(exec.ctx, [k \in Decl(m).gives |-> m]) /\ exec' \in Execs
         /\ log' = Append(log, [module |-> m, saw |-> Seen(m)])
         /\ [module |-> m, saw |-> Seen(m)] \in Entries
         /\ UNCHANGED <<disk, process, pc, scan, history, verdict>>
<1> DEFINE t == TRUE
           c == DeepMerge(exec.ctx, [k \in Decl(m).gives |-> m])
           d == exec.done \cup {m}
           at == registry[m] + 1
<1>1. /\ exec \in Execs /\ m \in DOMAIN registry /\ registry \in Registries
      /\ exec.ctx \in Contexts /\ exec.done \in SUBSET Modules /\ exec.nodes \in SUBSET Modules
      /\ exec.rounds \in Nat
  BY DEF TypeInv, RegistryTyped, ExecTyped, Execs
<1>2. m \in Modules /\ registry[m] \in Nat \ {0}
  BY <1>1, RegistryIs
<1>3. t \in BOOLEAN
  OBVIOUS
<1>4. [k \in Decl(m).gives |-> m] \in Contexts
  BY <1>2, KeysKnown, IsContext
<1>5. c \in Contexts
  BY <1>1, <1>4, MergeTyped
<1>6. /\ log' = Append(log, [module |-> m, saw |-> Seen(m)])
      /\ exec' = [exec EXCEPT !.at = at, !.done = d, !.moved = t, !.ctx = c]
      /\ Executing /\ m \in Ahead
      /\ UNCHANGED <<disk, process, pc, scan, history, verdict>>
  BY DEF RunNode, Visit
<1>7. m \notin exec.done
  BY <1>6 DEF Ahead
<1>8. Seen(m) \in Contexts
  <2> DEFINE K == Decl(m).needs \cap DOMAIN exec.ctx
  <2>1. K \subseteq AllKeys /\ \A k \in K : exec.ctx[k] \in {"base"} \cup Modules
    BY <1>1, ContextIs
  <2>2. [k \in K |-> exec.ctx[k]] \in [K -> {"base"} \cup Modules]
    BY <2>1
  <2> QED
    BY <2>1, <2>2, IsContext DEF Seen
<1>9. at \in Nat \ {0} /\ d \in SUBSET Modules
  BY <1>1, <1>2
<1>10. [module |-> m, saw |-> Seen(m)] \in Entries
  BY <1>2, <1>8 DEF Entries
<1> HIDE DEF t, c, d, at
<1>11. exec' = [nodes |-> exec.nodes, at |-> at, done |-> d, moved |-> t,
                rounds |-> exec.rounds, ctx |-> c]
  BY <1>1, <1>6, RanIs
<1>12. exec' \in Execs
  BY <1>1, <1>3, <1>5, <1>9, <1>11 DEF Execs
<1>13. /\ exec'.nodes = exec.nodes /\ exec'.done = d /\ exec'.at = at /\ exec'.moved = t
       /\ exec'.rounds = exec.rounds /\ exec'.ctx = c
  BY <1>11
<1> QED
  BY <1>2, <1>6, <1>7, <1>10, <1>12, <1>13 DEF t, c, d, at

LEMMA NextRoundIs ==
  ASSUME TypeInv, NextRound
  PROVE  /\ Executing /\ exec.moved = TRUE
         /\ exec'.nodes = exec.nodes /\ exec'.done = exec.done /\ exec'.at = 1
         /\ exec'.moved = FALSE /\ exec'.rounds = exec.rounds + 1 /\ exec'.ctx = exec.ctx
         /\ exec' \in Execs /\ UNCHANGED <<disk, process, pc, scan, history, log, verdict>>
<1> DEFINE t == FALSE
<1>1. /\ exec \in Execs /\ exec.moved \in BOOLEAN /\ exec.rounds \in Nat
      /\ exec.ctx \in Contexts /\ exec.done \in SUBSET Modules /\ exec.nodes \in SUBSET Modules
  BY DEF TypeInv, ExecTyped, Execs
<1>2. /\ exec' = [exec EXCEPT !.at = 1, !.moved = t, !.rounds = exec.rounds + 1]
      /\ Executing /\ exec.moved
      /\ UNCHANGED <<disk, process, pc, scan, history, log, verdict>>
  BY DEF NextRound, RoundEnds
<1>3. t \in BOOLEAN
  OBVIOUS
<1> HIDE DEF t
<1>4. exec' = [nodes |-> exec.nodes, at |-> 1, done |-> exec.done, moved |-> t,
               rounds |-> exec.rounds + 1, ctx |-> exec.ctx]
  BY <1>1, <1>2, RoundIs
<1>5. exec' \in Execs
  BY <1>1, <1>3, <1>4 DEF Execs
<1>6. /\ exec'.nodes = exec.nodes /\ exec'.done = exec.done /\ exec'.at = 1 /\ exec'.moved = t
      /\ exec'.rounds = exec.rounds + 1 /\ exec'.ctx = exec.ctx
  BY <1>4
<1> QED
  BY <1>1, <1>2, <1>5, <1>6 DEF t

(* A scan begins with its groups ahead of it and nothing of the last one.   *)
LEMMA BeginScanIs ==
  ASSUME TypeInv, NEW near \in BOOLEAN, NEW cells \in BOOLEAN, BeginScan(near, cells)
  PROVE  /\ scan' \in Scans /\ scan'.no = scan.no + 1 /\ scan'.left = Histories(enabled)
         /\ scan'.result = Empty /\ scan'.held = {scan.no + 1} /\ scan.no \in Nat
         /\ pc = "ready" /\ pc' = "groups" /\ exec' = NoExec /\ log' = <<>>
         /\ verdict' = NoVerdict /\ launch.kind = "live"
         /\ UNCHANGED <<disk, process, history>>
<1> DEFINE b == NoScan
           no == scan.no + 1
           left == Histories(enabled)
           held == {no}
           close == near
           some == cells
<1>1. /\ scan' = [b EXCEPT !.no = no, !.near = close, !.cells = some, !.left = left, !.held = held]
      /\ pc = "ready" /\ pc' = "groups" /\ exec' = NoExec /\ log' = <<>>
      /\ verdict' = NoVerdict /\ launch.kind = "live" /\ scan.no < MaxScans
      /\ UNCHANGED <<disk, process, history>>
  BY DEF BeginScan
<1>2. b \in Scans /\ b.result = Empty
  BY NoScanTyped
<1>3. scan.no \in 0 .. MaxScans /\ MaxScans \in Nat
  BY BoundsAssumption DEF TypeInv, ScanTyped, Scans
<1>4. no \in 0 .. MaxScans /\ held \in SUBSET Nat
  BY <1>1, <1>3
<1>5. left \in SUBSET Nat
  BY GroupsTyped, RegistryIs DEF TypeInv, RegistryTyped
<1>6. b.result \in Contexts /\ b.committed \in BOOLEAN
  BY <1>2 DEF Scans
<1>10. close \in BOOLEAN /\ some \in BOOLEAN
  OBVIOUS
<1> HIDE DEF b, no, left, held, close, some
<1>7. scan' = [no |-> no, near |-> close, cells |-> some, left |-> left,
               result |-> b.result, held |-> held, committed |-> b.committed]
  <2> DEFINE b1 == [b EXCEPT !.no = no]
             b2 == [b1 EXCEPT !.near = close]
             b3 == [b2 EXCEPT !.cells = some]
             b4 == [b3 EXCEPT !.left = left]
             b5 == [b4 EXCEPT !.held = held]
  <2>0. scan' = b5
    BY <1>1
  <2> HIDE DEF b1, b2, b3, b4, b5
  <2>1. b1 = [no |-> no, near |-> b.near, cells |-> b.cells, left |-> b.left,
              result |-> b.result, held |-> b.held, committed |-> b.committed]
    BY <1>2, ScanIs DEF b1
  <2>2. b2 = [no |-> no, near |-> close, cells |-> b.cells, left |-> b.left,
              result |-> b.result, held |-> b.held, committed |-> b.committed]
    BY <2>1 DEF b2
  <2>3. b3 = [no |-> no, near |-> close, cells |-> some, left |-> b.left,
              result |-> b.result, held |-> b.held, committed |-> b.committed]
    BY <2>2 DEF b3
  <2>4. b4 = [no |-> no, near |-> close, cells |-> some, left |-> left,
              result |-> b.result, held |-> b.held, committed |-> b.committed]
    BY <2>3 DEF b4
  <2>5. b5 = [no |-> no, near |-> close, cells |-> some, left |-> left,
              result |-> b.result, held |-> held, committed |-> b.committed]
    BY <2>4 DEF b5
  <2> QED
    BY <2>0, <2>5
<1>8. scan' \in Scans
  BY <1>4, <1>5, <1>6, <1>7, <1>10 DEF Scans
<1>9. scan'.no = no /\ scan'.left = left /\ scan'.result = b.result /\ scan'.held = held
  BY <1>7
<1> QED
  BY <1>1, <1>2, <1>3, <1>8, <1>9 DEF no, left, held

LEMMA LeftIs ==
  ASSUME TypeInv
  PROVE  /\ scan \in Scans /\ scan.no \in 0 .. MaxScans /\ scan.result \in Contexts
         /\ scan.left \subseteq Nat \ {0} /\ scan.held \subseteq 1 .. scan.no
         /\ scan.near \in BOOLEAN /\ scan.cells \in BOOLEAN /\ scan.committed \in BOOLEAN
         /\ enabled \subseteq Modules
         /\ scan.left # {} => /\ NextGroup \in scan.left /\ NextGroup \in Nat \ {0}
                             /\ \A h \in scan.left : NextGroup <= h
<1>1. enabled \subseteq Modules
  BY RegistryIs DEF TypeInv, RegistryTyped
<1>2. scan.left \subseteq Nat \ {0}
  BY <1>1, GroupsTyped DEF TypeInv, ScanTyped
<1>3. scan.left # {} => /\ NextGroup \in scan.left /\ \A h \in scan.left : NextGroup <= h
  BY <1>2, NextGroupIs
<1>4. /\ scan \in Scans /\ scan.no \in 0 .. MaxScans /\ scan.result \in Contexts
      /\ scan.held \subseteq 1 .. scan.no
      /\ scan.near \in BOOLEAN /\ scan.cells \in BOOLEAN /\ scan.committed \in BOOLEAN
  BY DEF TypeInv, ScanTyped, Scans
<1> QED
  BY <1>1, <1>2, <1>3, <1>4

(* Group 1 is never skipped.                                                *)
LEMMA SkipGroupIs ==
  ASSUME TypeInv, SkipGroup
  PROVE  /\ pc = "groups" /\ scan.left # {} /\ NextGroup # 1 /\ scan'.left = scan.left \ {NextGroup}
         /\ scan' \in Scans /\ scan'.no = scan.no /\ scan'.result = scan.result
         /\ scan'.held = scan.held /\ scan'.near = scan.near /\ ~(HasHistory /\ GapFits)
         /\ UNCHANGED <<disk, process, pc, exec, history, log, verdict>>
<1> DEFINE left == scan.left \ {NextGroup}
<1>1. /\ pc = "groups" /\ scan.left # {} /\ ~(HasHistory /\ GapFits)
      /\ scan' = [scan EXCEPT !.left = left]
      /\ UNCHANGED <<disk, process, pc, exec, history, log, verdict>>
  BY DEF SkipGroup
<1>2. NextGroup # 1
  <2>1. Len(history) \in Nat
    BY LenProperties DEF TypeInv, ScanTyped
  <2> QED
    BY <1>1, <2>1 DEF HasHistory, GapFits, PriorNeeded
<1>3. left \in SUBSET Nat
  BY LeftIs
<1> HIDE DEF left
<1>4. scan' = [no |-> scan.no, near |-> scan.near, cells |-> scan.cells, left |-> left,
               result |-> scan.result, held |-> scan.held, committed |-> scan.committed]
  BY <1>1, LeftIs, SkippedIs
<1>5. scan.held \in SUBSET Nat
  BY DEF TypeInv, ScanTyped, Scans
<1>6. scan' \in Scans
  BY <1>3, <1>4, <1>5, LeftIs DEF Scans
<1>7. /\ scan'.left = left /\ scan'.no = scan.no /\ scan'.result = scan.result
      /\ scan'.held = scan.held /\ scan'.near = scan.near
  BY <1>4
<1> QED
  BY <1>1, <1>2, <1>6, <1>7 DEF left

LEMMA EnterGroupIs ==
  ASSUME TypeInv, EnterGroup
  PROVE  /\ pc = "groups" /\ scan.left # {} /\ pc' = "running" /\ Len(history) >= NextGroup - 1
         /\ GapFits
         /\ IsNew(exec', Graph(enabled, NextGroup), exec'.ctx) /\ exec'.ctx \in Contexts
         /\ DOMAIN exec'.ctx = ScanKeys \cup ConfigKeys \cup DOMAIN scan.result
              \cup (IF NextGroup = 1 THEN {} ELSE {"scan_history"})
         /\ UNCHANGED <<disk, process, scan, history, log, verdict>>
<1> DEFINE ctx == DeepMerge(BaseContext, scan.result)
           g == Given({"scan_history"})
           c == IF NextGroup = 1 THEN ctx ELSE DeepMerge(ctx, g)
           n == Graph(enabled, NextGroup)
<1>1. /\ pc = "groups" /\ scan.left # {} /\ HasHistory /\ GapFits /\ pc' = "running"
      /\ exec' = NewExec(n, c)
      /\ UNCHANGED <<disk, process, scan, history, log, verdict>>
  BY DEF EnterGroup
<1>2. registry \in Registries
  BY DEF TypeInv, RegistryTyped
<1>3. BaseContext \in Contexts /\ DOMAIN BaseContext = ScanKeys \cup ConfigKeys
  BY <1>2, BaseTyped
<1>4. ctx \in Contexts /\ DOMAIN ctx = ScanKeys \cup ConfigKeys \cup DOMAIN scan.result
  <2>1. IsMerge(ctx, BaseContext, scan.result)
    BY MergeIs
  <2> QED
    BY <1>3, <2>1, LeftIs, MergeTyped DEF IsMerge
<1>5. g \in Contexts /\ DOMAIN g = {"scan_history"}
  BY KeysKnown, GivenTyped
<1> HIDE DEF ctx, g, n
<1>6. c \in Contexts /\ DOMAIN c = DOMAIN ctx \cup (IF NextGroup = 1 THEN {} ELSE {"scan_history"})
  <2>1. IsMerge(DeepMerge(ctx, g), ctx, g)
    BY MergeIs
  <2> QED
    BY <1>4, <1>5, <2>1, MergeTyped DEF IsMerge
<1> HIDE DEF c
<1>7. IsNew(exec', n, c)
  BY <1>1, NewExecIs
<1>8. exec'.ctx = c
  BY <1>7 DEF IsNew
<1> QED
  BY <1>1, <1>4, <1>6, <1>7, <1>8 DEF n, HasHistory, PriorNeeded

(* A group that ended leaves its whole context as the scan's result.        *)
LEMMA EndGroupIs ==
  ASSUME TypeInv, EndGroup
  PROVE  /\ pc = "running" /\ pc' = "groups" /\ exec.done = exec.nodes /\ scan.left # {}
         /\ exec.nodes = Graph(enabled, NextGroup)
         /\ scan' \in Scans /\ scan'.no = scan.no /\ scan'.left = scan.left \ {NextGroup}
         /\ scan'.result = exec.ctx /\ scan'.held \subseteq 1 .. scan.no /\ exec' = NoExec
         /\ scan'.near = scan.near
         /\ UNCHANGED <<disk, process, history, log, verdict>>
<1> DEFINE P == Prior(NextGroup)
           past == IF NextGroup = 1 THEN {} ELSE UNION {P[i].held : i \in DOMAIN P}
           left == scan.left \ {NextGroup}
           held == scan.held \cup past
           ctx == exec.ctx
<1>1. /\ pc = "running" /\ exec.done = exec.nodes /\ pc' = "groups" /\ exec' = NoExec
      /\ scan' = [scan EXCEPT !.left = left, !.result = ctx, !.held = held]
      /\ UNCHANGED <<disk, process, history, log, verdict>>
  BY DEF EndGroup
<1>2. /\ scan.left # {} /\ Len(history) >= NextGroup - 1
      /\ exec.nodes = Graph(enabled, NextGroup)
  BY <1>1 DEF TypeInv, Placed
<1>3. /\ history \in Seq(Pasts) /\ NextGroup \in Nat \ {0} /\ scan.no \in Nat
      /\ scan.held \subseteq 1 .. scan.no
      /\ \A i \in DOMAIN history : history[i].held \subseteq 1 .. scan.no
  BY <1>2, LeftIs DEF TypeInv, ScanTyped
<1>4. ASSUME NEW i \in DOMAIN P PROVE P[i].held \subseteq 1 .. scan.no
  <2>1. \E j \in DOMAIN history : P[i] = history[j]
    BY <1>2, <1>3, PriorIs
  <2> QED
    BY <1>3, <2>1
<1> HIDE DEF P
<1>5. past \subseteq 1 .. scan.no
  BY <1>4
<1>6. held \subseteq 1 .. scan.no /\ left \in SUBSET Nat /\ ctx \in Contexts
  BY <1>3, <1>5, LeftIs DEF TypeInv, ExecTyped, Execs
<1> HIDE DEF left, held, ctx
<1>7. scan' = [no |-> scan.no, near |-> scan.near, cells |-> scan.cells, left |-> left,
               result |-> ctx, held |-> held, committed |-> scan.committed]
  <2> DEFINE b1 == [scan EXCEPT !.left = left]
             b2 == [b1 EXCEPT !.result = ctx]
             b3 == [b2 EXCEPT !.held = held]
  <2>0. scan' = b3
    BY <1>1
  <2> HIDE DEF b1, b2, b3
  <2>1. b1 = [no |-> scan.no, near |-> scan.near, cells |-> scan.cells, left |-> left,
              result |-> scan.result, held |-> scan.held, committed |-> scan.committed]
    BY LeftIs, ScanIs DEF b1
  <2>2. b2 = [no |-> scan.no, near |-> scan.near, cells |-> scan.cells, left |-> left,
              result |-> ctx, held |-> scan.held, committed |-> scan.committed]
    BY <2>1 DEF b2
  <2>3. b3 = [no |-> scan.no, near |-> scan.near, cells |-> scan.cells, left |-> left,
              result |-> ctx, held |-> held, committed |-> scan.committed]
    BY <2>2 DEF b3
  <2> QED
    BY <2>0, <2>3
<1>8. held \in SUBSET Nat
  BY <1>6
<1>9. scan' \in Scans
  BY <1>6, <1>7, <1>8, LeftIs DEF Scans
<1>10. /\ scan'.no = scan.no /\ scan'.left = left /\ scan'.result = ctx /\ scan'.held = held
       /\ scan'.near = scan.near
  BY <1>7
<1> QED
  BY <1>1, <1>2, <1>6, <1>9, <1>10 DEF left, ctx

(* A scan that got through its groups joins the history, and the oldest     *)
(* leaves a full one.                                                       *)
LEMMA AccumulateIs ==
  ASSUME TypeInv, Accumulate
  PROVE  /\ pc = "groups" /\ scan.left = {} /\ pc' = "persist"
         /\ UNCHANGED <<disk, process, scan, exec, log, verdict>>
         /\ LET n == Len(history)
                Is(e) == /\ e.no = scan.no /\ e.held = scan.held
                         /\ e.keys = ScanKeys \cup DOMAIN scan.result
            IN /\ history' \in Seq(Pasts) /\ n \in Nat /\ DOMAIN history' = 1 .. Len(history')
               /\ \/ Len(history') = n + 1 /\ n + 1 <= MaxHistory /\ Is(history'[n + 1])
                       /\ \A i \in 1 .. n : history'[i] = history[i]
                  \/ Len(history') = n /\ n >= 1 /\ Is(history'[n])
                       /\ \A i \in 1 .. n - 1 : history'[i] = history[i + 1]
<1> DEFINE n == Len(history)
           e == [no |-> scan.no, keys |-> ScanKeys \cup DOMAIN scan.result, held |-> scan.held]
<1>1. /\ pc = "groups" /\ scan.left = {} /\ pc' = "persist"
      /\ history' = Trimmed(Append(history, e))
      /\ UNCHANGED <<disk, process, scan, exec, log, verdict>>
  BY DEF Accumulate
<1>2. /\ history \in Seq(Pasts) /\ scan.no \in Nat /\ scan.held \in SUBSET Nat
      /\ ScanKeys \cup DOMAIN scan.result \in SUBSET AllKeys
  <2>1. scan.result \in Contexts
    BY LeftIs
  <2>2. DOMAIN scan.result \subseteq AllKeys
    BY <2>1, ContextIs
  <2> QED
    BY <2>2, LeftIs, KeysKnown DEF TypeInv, ScanTyped, Scans
<1>3. e \in Pasts
  BY <1>2 DEF Pasts
<1>4. e.no = scan.no /\ e.held = scan.held /\ e.keys = ScanKeys \cup DOMAIN scan.result
  OBVIOUS
<1> HIDE DEF e
<1>5. /\ history' \in Seq(Pasts)
      /\ \/ Len(history') = n + 1 /\ n + 1 <= MaxHistory /\ history'[n + 1] = e
              /\ \A i \in 1 .. n : history'[i] = history[i]
         \/ Len(history') = n /\ n >= MaxHistory /\ n >= 1 /\ history'[n] = e
              /\ \A i \in 1 .. n - 1 : history'[i] = history[i + 1]
  <2>1. history' \in Seq(Pasts) /\ IsTrim(history', history, e)
    BY <1>1, <1>2, <1>3, TrimmedIs
  <2> QED
    BY <2>1 DEF IsTrim
<1>6. n \in Nat /\ DOMAIN history' = 1 .. Len(history')
  BY <1>2, <1>5, LenProperties
<1> QED
  BY <1>1, <1>4, <1>5, <1>6

LEMMA PersistIs ==
  ASSUME TypeInv, Persist
  PROVE  /\ pc = "persist" /\ pc' = "enrich"
         /\ scan' \in Scans /\ scan'.no = scan.no /\ scan'.left = scan.left
         /\ scan'.result = scan.result /\ scan'.held = scan.held
         /\ UNCHANGED <<disk, process, exec, history, log, verdict>>
<1> DEFINE t == Tracked
<1>1. /\ pc = "persist" /\ pc' = "enrich" /\ scan' = [scan EXCEPT !.committed = t]
      /\ UNCHANGED <<disk, process, exec, history, log, verdict>>
  BY DEF Persist
<1>2. t \in BOOLEAN
  BY LeftIs DEF Tracked
<1>3. scan.left \in SUBSET Nat /\ scan.held \in SUBSET Nat
  BY DEF TypeInv, ScanTyped, Scans
<1> HIDE DEF t
<1>4. scan' = [no |-> scan.no, near |-> scan.near, cells |-> scan.cells, left |-> scan.left,
               result |-> scan.result, held |-> scan.held, committed |-> t]
  BY <1>1, LeftIs, PersistedIs
<1>5. scan' \in Scans
  BY <1>2, <1>3, <1>4, LeftIs DEF Scans
<1>6. /\ scan'.no = scan.no /\ scan'.left = scan.left
      /\ scan'.result = scan.result /\ scan'.held = scan.held
  BY <1>4
<1> QED
  BY <1>1, <1>5, <1>6

LEMMA EnrichTyped ==
  ASSUME TypeInv
  PROVE  EnrichContext \in Contexts
<1> DEFINE K == {"run_id", "scan_id", "scan_time"} \cup IF WantsGrid THEN {"grid_ds_3d"} ELSE {}
<1>1. K \subseteq AllKeys
  BY KeysKnown DEF ScanKeys
<1>2. EnrichContext = DeepMerge(scan.result, Given(K))
  BY DEF EnrichContext
<1> HIDE DEF K
<1>3. Given(K) \in Contexts
  BY <1>1, GivenTyped
<1> QED
  BY <1>2, <1>3, LeftIs, MergeTyped

LEMMA PostContextIs ==
  ASSUME registry \in Registries, enabled \subseteq DOMAIN registry
  PROVE  PostContext \in Contexts
<1> DEFINE U == UNION {Decl(m).needs : m \in enabled}
           S == {"minute_masks", "projection_minute_masks", "radar_origin"}
           K == {"run_id"} \cup ConfigKeys \cup (U \cap S)
<1>1. \A k \in U : \E m \in enabled : k \in Decl(m).needs
  OBVIOUS
<1>2. PostContext = Given(K)
  BY DEF PostContext
<1> HIDE DEF U, S
<1>3. \A k \in U : k \in AllKeys
  BY <1>1, RegistryIs, KeysKnown
<1>4. K \subseteq AllKeys
  BY <1>3, BaseTyped, KeysKnown
<1> QED
  BY <1>2, <1>4, GivenTyped

(* A graph is entered to enrich the scan, or the enrichment is refused.     *)
LEMMA EnterEnrichmentIs ==
  ASSUME TypeInv, EnterEnrichment
  PROVE  /\ pc = "enrich" /\ PostGraph(enabled) # {} /\ Tracked
         /\ \/ /\ Fails("grid", None, {"grid_ds"}) /\ "grid_ds" \notin DOMAIN scan.result
               /\ WantsGrid
            \/ /\ exec' = NewExec(PostGraph(enabled), EnrichContext)
               /\ IsNew(exec', PostGraph(enabled), EnrichContext) /\ pc' = "enriching"
               /\ EnrichContext \in Contexts
               /\ UNCHANGED <<disk, process, scan, history, log, verdict>>
<1> DEFINE n == PostGraph(enabled)
           c == EnrichContext
<1>1. pc = "enrich" /\ PostGraph(enabled) # {} /\ Tracked
  BY DEF EnterEnrichment
<1>2. \/ /\ Fails("grid", None, {"grid_ds"}) /\ "grid_ds" \notin DOMAIN scan.result /\ WantsGrid
      \/ /\ exec' = NewExec(n, c) /\ pc' = "enriching"
         /\ UNCHANGED <<disk, process, scan, history, log, verdict>>
  BY DEF EnterEnrichment
<1> HIDE DEF n, c
<1>3. exec' = NewExec(n, c) => IsNew(exec', n, c)
  BY NewExecIs
<1> QED
  BY <1>1, <1>2, <1>3, EnrichTyped DEF n, c

LEMMA LaunchStepIs ==
  ASSUME LaunchStep
  PROVE  /\ pc = "off" /\ pc' \in {"configured", "refused"}
         /\ UNCHANGED <<registry, enabled, scan, exec, history, log, verdict>>
<1>1. ASSUME NEW flags \in Flags, Continue(flags)
      PROVE  /\ pc = "off" /\ pc' \in {"configured", "refused"}
             /\ UNCHANGED <<registry, enabled, scan, exec, history, log, verdict>>
  BY <1>1 DEF Continue
<1>2. ASSUME NEW kind, NEW file, NEW flags, NEW r, Launched(kind, file, flags, r)
      PROVE  /\ pc = "off" /\ pc' \in {"configured", "refused"}
             /\ UNCHANGED <<registry, enabled, scan, exec, history, log, verdict>>
  BY <1>2 DEF Launched
<1>3. ASSUME NEW flags \in Flags, LaunchHere(flags)
      PROVE  \E kind, file, given, r : Launched(kind, file, given, r)
  BY <1>3 DEF LaunchHere
<1>4. ASSUME NEW flags \in Flags, NEW file \in Files, LaunchWith(file, flags)
      PROVE  \E kind, from, given, r : Launched(kind, from, given, r)
  BY <1>4 DEF LaunchWith
<1>5. ASSUME NEW request, NEW file, LaunchPost(file, request)
      PROVE  \E kind, from, given, r : Launched(kind, from, given, r)
  BY <1>5 DEF LaunchPost
<1> QED
  BY <1>1, <1>2, <1>3, <1>4, <1>5 DEF LaunchStep

LEMMA LaunchTypeKeeps ==
  ASSUME LaunchInv, TypeInv,
         LaunchStep \/ RecordRun \/ ImportModules \/ SelectModules \/ Exit
  PROVE  TypeInv'
<1>1. RegistryTyped /\ (pc \in Early => NothingYet)
  BY DEF TypeInv, Placed
<1>2. CASE LaunchStep
  <2>1. /\ pc = "off" /\ pc' \in {"configured", "refused"}
        /\ UNCHANGED <<registry, enabled, scan, exec, history, log, verdict>>
    BY <1>2, LaunchStepIs
  <2>2. NothingYet' /\ RegistryTyped'
    BY <1>1, <2>1 DEF NothingYet, RegistryTyped, Early
  <2> QED
    BY <2>1, <2>2, NothingTyped DEF Early
<1>3. CASE RecordRun
  <2>1. /\ pc = "configured" /\ pc' = "recorded"
        /\ UNCHANGED <<registry, enabled, scan, exec, history, log, verdict>>
    BY <1>3 DEF RecordRun, process
  <2>2. NothingYet' /\ RegistryTyped'
    BY <1>1, <2>1 DEF NothingYet, RegistryTyped, Early
  <2> QED
    BY <2>1, <2>2, NothingTyped DEF Early
<1>4. CASE ImportModules
  <2>1. /\ pc \in {"configured", "recorded"} /\ pc' \in {"registered", "refused"}
        /\ UNCHANGED <<enabled, scan, exec, history, log, verdict>>
    BY <1>4 DEF ImportModules, Refuse
  <2>2. /\ launch.kind \in {"live", "post"}
        /\ launch.kind = "live" => launch.config.extensions \in Seq(STRING)
    BY <2>1 DEF LaunchInv, LaunchTyped, Either, LiveOnly
  <2>3. registry' \in Registries /\ IsFiniteSet(DOMAIN registry')
    BY <1>4, <2>2, ImportIs
  <2>4. NothingYet' /\ RegistryTyped'
    BY <1>1, <2>1, <2>3 DEF NothingYet, RegistryTyped, Early
  <2> QED
    BY <2>1, <2>4, NothingTyped DEF Early
<1>5. CASE SelectModules
  <2>1. pc = "registered" /\ UNCHANGED <<registry, scan, exec, history, log, verdict>>
    BY <1>5 DEF SelectModules, Refuse
  <2>2. /\ pc' \in {"selected", "refused"}
        /\ enabled' = enabled \/ enabled' = Select(Available, Selection)
    BY <1>5 DEF SelectModules, Refuse
  <2>3. DOMAIN Available \subseteq DOMAIN registry
    BY DEF Available
  <2>4. Select(Available, Selection) \subseteq DOMAIN registry
    BY <2>3 DEF Select
  <2>5. enabled' \subseteq DOMAIN registry'
    BY <1>1, <2>1, <2>2, <2>4 DEF RegistryTyped
  <2>6. NothingYet' /\ RegistryTyped'
    BY <1>1, <2>1, <2>2, <2>5 DEF NothingYet, RegistryTyped, Early
  <2> QED
    BY <2>2, <2>6, NothingTyped DEF Early
<1>6. CASE Exit
  <2>1. NothingYet' /\ registry' = Empty /\ enabled' = {} /\ pc' = "off"
    BY <1>6 DEF Exit, NothingYet
  <2>2. RegistryTyped'
    BY <2>1, EmptyTyped, FS_EmptySet DEF RegistryTyped
  <2> QED
    BY <2>1, <2>2, NothingTyped DEF Early
<1> QED
  BY <1>2, <1>3, <1>4, <1>5, <1>6

LEMMA BuildTypeKeeps ==
  ASSUME LaunchInv, TypeInv, BuildGraphs
  PROVE  TypeInv'
<1>1. RegistryTyped /\ (pc \in Early => NothingYet)
  BY DEF TypeInv, Placed
<1> DEFINE graphs == IF launch.kind = "post" THEN {enabled} ELSE Graphs(enabled)
           ctx == PostContext
<1>2. /\ pc = "selected" /\ UNCHANGED <<registry, enabled, scan, history, log, verdict>>
      /\ \/ pc' = "refused" /\ UNCHANGED exec
         \/ /\ ~ \E g \in graphs : DuplicateKey(g)
            /\ \/ launch.kind # "post" /\ pc' = "ready" /\ UNCHANGED exec
               \/ launch.kind = "post" /\ pc' = "posting" /\ exec' = NewExec(enabled, ctx)
  BY DEF BuildGraphs, Refuse
<1>3. CASE pc' \in {"refused", "ready"}
  <2>1. NothingYet' /\ RegistryTyped'
    BY <1>1, <1>2, <1>3 DEF NothingYet, RegistryTyped, Early
  <2>2. pc' = "ready" => \A g \in Graphs(enabled') : ~DuplicateKey(g)
    BY <1>2
  <2> QED
    BY <1>3, <2>1, <2>2, NothingTyped DEF Early
<1>4. CASE pc' = "posting"
  <2>1. /\ scan' = NoScan /\ history' = <<>> /\ log' = <<>> /\ verdict' = NoVerdict
        /\ enabled' = enabled /\ registry' = registry
    BY <1>1, <1>2 DEF NothingYet, Early
  <2>2. exec' = NewExec(enabled, ctx) /\ ~DuplicateKey(enabled)
    BY <1>2, <1>4
  <2>3. ctx \in Contexts /\ enabled \subseteq Modules
    BY <1>1, PostContextIs, RegistryIs DEF RegistryTyped
  <2> HIDE DEF ctx
  <2>4. IsNew(exec', enabled, ctx)
    BY <2>2, NewExecIs
  <2>5. ExecTyped'
    BY <2>1, <2>3, <2>4 DEF ExecTyped, IsNew
  <2>6. ScanTyped'
    BY <2>1, NoScanTyped DEF ScanTyped
  <2>7. RegistryTyped'
    BY <1>1, <1>4, <2>1 DEF RegistryTyped
  <2>8. exec'.nodes = enabled /\ verdict'.module = None
    BY <2>1, <2>4 DEF IsNew, NoVerdict
  <2>9. Placed'
    BY <1>4, <2>1, <2>2, <2>8 DEF Placed, Early, ScanLive
  <2> QED
    BY <2>5, <2>6, <2>7, <2>9 DEF TypeInv
<1> QED
  BY <1>2, <1>3, <1>4

(* A scan's failure keeps everything but the verdict.                       *)
LEMMA FailTypeKeeps ==
  ASSUME TypeInv, UNCHANGED <<disk, process, scan, exec, history, log>>,
         verdict'.module \in Modules \cup {None},
         \/ pc \in ScanLive /\ pc' \in {"ready", "stopped"}
         \/ pc = "posting" /\ pc' = "posted"
  PROVE  TypeInv'
<1>1. RegistryTyped'
  BY DEF TypeInv, RegistryTyped, process, ScanLive
<1>2. ScanTyped' /\ ExecTyped'
  BY DEF TypeInv, ScanTyped, ExecTyped, process
<1>3. Placed'
  BY DEF TypeInv, Placed, process, ScanLive, Early
<1> QED
  BY <1>1, <1>2, <1>3 DEF TypeInv

LEMMA ScanTypeKeeps ==
  ASSUME TypeInv, ScanStep
  PROVE  TypeInv'
<1>1. RegistryTyped'
  BY ScanStepIs DEF TypeInv, RegistryTyped, process, ScanLive
<1>2. registry' = registry /\ enabled' = enabled /\ pc' \notin Early
  BY ScanStepIs DEF process, ScanLive, Early
<1>3. ASSUME NEW near \in BOOLEAN, NEW cells \in BOOLEAN, BeginScan(near, cells)
      PROVE  TypeInv'
  <2>1. /\ scan' \in Scans /\ scan'.no = scan.no + 1 /\ scan'.left = Histories(enabled)
        /\ scan'.held = {scan.no + 1} /\ scan.no \in Nat
        /\ pc = "ready" /\ pc' = "groups" /\ exec' = NoExec /\ log' = <<>>
        /\ verdict' = NoVerdict /\ UNCHANGED history
    BY <1>3, BeginScanIs
  <2>2. ScanTyped'
    <3>1. history \in Seq(Pasts) /\ \A i \in DOMAIN history : history[i].held \subseteq 1 .. scan.no
      BY DEF TypeInv, ScanTyped
    <3>2. \A i \in DOMAIN history : history[i].held \subseteq 1 .. scan.no + 1
      BY <2>1, <3>1
    <3>3. {scan.no + 1} \subseteq 1 .. scan.no + 1
      BY <2>1
    <3> QED
      BY <1>2, <2>1, <3>1, <3>2, <3>3 DEF ScanTyped
  <2>3. ExecTyped'
    BY <2>1, NoExecTyped DEF ExecTyped
  <2>4. verdict'.module = None
    BY <2>1 DEF NoVerdict
  <2>5. \A g \in Graphs(enabled) : ~DuplicateKey(g)
    BY <2>1 DEF TypeInv, Placed, ScanLive
  <2>6. Placed'
    BY <1>2, <2>1, <2>4, <2>5 DEF Placed, Early
  <2> QED
    BY <1>1, <2>2, <2>3, <2>6 DEF TypeInv
<1>4. CASE SkipGroup
  <2>1. /\ pc = "groups" /\ scan'.left = scan.left \ {NextGroup}
        /\ scan' \in Scans /\ scan'.no = scan.no /\ scan'.held = scan.held
        /\ UNCHANGED <<pc, exec, history, log, verdict>>
    BY <1>4, SkipGroupIs
  <2>2. ScanTyped' /\ ExecTyped'
    BY <1>2, <2>1 DEF TypeInv, ScanTyped, ExecTyped
  <2>3. Placed'
    BY <1>2, <2>1 DEF TypeInv, Placed, Early, ScanLive
  <2> QED
    BY <1>1, <2>2, <2>3 DEF TypeInv
<1>5. CASE EnterGroup
  <2>1. /\ pc = "groups" /\ scan.left # {} /\ pc' = "running" /\ Len(history) >= NextGroup - 1
        /\ IsNew(exec', Graph(enabled, NextGroup), exec'.ctx) /\ exec'.ctx \in Contexts
        /\ UNCHANGED <<scan, history, log, verdict>>
    BY <1>5, EnterGroupIs
  <2>2. Graph(enabled, NextGroup) \subseteq enabled /\ enabled \subseteq Modules
    BY LeftIs, GroupsTyped
  <2>3. ExecTyped'
    <3>1. /\ exec'.nodes = Graph(enabled, NextGroup) /\ exec'.done = {} /\ exec' \in Execs
      BY <2>1, <2>2 DEF IsNew
    <3> QED
      BY <1>2, <2>1, <2>2, <3>1 DEF TypeInv, ExecTyped
  <2>4. ScanTyped'
    BY <1>2, <2>1 DEF TypeInv, ScanTyped
  <2>5. exec'.nodes = Graph(enabled', NextGroup')
    BY <1>2, <2>1 DEF IsNew, NextGroup
  <2>6. NextGroup' = NextGroup
    BY <2>1 DEF NextGroup
  <2>7. Placed'
    BY <1>2, <2>1, <2>5, <2>6 DEF TypeInv, Placed, Early, ScanLive
  <2> QED
    BY <1>1, <2>3, <2>4, <2>7 DEF TypeInv
<1>6. CASE EndGroup
  <2>1. /\ pc = "running" /\ pc' = "groups"
        /\ scan' \in Scans /\ scan'.no = scan.no /\ scan'.left = scan.left \ {NextGroup}
        /\ scan'.held \subseteq 1 .. scan.no /\ exec' = NoExec
        /\ UNCHANGED <<history, log, verdict>>
    BY <1>6, EndGroupIs
  <2>2. ScanTyped'
    BY <1>2, <2>1 DEF TypeInv, ScanTyped
  <2>3. ExecTyped'
    BY <2>1, NoExecTyped DEF TypeInv, ExecTyped
  <2>4. Placed'
    BY <1>2, <2>1 DEF TypeInv, Placed, Early, ScanLive
  <2> QED
    BY <1>1, <2>2, <2>3, <2>4 DEF TypeInv
<1>7. CASE Accumulate
  <2> DEFINE n == Len(history)
  <2>1. /\ pc = "groups" /\ pc' = "persist" /\ UNCHANGED <<scan, exec, log, verdict>>
        /\ history' \in Seq(Pasts)
    BY <1>7, AccumulateIs
  <2>2. /\ n \in Nat /\ DOMAIN history' = 1 .. Len(history')
        /\ \/ /\ Len(history') = n + 1 /\ history'[n + 1].held = scan.held
              /\ \A i \in 1 .. n : history'[i] = history[i]
           \/ /\ Len(history') = n /\ n >= 1 /\ history'[n].held = scan.held
              /\ \A i \in 1 .. n - 1 : history'[i] = history[i + 1]
    BY <1>7, AccumulateIs
  <2>3. /\ DOMAIN history = 1 .. n /\ scan.held \subseteq 1 .. scan.no
        /\ \A i \in 1 .. n : history[i].held \subseteq 1 .. scan.no
    BY LenProperties DEF TypeInv, ScanTyped
  <2>4. ASSUME NEW i \in DOMAIN history' PROVE history'[i].held \subseteq 1 .. scan.no
    <3>1. CASE Len(history') = n + 1 /\ history'[n + 1].held = scan.held
                /\ \A j \in 1 .. n : history'[j] = history[j]
      <4>1. i = n + 1 \/ i \in 1 .. n
        BY <2>2, <3>1
      <4> QED
        BY <2>3, <3>1, <4>1
    <3>2. CASE Len(history') = n /\ n >= 1 /\ history'[n].held = scan.held
                /\ \A j \in 1 .. n - 1 : history'[j] = history[j + 1]
      <4>1. i \in 1 .. n /\ n \in Nat
        BY <2>2, <3>2
      <4>2. i = n \/ (i \in 1 .. n - 1 /\ i + 1 \in 1 .. n)
        <5> HIDE DEF n
        <5> QED
          BY <4>1
      <4> QED
        BY <2>3, <3>2, <4>2
    <3> QED
      BY <2>2, <3>1, <3>2
  <2>5. ScanTyped'
    BY <1>2, <2>1, <2>4 DEF TypeInv, ScanTyped
  <2>6. ExecTyped'
    BY <1>2, <2>1 DEF TypeInv, ExecTyped
  <2>7. Placed'
    BY <1>2, <2>1 DEF TypeInv, Placed, Early, ScanLive
  <2> QED
    BY <1>1, <2>5, <2>6, <2>7 DEF TypeInv
<1>8. CASE Persist
  <2>1. /\ pc = "persist" /\ pc' = "enrich"
        /\ scan' \in Scans /\ scan'.no = scan.no /\ scan'.left = scan.left
        /\ scan'.held = scan.held /\ UNCHANGED <<exec, history, log, verdict>>
    BY <1>8, PersistIs
  <2>2. ScanTyped' /\ ExecTyped'
    BY <1>2, <2>1 DEF TypeInv, ScanTyped, ExecTyped
  <2>3. Placed'
    BY <1>2, <2>1 DEF TypeInv, Placed, Early, ScanLive
  <2> QED
    BY <1>1, <2>2, <2>3 DEF TypeInv
<1>9. CASE SkipEnrichment \/ EndGraph
  <2>1. /\ pc \in {"enrich", "enriching", "posting"}
        /\ pc' = (IF pc = "posting" THEN "posted" ELSE "ready")
        /\ UNCHANGED <<disk, process, scan, exec, history, log, verdict>>
    BY <1>9 DEF SkipEnrichment, EndGraph
  <2>2. verdict'.module \in Modules \cup {None}
    BY <2>1 DEF TypeInv, Placed
  <2> QED
    BY <2>1, <2>2, FailTypeKeeps DEF ScanLive
<1>10. CASE EnterEnrichment
  <2>1. CASE Fails("grid", None, {"grid_ds"})
    <3>1. pc = "enrich"
      BY <1>10, EnterEnrichmentIs
    <3>2. /\ UNCHANGED <<disk, process, scan, exec, history, log>> /\ pc' \in {"ready", "stopped"}
          /\ verdict' = [why |-> "grid", module |-> None, keys |-> {"grid_ds"}]
      BY <2>1, <3>1, FailsIs
    <3>3. verdict'.module = None
      BY <3>2
    <3> QED
      BY <3>1, <3>2, <3>3, FailTypeKeeps DEF ScanLive
  <2>2. CASE ~Fails("grid", None, {"grid_ds"})
    <3>1. /\ IsNew(exec', PostGraph(enabled), EnrichContext) /\ pc' = "enriching" /\ pc = "enrich"
          /\ EnrichContext \in Contexts
          /\ UNCHANGED <<scan, history, log, verdict>>
      BY <1>10, <2>2, EnterEnrichmentIs
    <3>2. PostGraph(enabled) \subseteq enabled /\ enabled \subseteq Modules
      BY LeftIs, GroupsTyped
    <3>3. exec'.nodes = PostGraph(enabled) /\ exec'.done = {} /\ exec' \in Execs
      BY <3>1, <3>2 DEF IsNew
    <3>4. ExecTyped'
      BY <1>2, <3>1, <3>2, <3>3 DEF TypeInv, ExecTyped
    <3>5. ScanTyped'
      BY <1>2, <3>1 DEF TypeInv, ScanTyped
    <3>6. Placed'
      BY <1>2, <3>1, <3>3 DEF TypeInv, Placed, Early, ScanLive
    <3> QED
      BY <1>1, <3>4, <3>5, <3>6 DEF TypeInv
  <2> QED
    BY <2>1, <2>2
<1>11. CASE StoreFails
  <2>1. pc \in {"groups", "persist", "enriching", "posting"} /\ Fails("store", None, {})
    BY <1>11 DEF StoreFails
  <2>2. /\ UNCHANGED <<disk, process, scan, exec, history, log>>
        /\ verdict' = [why |-> "store", module |-> None, keys |-> {}]
        /\ pc = "posting" => pc' = "posted"
        /\ pc # "posting" => pc' \in {"ready", "stopped"}
    BY <2>1, FailsIs
  <2>3. verdict'.module = None
    BY <2>2
  <2> QED
    BY <2>1, <2>2, <2>3, FailTypeKeeps DEF ScanLive
<1>12. CASE NodeStep
  <2>1. exec.nodes \subseteq Modules
    BY LeftIs DEF TypeInv, ExecTyped
  <2>2. CASE Leaves
    <3>1. Executing
      BY <1>12, NodeStepIs
    <3> QED
      BY <2>1, <2>2, <3>1, FailTypeKeeps DEF Leaves, Executing, ScanLive
  <2>3. ASSUME NEW m \in exec.nodes, RunNode(m) PROVE TypeInv'
    <3>1. /\ exec'.nodes = exec.nodes /\ exec'.done = exec.done \cup {m} /\ exec' \in Execs
          /\ log' = Append(log, [module |-> m, saw |-> Seen(m)])
          /\ [module |-> m, saw |-> Seen(m)] \in Entries
          /\ UNCHANGED <<process, pc, scan, history, verdict>>
      BY <2>3, RunNodeIs
    <3>2. log' \in Seq(Entries)
      BY <3>1, AppendProperties DEF TypeInv, ExecTyped
    <3>3. ExecTyped'
      BY <1>2, <3>1, <3>2 DEF TypeInv, ExecTyped
    <3>4. ScanTyped'
      BY <1>2, <3>1 DEF TypeInv, ScanTyped
    <3>5. NextGroup' = NextGroup
      BY <3>1 DEF NextGroup
    <3>6. Placed'
      BY <1>2, <3>1, <3>5 DEF TypeInv, Placed
    <3> QED
      BY <1>1, <3>3, <3>4, <3>6 DEF TypeInv
  <2>4. CASE NextRound
    <3>1. /\ exec'.nodes = exec.nodes /\ exec'.done = exec.done /\ exec' \in Execs
          /\ UNCHANGED <<process, pc, scan, history, log, verdict>>
      BY <2>4, NextRoundIs
    <3>2. ExecTyped' /\ ScanTyped'
      BY <1>2, <3>1 DEF TypeInv, ExecTyped, ScanTyped
    <3>3. NextGroup' = NextGroup
      BY <3>1 DEF NextGroup
    <3>4. Placed'
      BY <1>2, <3>1, <3>3 DEF TypeInv, Placed
    <3> QED
      BY <1>1, <3>2, <3>4 DEF TypeInv
  <2>5. NoProgress \/ (\E m \in exec.nodes : LacksInput(m) \/ NodeRaises(m) \/ ContractFails(m))
          => Leaves
    BY NodeLeaves
  <2> QED
    BY <1>12, <2>2, <2>3, <2>4, <2>5 DEF NodeStep
<1> QED
  BY <1>3, <1>4, <1>5, <1>6, <1>7, <1>8, <1>9, <1>10, <1>11, <1>12 DEF ScanStep

LEMMA TypeKeeps == LaunchInv /\ TypeInv /\ [Next]_vars => TypeInv'
<1> SUFFICES ASSUME LaunchInv, TypeInv, [Next]_vars PROVE TypeInv'
  OBVIOUS
<1>1. CASE UNCHANGED vars
  <2>1. UNCHANGED <<registry, enabled, pc, scan, exec, history, log, verdict>> /\ NextGroup' = NextGroup
    BY <1>1 DEF vars, process, NextGroup
  <2>2. RegistryTyped' /\ ScanTyped' /\ ExecTyped'
    BY <2>1 DEF TypeInv, RegistryTyped, ScanTyped, ExecTyped
  <2>3. Placed'
    BY <2>1 DEF TypeInv, Placed, NothingYet
  <2> QED
    BY <2>2, <2>3 DEF TypeInv
<1> QED
  BY <1>1, StepCases, LaunchTypeKeeps, BuildTypeKeeps, ScanTypeKeeps

(* From launch to launch and through every scan, node and failure: the      *)
(* launch and its settings, the registry and the selection, the scan, the   *)
(* executor and its log are what the code's can be, the graph in hand is    *)
(* one of the enabled modules, and before its graphs a launch has no scan.  *)
THEOREM TypeInvariant == Spec => [](LaunchInv /\ TypeInv)
<1>1. LaunchInv /\ TypeInv /\ [Next]_vars => LaunchInv' /\ TypeInv'
  BY LaunchKeeps, TypeKeeps
<1> QED
  BY <1>1, LaunchInit, TypeInit, PTL DEF Spec

(* What a launch leaves behind is one of each.                              *)
AtMostOne(S) == \A x, y \in S : x = y
Single == AtMostOne(saved) /\ AtMostOne(bootstrap)

LEMMA AtMostOneIs ==
  ASSUME NEW S, AtMostOne(S)
  PROVE  Cardinality(S) <= 1
<1>1. CASE S = {}
  BY <1>1, FS_EmptySet
<1>2. CASE S # {}
  <2>1. PICK x \in S : TRUE
    BY <1>2
  <2>2. S = {x}
    BY <2>1 DEF AtMostOne
  <2>3. Cardinality({x}) = 1
    BY FS_Singleton
  <2> QED
    BY <2>2, <2>3
<1> QED
  BY <1>1, <1>2

LEMMA SingleKeeps == Single /\ [Next]_vars => Single'
<1> SUFFICES ASSUME Single, [Next]_vars PROVE Single'
  OBVIOUS
<1>1. CASE LaunchStep
  <2>1. ASSUME NEW flags \in Flags, LaunchHere(flags)
        PROVE  saved' = saved /\ (bootstrap' = bootstrap \/ \E b : bootstrap' = {b})
    BY <2>1 DEF LaunchHere
  <2>2. saved' = saved /\ (bootstrap' = bootstrap \/ \E b : bootstrap' = {b})
    BY <1>1, <2>1 DEF LaunchStep, Continue, LaunchWith, LaunchPost
  <2> QED
    BY <2>2 DEF Single, AtMostOne
<1>2. CASE RecordRun
  BY <1>2 DEF RecordRun, Single, AtMostOne
<1>3. CASE ImportModules \/ SelectModules \/ BuildGraphs \/ Exit
  BY <1>3 DEF ImportModules, SelectModules, BuildGraphs, Exit, Refuse, disk, Single, AtMostOne
<1>4. CASE ScanStep
  BY <1>4, ScanStepIs DEF disk, Single, AtMostOne
<1>5. CASE UNCHANGED vars
  BY <1>5 DEF vars, disk, Single, AtMostOne
<1> QED
  BY <1>1, <1>2, <1>3, <1>4, <1>5, StepCases

(* The variables hold what the code's can, for any extensions, files, flags *)
(* and bounds.                                                              *)
THEOREM TypeCorrect == Spec => []TypeOK
<1>1. Init => Single
  BY DEF Init, Single, AtMostOne
<1>2. ASSUME LaunchInv, TypeInv, Single PROVE TypeOK
  <2>1. Cardinality(saved) <= 1 /\ Cardinality(bootstrap) <= 1
    BY <1>2, AtMostOneIs DEF Single
  <2>2. Cardinality(cwd) <= 1
    <3>1. AtMostOne(cwd)
      BY <1>2 DEF LaunchInv, LaunchTyped, AtMostOne
    <3> QED
      BY <3>1, AtMostOneIs
  <2>3. launches \in 0 .. MaxLaunches /\ launch.fresh \in BOOLEAN
    BY <1>2 DEF LaunchInv, LaunchTyped
  <2>4. /\ DOMAIN registry \subseteq Modules /\ enabled \subseteq DOMAIN registry
        /\ \A m \in DOMAIN registry : registry[m] \in Nat \ {0}
    BY <1>2, RegistryIs DEF TypeInv, RegistryTyped
  <2>5. pc \in {"off", "configured", "recorded", "registered", "selected", "ready", "groups",
                "running", "persist", "enrich", "enriching", "posting", "posted", "stopped",
                "refused"}
    BY <1>2 DEF LaunchInv, LaunchTyped, LiveOnly, PostOnly, Either
  <2>6. /\ scan.no \in 0 .. MaxScans /\ scan.left \subseteq Histories(enabled)
        /\ scan.held \subseteq 1 .. scan.no
        /\ {scan.near, scan.cells, scan.committed} \subseteq BOOLEAN
    BY <1>2, LeftIs DEF TypeInv, ScanTyped
  <2>7. /\ exec.nodes \subseteq enabled /\ exec.done \subseteq exec.nodes
        /\ exec.at \in Nat \ {0} /\ exec.moved \in BOOLEAN /\ exec.ctx \in Contexts
    BY <1>2 DEF TypeInv, ExecTyped, Execs
  <2>8. DOMAIN exec.ctx \cup DOMAIN scan.result \subseteq AllKeys
    <3>1. scan.result \in Contexts
      BY <1>2, LeftIs
    <3> QED
      BY <2>7, <3>1, ContextIs
  <2>9. verdict.module \in Modules \cup {None}
    BY <1>2 DEF TypeInv, Placed
  <2> QED
    BY <2>1, <2>2, <2>3, <2>4, <2>5, <2>6, <2>7, <2>8, <2>9 DEF TypeOK, Names, Modules
<1> QED
  BY <1>1, <1>2, SingleKeeps, TypeInvariant, PTL DEF Spec

-----------------------------------------------------------------------------
(***************************************************************************)
(* The executor                                                            *)
(***************************************************************************)
(* Steps of the launch start over: no scan, nothing run.                    *)
LEMMA LaunchSide ==
  ASSUME LaunchInv, TypeInv,
         LaunchStep \/ RecordRun \/ ImportModules \/ SelectModules \/ BuildGraphs \/ Exit
  PROVE  /\ scan' = NoScan /\ history' = <<>> /\ log' = <<>> /\ verdict' = NoVerdict
         /\ pc' \in Early \cup {"ready", "posting"}
         /\ \/ exec' = NoExec /\ pc' # "posting"
            \/ pc' = "posting" /\ IsNew(exec', enabled, PostContext)
<1>1. pc \in Early => NothingYet
  BY DEF TypeInv, Placed
<1>2. CASE LaunchStep \/ RecordRun \/ ImportModules \/ SelectModules
  <2>1. pc \in Early /\ pc' \in Early /\ UNCHANGED <<scan, exec, history, log, verdict>>
    BY <1>2, LaunchStepIs DEF RecordRun, ImportModules, SelectModules, Refuse, Early
  <2> QED
    BY <1>1, <2>1 DEF NothingYet, Early
<1>3. CASE BuildGraphs
  <2> DEFINE ctx == PostContext
  <2>1. /\ pc = "selected" /\ UNCHANGED <<scan, history, log, verdict>>
        /\ \/ pc' \in {"refused", "ready"} /\ UNCHANGED exec
           \/ pc' = "posting" /\ exec' = NewExec(enabled, ctx)
    BY <1>3 DEF BuildGraphs, Refuse
  <2> HIDE DEF ctx
  <2>2. pc' = "posting" => IsNew(exec', enabled, ctx)
    BY <2>1, NewExecIs
  <2> QED
    BY <1>1, <2>1, <2>2 DEF NothingYet, Early, ctx
<1>4. CASE Exit
  BY <1>4 DEF Exit, Early
<1> QED
  BY <1>2, <1>3, <1>4

(* A run is new, goes on by one node or one round, or is left as it is with *)
(* or without a verdict.                                                    *)
RunStarts ==
  /\ exec'.done = {} /\ exec'.at = 1 /\ exec'.moved = FALSE /\ exec'.rounds = 1
  /\ verdict' = NoVerdict
NodeFails ==
  \E m \in exec.nodes : LacksInput(m) \/ NodeRaises(m) \/ ContractFails(m)
OtherFails == Fails("grid", None, {"grid_ds"}) \/ Fails("store", None, {})
LeftAlone == UNCHANGED <<exec, log, verdict>>

LEMMA ExecCases ==
  ASSUME LaunchInv, TypeInv, [Next]_vars
  PROVE  \/ RunStarts \/ LeftAlone \/ NodeFails \/ NoProgress \/ OtherFails
         \/ (\E m \in exec.nodes : RunNode(m)) \/ NextRound
<1>1. NoExec.done = {} /\ NoExec.at = 1 /\ NoExec.moved = FALSE /\ NoExec.rounds = 1
  BY NoExecTyped
<1>2. CASE LaunchStep \/ RecordRun \/ ImportModules \/ SelectModules \/ BuildGraphs \/ Exit
  <2>1. /\ verdict' = NoVerdict
        /\ exec' = NoExec \/ IsNew(exec', enabled, PostContext)
    BY <1>2, LaunchSide
  <2> QED
    BY <1>1, <2>1 DEF RunStarts, IsNew
<1>3. ASSUME NEW near \in BOOLEAN, NEW cells \in BOOLEAN, BeginScan(near, cells) PROVE RunStarts
  BY <1>1, <1>3, BeginScanIs DEF RunStarts
<1>4. CASE EnterGroup
  <2>1. /\ pc = "groups" /\ UNCHANGED verdict
        /\ IsNew(exec', Graph(enabled, NextGroup), exec'.ctx)
    BY <1>4, EnterGroupIs
  <2>2. verdict = NoVerdict
    BY <2>1 DEF TypeInv, Placed
  <2> QED
    BY <2>1, <2>2 DEF RunStarts, IsNew
<1>5. CASE EndGroup
  <2>1. pc = "running" /\ UNCHANGED verdict /\ exec' = NoExec
    BY <1>5, EndGroupIs
  <2>2. verdict = NoVerdict
    BY <2>1 DEF TypeInv, Placed
  <2> QED
    BY <1>1, <2>1, <2>2 DEF RunStarts
<1>6. CASE EnterEnrichment
  <2>1. /\ pc = "enrich"
        /\ \/ Fails("grid", None, {"grid_ds"})
           \/ UNCHANGED verdict /\ IsNew(exec', PostGraph(enabled), EnrichContext)
    BY <1>6, EnterEnrichmentIs
  <2>2. verdict = NoVerdict
    BY <2>1 DEF TypeInv, Placed
  <2> QED
    BY <2>1, <2>2 DEF RunStarts, IsNew, OtherFails
<1>7. CASE SkipGroup \/ Accumulate \/ Persist \/ SkipEnrichment \/ EndGraph
  BY <1>7 DEF SkipGroup, Accumulate, Persist, SkipEnrichment, EndGraph, LeftAlone
<1>8. CASE StoreFails
  BY <1>8 DEF StoreFails, OtherFails
<1>9. CASE UNCHANGED vars
  BY <1>9 DEF vars, LeftAlone
<1>10. CASE NodeStep
  BY <1>10 DEF NodeStep, NodeFails
<1> QED
  BY <1>2, <1>3, <1>4, <1>5, <1>6, <1>7, <1>8, <1>9, <1>10, StepCases DEF ScanStep

FailedWhy(set) ==
  /\ UNCHANGED <<disk, process, scan, exec, history, log>>
  /\ verdict' = [why |-> verdict'.why, module |-> verdict'.module, keys |-> verdict'.keys]
  /\ verdict'.why \in set

LEMMA FailCases ==
  ASSUME NodeFails \/ OtherFails
  PROVE  FailedWhy({"contract", "missing", "raised", "history", "grid", "store"})
<1>1. ASSUME NEW why, NEW m, NEW keys, Fails(why, m, keys),
             why \in {"contract", "missing", "raised", "history", "grid", "store"}
      PROVE  FailedWhy({"contract", "missing", "raised", "history", "grid", "store"})
  BY <1>1 DEF Fails, FailedWhy
<1>2. CASE OtherFails
  BY <1>1, <1>2 DEF OtherFails
<1>3. CASE NodeFails
  <2>1. PICK m \in exec.nodes : LacksInput(m) \/ NodeRaises(m) \/ ContractFails(m)
    BY <1>3 DEF NodeFails
  <2>2. \E why \in {"contract", "missing", "raised", "history"} : \E keys : Fails(why, m, keys)
    BY <2>1 DEF LacksInput, NodeRaises, ContractFails
  <2> QED
    BY <1>1, <2>2
<1> QED
  BY <1>2, <1>3

(* A round without progress was one over all the nodes, and a round with it *)
(* completed one more of them than there were rounds before.                *)
Rounds ==
  /\ exec.rounds <= Cardinality(exec.done) + 1
  /\ exec.moved => exec.rounds <= Cardinality(exec.done)
  /\ ~exec.moved => exec.at = 1
Circle ==
  verdict.why = "stuck" =>
    \A m \in verdict.keys : Dependencies(exec.nodes, m) \cap verdict.keys # {}

LEMMA NodesFinite ==
  ASSUME TypeInv
  PROVE  /\ IsFiniteSet(exec.nodes) /\ IsFiniteSet(exec.done)
         /\ Cardinality(exec.nodes) \in Nat /\ Cardinality(exec.done) \in Nat
         /\ Cardinality(exec.done) <= Cardinality(exec.nodes)
<1>1. IsFiniteSet(exec.nodes) /\ exec.done \subseteq exec.nodes
  BY FS_Subset DEF TypeInv, RegistryTyped, ExecTyped
<1>2. IsFiniteSet(exec.done) /\ Cardinality(exec.done) <= Cardinality(exec.nodes)
  BY <1>1, FS_Subset
<1> QED
  BY <1>1, <1>2, FS_CardinalityType

LEMMA RoundsKeep ==
  ASSUME LaunchInv, TypeInv, Rounds, Circle, [Next]_vars
  PROVE  Rounds' /\ Circle'
<1>1. /\ IsFiniteSet(exec.done) /\ Cardinality(exec.done) \in Nat /\ exec.rounds \in Nat
      /\ exec.moved \in BOOLEAN
  BY NodesFinite DEF TypeInv, ExecTyped, Execs
<1>2. CASE RunStarts
  <2>1. Cardinality(exec'.done) = 0
    BY <1>2, FS_EmptySet DEF RunStarts
  <2>2. verdict'.why = None
    BY <1>2 DEF RunStarts, NoVerdict
  <2> QED
    BY <1>2, <2>1, <2>2 DEF RunStarts, Rounds, Circle, None
<1>3. CASE LeftAlone
  BY <1>3 DEF LeftAlone, Rounds, Circle
<1>4. CASE NodeFails \/ OtherFails
  <2>1. FailedWhy({"contract", "missing", "raised", "history", "grid", "store"})
    BY <1>4, FailCases
  <2> QED
    BY <2>1 DEF FailedWhy, Rounds, Circle
<1>5. CASE NoProgress
  <2> DEFINE pending == exec.nodes \ exec.done
  <2>1. /\ Executing /\ Ahead = {} /\ ~exec.moved /\ Fails("stuck", None, pending)
    BY <1>5 DEF NoProgress, RoundEnds
  <2>2. exec' = exec /\ verdict' = [why |-> "stuck", module |-> None, keys |-> pending]
    BY <2>1 DEF Fails
  <2>3. verdict'.keys = pending
    BY <2>2
  <2>4. exec.at = 1
    BY <2>1 DEF Rounds
  <2>5. ASSUME NEW m \in pending PROVE Dependencies(exec.nodes, m) \cap pending # {}
    <3>1. m \in DOMAIN registry
      BY DEF TypeInv, ExecTyped, RegistryTyped
    <3>2. registry[m] >= 1
      BY <3>1, RegistryIs DEF TypeInv, RegistryTyped
    <3>3. ~IsReady(m)
      BY <2>1, <2>4, <3>2 DEF Ahead
    <3>4. PICK p \in Dependencies(exec.nodes, m) : p \notin exec.done
      BY <3>3 DEF IsReady
    <3>5. p \in pending
      BY <3>4 DEF Dependencies
    <3> QED
      BY <3>4, <3>5
  <2> HIDE DEF pending
  <2> QED
    BY <2>2, <2>3, <2>5 DEF Rounds, Circle
<1>6. ASSUME NEW m \in exec.nodes, RunNode(m) PROVE Rounds' /\ Circle'
  <2>1. /\ m \notin exec.done /\ exec'.done = exec.done \cup {m} /\ exec'.moved = TRUE
        /\ exec'.rounds = exec.rounds /\ verdict' = verdict /\ Executing
    BY <1>6, RunNodeIs
  <2>2. Cardinality(exec'.done) = Cardinality(exec.done) + 1
    BY <1>1, <2>1, FS_AddElement
  <2>3. verdict' = NoVerdict
    BY <2>1 DEF TypeInv, Placed, Executing
  <2>4. verdict'.why # "stuck"
    BY <2>3 DEF NoVerdict, None
  <2> QED
    BY <1>1, <2>1, <2>2, <2>4 DEF Rounds, Circle
<1>7. CASE NextRound
  <2>1. /\ exec'.done = exec.done /\ exec'.moved = FALSE /\ exec'.at = 1 /\ exec.moved = TRUE
        /\ exec'.rounds = exec.rounds + 1 /\ verdict' = verdict /\ Executing
    BY <1>7, NextRoundIs
  <2>2. verdict' = NoVerdict
    BY <2>1 DEF TypeInv, Placed, Executing
  <2>3. verdict'.why # "stuck"
    BY <2>2 DEF NoVerdict, None
  <2> QED
    BY <1>1, <2>1, <2>3 DEF Rounds, Circle
<1> QED
  BY <1>2, <1>3, <1>4, <1>5, <1>6, <1>7, ExecCases

LEMMA RoundsInvariant == Spec => [](LaunchInv /\ TypeInv /\ Rounds /\ Circle)
<1>1. Init => Rounds /\ Circle
  <2> SUFFICES ASSUME Init PROVE Rounds /\ Circle
    OBVIOUS
  <2>1. exec = NoExec /\ verdict = NoVerdict
    BY DEF Init
  <2>2. Cardinality(exec.done) = 0
    BY <2>1, NoExecTyped, FS_EmptySet
  <2>3. verdict.why # "stuck"
    BY <2>1 DEF NoVerdict, None
  <2> QED
    BY <2>1, <2>2, <2>3, NoExecTyped DEF Rounds, Circle
<1>2. LaunchInv /\ TypeInv /\ Rounds /\ Circle /\ [Next]_vars => Rounds' /\ Circle'
  BY RoundsKeep
<1> QED
  BY <1>1, <1>2, TypeInvariant, PTL DEF Spec

(* GraphExecutor.run, for any modules: it gives up only when every pending  *)
(* module waits for a pending one, every round but the last completes a     *)
(* module, and its iteration limit is never what ends it.                   *)
THEOREM StuckOnlyOnCycleHolds == Spec => []StuckOnlyOnCycle
<1>1. ASSUME TypeInv, Rounds, Circle PROVE StuckOnlyOnCycle
  <2> DEFINE n == Cardinality(exec.nodes)
             d == Cardinality(exec.done)
  <2>1. /\ n \in Nat /\ d \in Nat /\ d <= n /\ exec.rounds \in Nat /\ exec.rounds <= d + 1
    BY <1>1, NodesFinite DEF TypeInv, ExecTyped, Execs, Rounds
  <2>2. exec.nodes # {} => n # 0
    BY <1>1, NodesFinite, FS_EmptySet
  <2>3. RoundLimit = n * n + n + 1
    BY DEF RoundLimit
  <2> HIDE DEF n, d
  <2>4. n # 0 => n * n >= 1
    BY <2>1
  <2>5. n * n \in Nat
    BY <2>1
  <2>6. n # 0 => exec.rounds < n * n + n + 1
    BY <2>1, <2>4, <2>5
  <2> QED
    BY <1>1, <2>1, <2>2, <2>3, <2>6 DEF StuckOnlyOnCycle, Circle, d
<1> QED
  BY <1>1, RoundsInvariant, PTL

(* What is done has run, and the context holds what it gave.                *)
Produced ==
  /\ \A p \in exec.done : \A k \in Decl(p).gives : k \in DOMAIN exec.ctx /\ exec.ctx[k] = p
  /\ \A p \in exec.done : \E j \in DOMAIN log : log[j].module = p

(* What has run is of a group that is behind, or done in the one in hand.   *)
Behind ==
  /\ pc \in {"groups", "running", "persist", "enrich"} =>
       \A i \in DOMAIN log : Decl(log[i].module).phase # 3
  /\ pc = "groups" => \A i \in DOMAIN log : Decl(log[i].module).history \notin scan.left
  /\ pc = "running" =>
       \A i \in DOMAIN log :
         Decl(log[i].module).history \notin scan.left \/ log[i].module \in exec.done
  /\ pc = "enriching" =>
       \A i \in DOMAIN log : Decl(log[i].module).phase # 3 \/ log[i].module \in exec.done
  /\ pc = "posting" => \A i \in DOMAIN log : log[i].module \in exec.done

LEMMA LogGrows ==
  ASSUME NEW e \in Entries, log \in Seq(Entries), log' = Append(log, e)
  PROVE  /\ Len(log) \in Nat /\ DOMAIN log = 1 .. Len(log)
         /\ DOMAIN log' = 1 .. Len(log) + 1 /\ log'[Len(log) + 1] = e
         /\ \A i \in DOMAIN log : i \in DOMAIN log' /\ log'[i] = log[i]
         /\ \A i \in DOMAIN log' : i \in DOMAIN log \/ i = Len(log) + 1
<1>1. /\ Len(log) \in Nat /\ DOMAIN log = 1 .. Len(log)
      /\ log' \in Seq(Entries) /\ Len(log') = Len(log) + 1
      /\ log'[Len(log) + 1] = e /\ \A i \in 1 .. Len(log) : log'[i] = log[i]
  BY AppendProperties, LenProperties
<1>2. DOMAIN log' = 1 .. Len(log) + 1
  BY <1>1, LenProperties
<1> QED
  BY <1>1, <1>2

LEMMA GraphInHand ==
  ASSUME LaunchInv, TypeInv, Executing
  PROVE  /\ ~DuplicateKey(exec.nodes)
         /\ \A m \in exec.nodes : GraphOf(m) = exec.nodes
         /\ pc = "running" => \A m \in exec.nodes : /\ Decl(m).phase # 3
                                                    /\ Decl(m).history = NextGroup
         /\ pc = "enriching" => \A m \in exec.nodes : Decl(m).phase = 3
<1>1. CASE pc = "running"
  <2>1. NextGroup \in Histories(enabled) /\ exec.nodes = Graph(enabled, NextGroup)
    BY <1>1, LeftIs DEF TypeInv, Placed, ScanTyped
  <2>2. exec.nodes \in Graphs(enabled)
    BY <2>1 DEF Graphs
  <2>3. ~DuplicateKey(exec.nodes)
    BY <1>1, <2>2 DEF TypeInv, Placed, ScanLive
  <2>4. \A m \in exec.nodes : Decl(m).phase # 3 /\ Decl(m).history = NextGroup
    BY <2>1 DEF Graph, InPipeline
  <2>5. launch.kind # "post"
    BY <1>1 DEF LaunchInv, LaunchTyped, LiveOnly
  <2> QED
    BY <1>1, <2>1, <2>3, <2>4, <2>5 DEF GraphOf
<1>2. CASE pc = "enriching"
  <2>1. exec.nodes = PostGraph(enabled)
    BY <1>2 DEF TypeInv, Placed
  <2>2. exec.nodes \in Graphs(enabled)
    BY <2>1 DEF Graphs
  <2>3. ~DuplicateKey(exec.nodes)
    BY <1>2, <2>2 DEF TypeInv, Placed, ScanLive
  <2>4. \A m \in exec.nodes : Decl(m).phase = 3
    BY <2>1 DEF PostGraph
  <2>5. launch.kind # "post"
    BY <1>2 DEF LaunchInv, LaunchTyped, LiveOnly
  <2> QED
    BY <1>2, <2>1, <2>3, <2>4, <2>5 DEF GraphOf
<1>3. CASE pc = "posting"
  <2>1. exec.nodes = enabled /\ ~DuplicateKey(enabled)
    BY <1>3 DEF TypeInv, Placed
  <2>2. launch.kind = "post"
    BY <1>3 DEF LaunchInv, LaunchTyped, PostOnly
  <2> QED
    BY <1>3, <2>1, <2>2 DEF GraphOf
<1> QED
  BY <1>1, <1>2, <1>3 DEF Executing

LEMMA NotRunYet ==
  ASSUME LaunchInv, TypeInv, Behind, Executing, NEW m \in exec.nodes \ exec.done
  PROVE  \A i \in DOMAIN log : log[i].module # m
<1>1. pc = "running" => NextGroup \in scan.left
  BY LeftIs DEF TypeInv, Placed
<1> QED
  BY <1>1, GraphInHand DEF Behind, Executing

LEMMA ProducedKeeps ==
  ASSUME LaunchInv, TypeInv, Produced, [Next]_vars
  PROVE  Produced'
<1>1. CASE RunStarts
  BY <1>1 DEF RunStarts, Produced
<1>2. CASE LeftAlone
  BY <1>2 DEF LeftAlone, Produced
<1>3. CASE NodeFails \/ OtherFails \/ NoProgress
  <2>1. UNCHANGED <<exec, log>>
    BY <1>3, FailCases DEF FailedWhy, NoProgress, Fails
  <2> QED
    BY <2>1 DEF Produced
<1>4. ASSUME NEW m \in exec.nodes, RunNode(m) PROVE Produced'
  <2> DEFINE g == [k \in Decl(m).gives |-> m]
             e == [module |-> m, saw |-> Seen(m)]
  <2>1. /\ Executing /\ m \notin exec.done /\ exec'.done = exec.done \cup {m}
        /\ exec'.ctx = DeepMerge(exec.ctx, g) /\ log' = Append(log, e) /\ e \in Entries
    BY <1>4, RunNodeIs
  <2>2. DOMAIN g = Decl(m).gives /\ \A k \in Decl(m).gives : g[k] = m
    OBVIOUS
  <2>3. e.module = m
    OBVIOUS
  <2> HIDE DEF g, e
  <2>4. IsMerge(exec'.ctx, exec.ctx, g)
    BY <2>1, MergeIs
  <2>5. ASSUME NEW p \in exec.done, NEW k \in Decl(p).gives PROVE k \notin Decl(m).gives
    <3>1. p \in exec.nodes /\ p # m
      BY <2>1 DEF TypeInv, ExecTyped
    <3> QED
      BY <2>1, <3>1, GraphInHand DEF DuplicateKey
  <2>6. ASSUME NEW p \in exec'.done, NEW k \in Decl(p).gives
        PROVE  k \in DOMAIN exec'.ctx /\ exec'.ctx[k] = p
    <3>1. CASE p = m
      BY <2>2, <2>4, <2>6, <3>1 DEF IsMerge
    <3>2. CASE p \in exec.done
      <4>1. k \in DOMAIN exec.ctx /\ exec.ctx[k] = p /\ k \notin DOMAIN g
        BY <2>2, <2>5, <2>6, <3>2 DEF Produced
      <4> QED
        BY <2>4, <4>1 DEF IsMerge
    <3> QED
      BY <2>1, <3>1, <3>2
  <2>7. ASSUME NEW p \in exec'.done PROVE \E j \in DOMAIN log' : log'[j].module = p
    <3>1. /\ Len(log) \in Nat /\ DOMAIN log' = 1 .. Len(log) + 1 /\ log'[Len(log) + 1] = e
          /\ \A i \in DOMAIN log : i \in DOMAIN log' /\ log'[i] = log[i]
      BY <2>1, LogGrows DEF TypeInv, ExecTyped
    <3>2. CASE p = m
      <4>1. Len(log) + 1 \in DOMAIN log'
        BY <3>1
      <4> QED
        BY <2>3, <3>1, <3>2, <4>1
    <3>3. CASE p \in exec.done
      <4>1. PICK j \in DOMAIN log : log[j].module = p
        BY <3>3 DEF Produced
      <4> QED
        BY <3>1, <4>1
    <3> QED
      BY <2>1, <3>2, <3>3
  <2> QED
    BY <2>6, <2>7 DEF Produced
<1>5. CASE NextRound
  <2>1. exec'.done = exec.done /\ exec'.ctx = exec.ctx /\ log' = log
    BY <1>5, NextRoundIs
  <2> QED
    BY <2>1 DEF Produced
<1> QED
  BY <1>1, <1>2, <1>3, <1>4, <1>5, ExecCases

LEMMA BehindKeeps ==
  ASSUME LaunchInv, TypeInv, Behind, [Next]_vars
  PROVE  Behind'
<1>1. CASE LaunchStep \/ RecordRun \/ ImportModules \/ SelectModules \/ BuildGraphs \/ Exit
  <2>1. log' = <<>>
    BY <1>1, LaunchSide
  <2> QED
    BY <2>1 DEF Behind
<1>2. ASSUME NEW near \in BOOLEAN, NEW cells \in BOOLEAN, BeginScan(near, cells) PROVE Behind'
  <2>1. log' = <<>>
    BY <1>2, BeginScanIs
  <2> QED
    BY <2>1 DEF Behind
<1>3. CASE SkipGroup
  <2>1. pc = "groups" /\ pc' = "groups" /\ log' = log /\ scan'.left = scan.left \ {NextGroup}
    BY <1>3, SkipGroupIs
  <2> QED
    BY <2>1 DEF Behind
<1>4. CASE EnterGroup
  <2>1. pc = "groups" /\ pc' = "running" /\ log' = log /\ scan' = scan
    BY <1>4, EnterGroupIs
  <2> QED
    BY <2>1 DEF Behind
<1>5. CASE EndGroup
  <2>1. /\ pc = "running" /\ pc' = "groups" /\ exec.done = exec.nodes
        /\ scan'.left = scan.left \ {NextGroup} /\ log' = log
    BY <1>5, EndGroupIs
  <2>2. \A m \in exec.nodes : Decl(m).history = NextGroup
    BY <2>1, GraphInHand DEF Executing
  <2> QED
    BY <2>1, <2>2 DEF Behind
<1>6. CASE Accumulate \/ Persist
  <2>1. /\ pc \in {"groups", "persist"} /\ pc' \in {"persist", "enrich"} /\ log' = log
    BY <1>6 DEF Accumulate, Persist
  <2> QED
    BY <2>1 DEF Behind
<1>7. CASE EnterEnrichment
  <2>1. pc = "enrich" /\ log' = log /\ pc' \in {"enriching", "ready", "stopped"}
    BY <1>7, EnterEnrichmentIs, FailsIs
  <2> QED
    BY <2>1 DEF Behind
<1>8. CASE SkipEnrichment \/ EndGraph
  <2>1. pc' \in {"ready", "posted"}
    BY <1>8 DEF SkipEnrichment, EndGraph
  <2> QED
    BY <2>1 DEF Behind
<1>9. CASE StoreFails
  <2>1. pc' \in {"ready", "stopped", "posted"}
    BY <1>9, FailsIs DEF StoreFails
  <2> QED
    BY <2>1 DEF Behind
<1>10. CASE NoProgress \/ NodeFails
  <2>1. pc' \in {"ready", "stopped", "posted"}
    BY <1>10, NodeLeaves DEF Leaves, NodeFails
  <2> QED
    BY <2>1 DEF Behind
<1>11. ASSUME NEW m \in exec.nodes, RunNode(m) PROVE Behind'
  <2> DEFINE e == [module |-> m, saw |-> Seen(m)]
  <2>1. /\ Executing /\ exec'.done = exec.done \cup {m} /\ log' = Append(log, e) /\ e \in Entries
        /\ pc' = pc /\ scan' = scan
    BY <1>11, RunNodeIs
  <2>2. e.module = m
    OBVIOUS
  <2> HIDE DEF e
  <2>3. /\ \A i \in DOMAIN log : i \in DOMAIN log' /\ log'[i] = log[i]
        /\ \A i \in DOMAIN log' : i \in DOMAIN log \/ log'[i] = e
    BY <2>1, LogGrows DEF TypeInv, ExecTyped
  <2>4. pc = "running" => Decl(m).phase # 3
    BY <2>1, GraphInHand
  <2>5. \A i \in DOMAIN log' : \/ i \in DOMAIN log /\ log'[i].module = log[i].module
                               \/ log'[i].module = m
    BY <2>2, <2>3
  <2>6. m \in exec'.done /\ exec.done \subseteq exec'.done
    BY <2>1
  <2>7. pc' \in {"running", "enriching", "posting"} /\ scan'.left = scan.left /\ pc' = pc
    BY <2>1 DEF Executing
  <2>8. pc = "running" =>
          \A i \in DOMAIN log' :
            /\ Decl(log'[i].module).phase # 3
            /\ Decl(log'[i].module).history \notin scan.left \/ log'[i].module \in exec'.done
    BY <2>4, <2>5, <2>6 DEF Behind
  <2>9. pc = "enriching" =>
          \A i \in DOMAIN log' : Decl(log'[i].module).phase # 3 \/ log'[i].module \in exec'.done
    BY <2>5, <2>6 DEF Behind
  <2>10. pc = "posting" => \A i \in DOMAIN log' : log'[i].module \in exec'.done
    BY <2>5, <2>6 DEF Behind
  <2> QED
    BY <2>7, <2>8, <2>9, <2>10 DEF Behind
<1>12. CASE NextRound
  <2>1. exec'.done = exec.done /\ log' = log /\ pc' = pc /\ scan' = scan
    BY <1>12, NextRoundIs
  <2> QED
    BY <2>1 DEF Behind
<1>13. CASE UNCHANGED vars
  BY <1>13 DEF vars, Behind
<1> QED
  BY <1>1, <1>2, <1>3, <1>4, <1>5, <1>6, <1>7, <1>8, <1>9, <1>10, <1>11, <1>12, <1>13, StepCases
  DEF ScanStep, NodeStep, NodeFails

LEMMA LogCases ==
  ASSUME LaunchInv, TypeInv, [Next]_vars
  PROVE  \/ log' = <<>>
         \/ log' = log /\ UNCHANGED process
         \/ \E m \in exec.nodes : RunNode(m)
<1>1. CASE LaunchStep \/ RecordRun \/ ImportModules \/ SelectModules \/ BuildGraphs \/ Exit
  BY <1>1, LaunchSide
<1>2. CASE UNCHANGED vars
  BY <1>2 DEF vars
<1>3. CASE ScanStep
  <2>1. UNCHANGED process
    BY <1>3, ScanStepIs
  <2>2. ASSUME NEW near \in BOOLEAN, NEW cells \in BOOLEAN, BeginScan(near, cells) PROVE log' = <<>>
    BY <2>2, BeginScanIs
  <2>3. CASE \/ SkipGroup \/ EnterGroup \/ EndGroup \/ Accumulate \/ Persist
             \/ SkipEnrichment \/ EndGraph
    BY <2>3 DEF SkipGroup, EnterGroup, EndGroup, Accumulate, Persist, SkipEnrichment, EndGraph
  <2>4. CASE EnterEnrichment \/ StoreFails \/ NodeFails
    <3>1. NodeFails \/ OtherFails \/ log' = log
      BY <2>4, EnterEnrichmentIs DEF StoreFails, OtherFails
    <3> QED
      BY <2>1, <3>1, FailCases DEF FailedWhy
  <2>5. CASE NextRound \/ NoProgress
    BY <2>5 DEF NextRound, NoProgress, Fails
  <2> QED
    BY <1>3, <2>1, <2>2, <2>3, <2>4, <2>5 DEF ScanStep, NodeStep, NodeFails
<1> QED
  BY <1>1, <1>2, <1>3, StepCases

(* One module's entry in the log is in order.                               *)
LEMMA OnceKeeps ==
  ASSUME LaunchInv, TypeInv, Produced, Behind, OnceAfterProducers, [Next]_vars
  PROVE  OnceAfterProducers'
<1>1. CASE log' = <<>>
  BY <1>1 DEF OnceAfterProducers
<1>2. CASE log' = log /\ UNCHANGED process
  BY <1>2 DEF process, OnceAfterProducers, GraphOf
<1>3. ASSUME NEW m \in exec.nodes, RunNode(m) PROVE OnceAfterProducers'
  <2> DEFINE e == [module |-> m, saw |-> Seen(m)]
             n == Len(log) + 1
             Right(i, lg) ==
               \A p \in GraphOf(lg[i].module) :
                 \A k \in Decl(p).gives \cap Decl(lg[i].module).needs :
                   /\ k \in DOMAIN lg[i].saw /\ lg[i].saw[k] = p
                   /\ \E j \in 1 .. i - 1 : lg[j].module = p
  <2>1. /\ Executing /\ m \in Ahead /\ m \notin exec.done /\ log' = Append(log, e)
        /\ e \in Entries /\ UNCHANGED process
    BY <1>3, RunNodeIs
  <2>2. e.module = m /\ e.saw = Seen(m)
    OBVIOUS
  <2> HIDE DEF e
  <2>3. /\ Len(log) \in Nat /\ DOMAIN log = 1 .. Len(log)
        /\ DOMAIN log' = 1 .. Len(log) + 1 /\ log'[Len(log) + 1] = e
        /\ \A i \in DOMAIN log : i \in DOMAIN log' /\ log'[i] = log[i]
        /\ \A i \in DOMAIN log' : i \in DOMAIN log \/ i = Len(log) + 1
    BY <2>1, LogGrows DEF TypeInv, ExecTyped
  <2>4. \A i \in DOMAIN log : log[i].module # m
    BY <2>1, NotRunYet
  <2>5. \A i, j \in DOMAIN log' : i # j => log'[i].module # log'[j].module
    <3>1. \A i, j \in DOMAIN log : i # j => log[i].module # log[j].module
      BY DEF OnceAfterProducers
    <3> QED
      BY <2>2, <2>3, <2>4, <3>1
  <2>6. ASSUME NEW p \in exec.nodes, NEW k \in Decl(p).gives \cap Decl(m).needs
        PROVE  /\ k \in DOMAIN Seen(m) /\ Seen(m)[k] = p
               /\ \E j \in 1 .. Len(log) : log[j].module = p
    <3>1. p \in exec.done
      BY <2>1 DEF Ahead, IsReady, Dependencies
    <3>2. k \in DOMAIN exec.ctx /\ exec.ctx[k] = p /\ \E j \in DOMAIN log : log[j].module = p
      BY <3>1 DEF Produced
    <3> QED
      BY <2>3, <3>2 DEF Seen
  <2>7. \A i \in DOMAIN log : Right(i, log)
    BY DEF OnceAfterProducers
  <2>8. ASSUME NEW i \in DOMAIN log PROVE Right(i, log')
    <3>1. \A j \in 1 .. i - 1 : j \in DOMAIN log /\ log'[j] = log[j]
      BY <2>3
    <3>2. log'[i] = log[i]
      BY <2>3
    <3> QED
      BY <2>7, <3>1, <3>2
  <2>9. Right(n, log')
    <3>1. log'[n] = e /\ n - 1 = Len(log) /\ \A j \in 1 .. Len(log) : log'[j] = log[j]
      BY <2>3
    <3>2. GraphOf(m) = exec.nodes
      BY <2>1, GraphInHand
    <3> HIDE DEF n
    <3> QED
      BY <2>2, <2>6, <3>1, <3>2
  <2>10. \A i \in DOMAIN log' : Right(i, log')
    BY <2>3, <2>8, <2>9
  <2>11. launch' = launch /\ enabled' = enabled
    BY <2>1 DEF process
  <2> HIDE DEF n
  <2> QED
    BY <2>5, <2>10, <2>11 DEF OnceAfterProducers, GraphOf
<1> QED
  BY <1>1, <1>2, <1>3, LogCases

(* GraphExecutor.run, for any modules in any order of registration: within  *)
(* a scan none runs twice, and each reads a key some module of its graph    *)
(* gives from that module, run before it for this scan.                     *)
THEOREM OnceAfterProducersHolds == Spec => []OnceAfterProducers
<1>1. Init => Produced /\ Behind /\ OnceAfterProducers
  <2> SUFFICES ASSUME Init PROVE Produced /\ Behind /\ OnceAfterProducers
    OBVIOUS
  <2>1. exec.done = {} /\ log = <<>> /\ pc = "off"
    BY NoExecTyped DEF Init
  <2> QED
    BY <2>1 DEF Produced, Behind, OnceAfterProducers
<1>2. /\ LaunchInv /\ TypeInv /\ Produced /\ Behind /\ OnceAfterProducers /\ [Next]_vars
      => Produced' /\ Behind' /\ OnceAfterProducers'
  BY ProducedKeeps, BehindKeeps, OnceKeeps
<1> QED
  BY <1>1, <1>2, TypeInvariant, PTL DEF Spec

-----------------------------------------------------------------------------
(***************************************************************************)
(* The history                                                             *)
(***************************************************************************)
(* The enabled modules that give the segmentation from the scan alone.      *)
Segmenters == {m \in Graph(enabled, 1) : "segmented_ds" \in Decl(m).gives}

(* The history is of scans before the one in hand, oldest first.            *)
Ordered ==
  /\ Len(history) <= MaxHistory
  /\ \A i \in 1 .. Len(history) - 1 : history[i].no < history[i + 1].no
  /\ \A i \in DOMAIN history : history[i].no <= scan.no
  /\ pc \in {"groups", "running"} => \A i \in DOMAIN history : history[i].no < scan.no

(* Past the first group the scan has its segmentation, and keeps it.        *)
Segmented ==
  /\ pc \in {"groups", "running"} /\ Segmenters # {} /\ 1 \notin scan.left =>
       "segmented_ds" \in DOMAIN scan.result
  /\ pc = "running" => DOMAIN scan.result \subseteq DOMAIN exec.ctx
  /\ \A i \in DOMAIN history : ScanKeys \subseteq history[i].keys
  /\ Segmenters # {} => \A i \in DOMAIN history : "segmented_ds" \in history[i].keys

(* With no module to give it in the first group none ever has it.           *)
Unsegmented ==
  pc \in {"groups", "running"} /\ Segmenters = {} =>
    /\ "segmented_ds" \notin DOMAIN scan.result
    /\ pc = "running" => "segmented_ds" \notin DOMAIN exec.ctx

PostEnabled == launch.kind = "post" => \A m \in enabled : Decl(m).phase = PostPhase

(* A step leaves the history and the scan as they are, or is one of these.  *)
LEMMA HistoryCases ==
  ASSUME LaunchInv, TypeInv, [Next]_vars
  PROVE  \/ scan' = NoScan /\ history' = <<>> /\ pc' \notin {"groups", "running"}
         \/ \E near, cells \in BOOLEAN : BeginScan(near, cells)
         \/ SkipGroup \/ EnterGroup \/ EndGroup \/ Accumulate
         \/ (\E m \in exec.nodes : RunNode(m))
         \/ /\ UNCHANGED <<process, history>> /\ scan'.no = scan.no
            /\ \/ pc' \notin {"groups", "running"}
               \/ pc' = pc /\ scan' = scan /\ exec'.ctx = exec.ctx
<1>1. CASE LaunchStep \/ RecordRun \/ ImportModules \/ SelectModules \/ BuildGraphs \/ Exit
  BY <1>1, LaunchSide DEF Early
<1>2. CASE Persist
  BY <1>2, PersistIs DEF process
<1>3. CASE SkipEnrichment \/ EndGraph
  <2>1. /\ UNCHANGED <<process, scan, history>> /\ pc' \in {"ready", "posted"}
    BY <1>3 DEF SkipEnrichment, EndGraph
  <2> QED
    BY <2>1
<1>4. CASE EnterEnrichment
  <2>1. /\ UNCHANGED <<process, scan, history>> /\ pc' \in {"ready", "stopped", "enriching"}
    BY <1>4, EnterEnrichmentIs, FailsIs
  <2> QED
    BY <2>1
<1>5. CASE StoreFails
  <2>1. /\ UNCHANGED <<process, scan, history>> /\ pc' \in {"ready", "stopped", "posted"}
    BY <1>5, FailsIs DEF StoreFails
  <2> QED
    BY <2>1
<1>6. CASE NodeFails \/ NoProgress
  <2>1. /\ UNCHANGED <<process, scan, history>> /\ pc' \in {"ready", "stopped", "posted"}
    BY <1>6, NodeLeaves DEF Leaves, NodeFails
  <2> QED
    BY <2>1
<1>7. CASE NextRound
  <2>1. UNCHANGED <<process, scan, history, pc>> /\ exec'.ctx = exec.ctx
    BY <1>7, NextRoundIs
  <2> QED
    BY <2>1
<1>8. CASE UNCHANGED vars
  BY <1>8 DEF vars
<1> QED
  BY <1>1, <1>2, <1>3, <1>4, <1>5, <1>6, <1>7, <1>8, StepCases DEF ScanStep, NodeStep, NodeFails

LEMMA OrderedKeeps ==
  ASSUME LaunchInv, TypeInv, Ordered, [Next]_vars
  PROVE  Ordered'
<1>0. /\ Len(history) \in Nat /\ DOMAIN history = 1 .. Len(history) /\ scan.no \in Nat
      /\ \A i \in DOMAIN history : history[i].no \in Nat
  <2>1. history \in Seq(Pasts) /\ scan.no \in Nat
    BY LeftIs DEF TypeInv, ScanTyped
  <2>2. Len(history) \in Nat /\ DOMAIN history = 1 .. Len(history)
    BY <2>1, LenProperties
  <2>3. \A i \in DOMAIN history : history[i] \in Pasts
    BY <2>1, <2>2, ElementOfSeq
  <2> QED
    BY <2>1, <2>2, <2>3 DEF Pasts
<1>1. CASE scan' = NoScan /\ history' = <<>> /\ pc' \notin {"groups", "running"}
  <2>1. Len(history') = 0 /\ DOMAIN history' = {}
    BY <1>1
  <2> QED
    BY <1>1, <2>1, MaxHistoryAssumption DEF Ordered
<1>2. ASSUME NEW near \in BOOLEAN, NEW cells \in BOOLEAN, BeginScan(near, cells) PROVE Ordered'
  <2>1. scan'.no = scan.no + 1 /\ history' = history
    BY <1>2, BeginScanIs
  <2> QED
    BY <1>0, <2>1 DEF Ordered
<1>3. CASE SkipGroup \/ EnterGroup \/ EndGroup \/ \E m \in exec.nodes : RunNode(m)
  <2>1. scan'.no = scan.no /\ history' = history /\ (pc \in {"groups", "running"} \/ pc' = pc)
    BY <1>3, SkipGroupIs, EnterGroupIs, EndGroupIs, RunNodeIs
  <2> QED
    BY <2>1 DEF Ordered
<1>4. CASE Accumulate
  <2> DEFINE n == Len(history)
  <2>1. /\ pc = "groups" /\ pc' = "persist" /\ scan' = scan /\ DOMAIN history' = 1 .. Len(history')
        /\ \/ Len(history') = n + 1 /\ n + 1 <= MaxHistory /\ history'[n + 1].no = scan.no
                /\ \A i \in 1 .. n : history'[i] = history[i]
           \/ Len(history') = n /\ n >= 1 /\ history'[n].no = scan.no
                /\ \A i \in 1 .. n - 1 : history'[i] = history[i + 1]
    BY <1>4, AccumulateIs
  <2>0. n \in Nat /\ DOMAIN history = 1 .. n
    BY <1>0
  <2> HIDE DEF n
  <2>2. /\ \A i \in 1 .. n : history[i].no < scan.no
        /\ \A i \in 1 .. n - 1 : history[i].no < history[i + 1].no
        /\ n <= MaxHistory
    BY <2>0, <2>1 DEF Ordered, n
  <2>3. CASE Len(history') = n + 1
    <3>1. n + 1 <= MaxHistory /\ history'[n + 1].no = scan.no
          /\ \A i \in 1 .. n : history'[i] = history[i]
      BY <2>0, <2>1, <2>3
    <3>2. \A i \in 1 .. Len(history') - 1 : history'[i].no < history'[i + 1].no
      BY <1>0, <2>0, <2>2, <2>3, <3>1
    <3>3. \A i \in DOMAIN history' : history'[i].no <= scan'.no
      BY <1>0, <2>0, <2>1, <2>2, <2>3, <3>1
    <3> QED
      BY <2>1, <2>3, <3>1, <3>2, <3>3 DEF Ordered
  <2>4. CASE Len(history') # n + 1
    <3>1. Len(history') = n /\ n >= 1 /\ history'[n].no = scan.no
          /\ \A i \in 1 .. n - 1 : history'[i] = history[i + 1]
      BY <2>1, <2>4
    <3>2. \A i \in 1 .. Len(history') - 1 : history'[i].no < history'[i + 1].no
      BY <1>0, <2>0, <2>2, <3>1
    <3>3. ASSUME NEW i \in DOMAIN history' PROVE history'[i].no <= scan'.no
      <4>1. i = n \/ (i \in 1 .. n - 1 /\ i + 1 \in DOMAIN history)
        BY <2>0, <2>1, <3>1
      <4>2. i \in 1 .. n - 1 => history'[i].no < scan.no
        BY <2>0, <2>2, <3>1, <4>1
      <4> QED
        BY <1>0, <2>0, <2>1, <3>1, <4>1, <4>2
    <3> QED
      BY <2>1, <2>2, <3>1, <3>2, <3>3 DEF Ordered
  <2> QED
    BY <2>3, <2>4
<1>5. CASE /\ UNCHANGED <<process, history>> /\ scan'.no = scan.no
           /\ pc' \notin {"groups", "running"} \/ pc' = pc
  BY <1>5 DEF Ordered
<1> QED
  BY <1>1, <1>2, <1>3, <1>4, <1>5, HistoryCases

LEMMA SegmentedKeeps ==
  ASSUME LaunchInv, TypeInv, Produced, Segmented, [Next]_vars
  PROVE  Segmented'
<1>1. CASE scan' = NoScan /\ history' = <<>> /\ pc' \notin {"groups", "running"}
  <2>1. DOMAIN history' = {}
    BY <1>1
  <2> QED
    BY <1>1, <2>1 DEF Segmented
<1>2. ASSUME NEW near \in BOOLEAN, NEW cells \in BOOLEAN, BeginScan(near, cells)
      PROVE  Segmented'
  <2>1. scan'.left = Histories(enabled) /\ pc' = "groups" /\ UNCHANGED <<process, history>>
    BY <1>2, BeginScanIs
  <2>2. Segmenters' = Segmenters
    BY <2>1 DEF process, Segmenters
  <2>3. Segmenters # {} => 1 \in Histories(enabled)
    BY DEF Segmenters, Graph, Histories
  <2> QED
    BY <2>1, <2>2, <2>3 DEF Segmented
<1>3. CASE SkipGroup
  <2>1. /\ pc = "groups" /\ pc' = "groups" /\ NextGroup # 1 /\ scan'.left = scan.left \ {NextGroup}
        /\ scan'.result = scan.result /\ UNCHANGED <<process, history>>
    BY <1>3, SkipGroupIs
  <2>2. Segmenters' = Segmenters
    BY <2>1 DEF process, Segmenters
  <2> QED
    BY <2>1, <2>2 DEF Segmented
<1>4. CASE EnterGroup
  <2>1. /\ pc = "groups" /\ pc' = "running" /\ DOMAIN scan.result \subseteq DOMAIN exec'.ctx
        /\ UNCHANGED <<process, scan, history>>
    BY <1>4, EnterGroupIs
  <2>2. Segmenters' = Segmenters
    BY <2>1 DEF process, Segmenters
  <2> QED
    BY <2>1, <2>2 DEF Segmented
<1>5. CASE EndGroup
  <2>1. /\ pc = "running" /\ pc' = "groups" /\ exec.done = exec.nodes /\ scan.left # {}
        /\ exec.nodes = Graph(enabled, NextGroup) /\ scan'.left = scan.left \ {NextGroup}
        /\ scan'.result = exec.ctx /\ UNCHANGED <<process, history>>
    BY <1>5, EndGroupIs
  <2>2. Segmenters' = Segmenters
    BY <2>1 DEF process, Segmenters
  <2>3. ASSUME Segmenters # {}, 1 \notin scan'.left PROVE "segmented_ds" \in DOMAIN exec.ctx
    <3>1. CASE NextGroup = 1
      <4>1. PICK m \in exec.done : "segmented_ds" \in Decl(m).gives
        BY <2>1, <2>3, <3>1 DEF Segmenters
      <4> QED
        BY <4>1 DEF Produced
    <3>2. CASE NextGroup # 1
      BY <2>1, <2>3, <3>2 DEF Segmented
    <3> QED
      BY <3>1, <3>2
  <2> QED
    BY <2>1, <2>2, <2>3 DEF Segmented
<1>6. CASE Accumulate
  <2> DEFINE n == Len(history)
             keys == ScanKeys \cup DOMAIN scan.result
  <2>1. /\ pc = "groups" /\ scan.left = {} /\ pc' = "persist" /\ UNCHANGED process
        /\ n \in Nat /\ DOMAIN history' = 1 .. Len(history')
        /\ \/ Len(history') = n + 1 /\ history'[n + 1].keys = keys
                /\ \A i \in 1 .. n : history'[i] = history[i]
           \/ Len(history') = n /\ n >= 1 /\ history'[n].keys = keys
                /\ \A i \in 1 .. n - 1 : history'[i] = history[i + 1]
    BY <1>6, AccumulateIs
  <2>2. DOMAIN history = 1 .. n
    BY LenProperties DEF TypeInv, ScanTyped
  <2> HIDE DEF n
  <2>3. ASSUME NEW i \in DOMAIN history'
        PROVE  history'[i].keys = keys \/ \E j \in DOMAIN history : history'[i] = history[j]
    <3>1. CASE Len(history') = n + 1
      <4>1. i \in 1 .. n \/ i = n + 1
        BY <2>1, <2>3, <3>1
      <4>2. history'[n + 1].keys = keys /\ \A j \in 1 .. n : history'[j] = history[j]
        BY <2>1, <3>1
      <4> QED
        BY <2>2, <4>1, <4>2
    <3>2. CASE Len(history') # n + 1
      <4>1. Len(history') = n /\ history'[n].keys = keys
            /\ \A j \in 1 .. n - 1 : history'[j] = history[j + 1]
        BY <2>1, <3>2
      <4>2. i = n \/ (i \in 1 .. n - 1 /\ i + 1 \in 1 .. n)
        BY <2>1, <2>3, <4>1
      <4> QED
        BY <2>2, <4>1, <4>2
    <3> QED
      BY <3>1, <3>2
  <2>4. Segmenters' = Segmenters /\ (Segmenters # {} => "segmented_ds" \in keys)
    BY <2>1 DEF process, Segmenters, Segmented
  <2>5. ScanKeys \subseteq keys
    OBVIOUS
  <2> HIDE DEF keys
  <2> QED
    BY <2>1, <2>3, <2>4, <2>5 DEF Segmented
<1>7. ASSUME NEW m \in exec.nodes, RunNode(m) PROVE Segmented'
  <2>1. /\ exec'.ctx = DeepMerge(exec.ctx, [k \in Decl(m).gives |-> m])
        /\ UNCHANGED <<process, pc, scan, history>>
    BY <1>7, RunNodeIs
  <2>2. DOMAIN exec.ctx \subseteq DOMAIN exec'.ctx
    <3> DEFINE g == [k \in Decl(m).gives |-> m]
    <3>1. exec'.ctx = DeepMerge(exec.ctx, g)
      BY <2>1
    <3> HIDE DEF g
    <3>2. IsMerge(exec'.ctx, exec.ctx, g)
      BY <3>1, MergeIs
    <3> QED
      BY <3>2 DEF IsMerge
  <2>3. Segmenters' = Segmenters
    BY <2>1 DEF process, Segmenters
  <2> QED
    BY <2>1, <2>2, <2>3 DEF Segmented
<1>8. CASE /\ UNCHANGED <<process, history>>
           /\ \/ pc' \notin {"groups", "running"}
              \/ pc' = pc /\ scan' = scan /\ exec'.ctx = exec.ctx
  <2>1. Segmenters' = Segmenters
    BY <1>8 DEF process, Segmenters
  <2> QED
    BY <1>8, <2>1 DEF Segmented
<1> QED
  BY <1>1, <1>2, <1>3, <1>4, <1>5, <1>6, <1>7, <1>8, HistoryCases

(* What the shipped modules, and extensions that fit, declare.              *)
LEMMA SegmentationDeclared ==
  ASSUME HistoryContracts, NEW m \in Modules
  PROVE  /\ Decl(m).config # "segmented_ds"
         /\ "segmented_ds" \in Decl(m).gives =>
              Decl(m).phase = 3 \/ Decl(m).history = 1 \/ "segmented_ds" \in Decl(m).must
         /\ "scan_history" \in Decl(m).strict =>
              /\ Decl(m).history > 1 /\ Decl(m).phase \notin {3, PostPhase}
              /\ "segmented_ds" \in Decl(m).must
<1>1. CASE m \in DOMAIN CoreDecl
  <2>1. Decl(m) = CoreDecl[m]
    BY <1>1, CoreDecls
  <2>2. m \in {"ingest", "detection", "projection", "analysis", "tracking", "cell_volume_stats"}
    BY <1>1 DEF CoreDecl
  <2> QED
    BY <2>1, <2>2 DEF CoreDecl, Ingest, Detection, Projection, Analysis, Tracking,
                      CellVolumeStats, PostPhase
<1>2. CASE m = "xlma_stat"
  BY <1>2, CoreDecls DEF XlmaStat
<1>3. CASE m \in DOMAIN ExtensionDecl
  <2> DEFINE d == ExtensionDecl[m]
  <2>1. Decl(m) = d /\ "detection" \in Modules
    BY <1>3, CoreDecls DEF CoreDecl
  <2>2. Decl("detection") = Detection
    BY CoreDecls DEF CoreDecl
  <2>3. /\ \A n \in Modules : d.config \notin Decl(n).gives
        /\ "segmented_ds" \in d.gives /\ d.phase # 3 /\ d.history # 1 => "segmented_ds" \in d.must
        /\ "scan_history" \in d.strict =>
             d.history > 1 /\ d.phase \notin {3, PostPhase} /\ "segmented_ds" \in d.must
    BY <1>3 DEF HistoryContracts
  <2> HIDE DEF d
  <2>4. d.config # "segmented_ds"
    BY <2>1, <2>2, <2>3 DEF Detection
  <2> QED
    BY <2>1, <2>3, <2>4
<1> QED
  BY <1>1, <1>2, <1>3, CoreDecls

LEMMA UnsegmentedKeeps ==
  ASSUME HistoryContracts, LaunchInv, TypeInv, Unsegmented, [Next]_vars
  PROVE  Unsegmented'
<1>1. CASE pc' \notin {"groups", "running"}
  BY <1>1 DEF Unsegmented
<1>2. ASSUME NEW near \in BOOLEAN, NEW cells \in BOOLEAN, BeginScan(near, cells)
      PROVE  Unsegmented'
  <2>1. scan'.result = Empty /\ pc' = "groups"
    BY <1>2, BeginScanIs
  <2> QED
    BY <2>1, EmptyTyped DEF Unsegmented
<1>3. CASE SkipGroup
  <2>1. pc = "groups" /\ pc' = "groups" /\ scan'.result = scan.result /\ UNCHANGED process
    BY <1>3, SkipGroupIs
  <2>2. Segmenters' = Segmenters
    BY <2>1 DEF process, Segmenters
  <2> QED
    BY <2>1, <2>2 DEF Unsegmented
<1>4. CASE EnterGroup
  <2>1. /\ pc = "groups" /\ UNCHANGED <<process, scan>>
        /\ DOMAIN exec'.ctx = ScanKeys \cup ConfigKeys \cup DOMAIN scan.result
             \cup (IF NextGroup = 1 THEN {} ELSE {"scan_history"})
    BY <1>4, EnterGroupIs
  <2>2. DOMAIN registry \subseteq Modules
    BY RegistryIs DEF TypeInv, RegistryTyped
  <2>3. "segmented_ds" \notin ConfigKeys
    BY <2>2, SegmentationDeclared DEF ConfigKeys
  <2>4. Segmenters' = Segmenters
    BY <2>1 DEF process, Segmenters
  <2> QED
    BY <2>1, <2>3, <2>4 DEF Unsegmented, ScanKeys
<1>5. CASE EndGroup
  <2>1. pc = "running" /\ pc' = "groups" /\ scan'.result = exec.ctx /\ UNCHANGED process
    BY <1>5, EndGroupIs
  <2>2. Segmenters' = Segmenters
    BY <2>1 DEF process, Segmenters
  <2> QED
    BY <2>1, <2>2 DEF Unsegmented
<1>6. ASSUME NEW m \in exec.nodes, RunNode(m), pc = "running" PROVE Unsegmented'
  <2> DEFINE g == [k \in Decl(m).gives |-> m]
  <2>1. /\ exec'.ctx = DeepMerge(exec.ctx, g) /\ UNCHANGED <<process, pc, scan>> /\ Executing
        /\ m \in Modules /\ DOMAIN g = Decl(m).gives
    BY <1>6, RunNodeIs
  <2> HIDE DEF g
  <2>2. IsMerge(exec'.ctx, exec.ctx, g)
    BY <2>1, MergeIs
  <2>3. DOMAIN exec'.ctx = DOMAIN exec.ctx \cup Decl(m).gives
    BY <2>1, <2>2 DEF IsMerge
  <2>4. Segmenters' = Segmenters
    BY <2>1 DEF process, Segmenters
  <2>5. ASSUME Segmenters = {} PROVE "segmented_ds" \notin Decl(m).gives
    <3>1. exec.nodes = Graph(enabled, NextGroup) /\ Decl(m).phase # 3
          /\ Decl(m).history = NextGroup
      BY <1>6, <2>1, GraphInHand DEF TypeInv, Placed
    <3>2. "segmented_ds" \notin Decl(m).must
      BY <1>6, <2>5 DEF RunNode, Missing, Unsegmented
    <3>3. "segmented_ds" \in Decl(m).gives => Decl(m).history = 1
      BY <2>1, <3>1, <3>2, SegmentationDeclared
    <3> QED
      BY <2>5, <3>1, <3>3 DEF Segmenters
  <2> QED
    BY <1>6, <2>1, <2>3, <2>4, <2>5 DEF Unsegmented
<1>7. ASSUME NEW m \in exec.nodes, RunNode(m), pc # "running" PROVE pc' \notin {"groups", "running"}
  BY <1>7, RunNodeIs DEF Executing
<1>8. CASE UNCHANGED process /\ pc' = pc /\ scan' = scan /\ exec'.ctx = exec.ctx
  <2>1. Segmenters' = Segmenters
    BY <1>8 DEF process, Segmenters
  <2> QED
    BY <1>8, <2>1 DEF Unsegmented
<1>9. CASE Accumulate
  <2>1. pc' = "persist"
    BY <1>9 DEF Accumulate
  <2> QED
    BY <1>1, <2>1
<1> QED
  BY <1>1, <1>2, <1>3, <1>4, <1>5, <1>6, <1>7, <1>8, <1>9, HistoryCases

LEMMA PostEnabledKeeps ==
  ASSUME LaunchInv, TypeInv, PostEnabled, [Next]_vars
  PROVE  PostEnabled'
<1>1. pc \in {"off", "configured", "recorded", "registered"} => enabled = {}
  BY DEF TypeInv, RegistryTyped
<1>2. CASE LaunchStep \/ RecordRun \/ ImportModules \/ Exit
  <2>1. \/ enabled' = {}
        \/ enabled' = enabled /\ pc \in {"off", "configured", "recorded", "registered"}
    BY <1>2, LaunchStepIs DEF RecordRun, ImportModules, Exit, Refuse, process
  <2> QED
    BY <1>1, <2>1 DEF PostEnabled
<1>3. CASE SelectModules
  <2>1. /\ pc = "registered"
        /\ \/ enabled' = enabled
           \/ enabled' = Select(Available, Selection) /\ launch' = launch
    BY <1>3 DEF SelectModules, Refuse
  <2>2. CASE enabled' = enabled
    BY <1>1, <2>1, <2>2 DEF PostEnabled
  <2>3. CASE enabled' = Select(Available, Selection) /\ launch' = launch
    <3>1. launch.kind = "post" => \A m \in DOMAIN Available : Decl(m).phase = PostPhase
      BY DEF Available
    <3>2. enabled' \subseteq DOMAIN Available
      BY <2>3 DEF Select
    <3> QED
      BY <2>3, <3>1, <3>2 DEF PostEnabled
  <2> QED
    BY <2>1, <2>2, <2>3
<1>4. CASE BuildGraphs
  <2>1. enabled' = enabled /\ (launch' = launch \/ launch' = [launch EXCEPT !.why = "duplicate"])
    BY <1>4 DEF BuildGraphs, Refuse
  <2>2. launch'.kind = launch.kind
    BY <2>1 DEF LaunchInv, LaunchTyped
  <2> QED
    BY <2>1, <2>2 DEF PostEnabled
<1>5. CASE ScanStep \/ UNCHANGED vars
  <2>1. UNCHANGED process
    BY <1>5, ScanStepIs DEF vars
  <2> QED
    BY <2>1 DEF process, PostEnabled
<1> QED
  BY <1>2, <1>3, <1>4, <1>5, StepCases

(* Where check_scan_history looks, the segmentation is there.               *)
LEMMA HistoryIsShaped ==
  ASSUME HistoryContracts, LaunchInv, TypeInv, Segmented, Unsegmented, PostEnabled,
         NEW m \in exec.nodes, Executing, Missing(m) = {}
  PROVE  HistoryShaped(m)
<1> SUFFICES ASSUME "scan_history" \in Decl(m).strict
             PROVE  /\ \A i \in DOMAIN Prior(NextGroup) :
                         {"segmented_ds", "scan_time"} \subseteq Prior(NextGroup)[i].keys
                    /\ "segmented_ds" \in DOMAIN scan.result
  BY DEF HistoryShaped
<1>1. m \in enabled /\ m \in Modules
  BY RegistryIs DEF TypeInv, ExecTyped, RegistryTyped
<1>2. /\ Decl(m).history > 1 /\ Decl(m).phase # 3 /\ Decl(m).phase # PostPhase
      /\ "segmented_ds" \in DOMAIN exec.ctx
  BY <1>1, SegmentationDeclared DEF Missing
<1>3. pc = "running"
  <2>1. pc # "enriching"
    BY <1>2, GraphInHand
  <2>2. pc # "posting"
    BY <1>1, <1>2 DEF PostEnabled, LaunchInv, LaunchTyped, PostOnly
  <2> QED
    BY <2>1, <2>2 DEF Executing
<1>4. NextGroup = Decl(m).history
  BY <1>3, GraphInHand
<1>5. Segmenters # {}
  BY <1>2, <1>3 DEF Unsegmented
<1>6. /\ scan.left # {} /\ Len(history) >= NextGroup - 1 /\ history \in Seq(Pasts)
      /\ NextGroup \in Nat \ {0} /\ 1 \notin scan.left
  <2>1. scan.left # {} /\ Len(history) >= NextGroup - 1 /\ history \in Seq(Pasts)
    BY <1>3 DEF TypeInv, Placed, ScanTyped
  <2> QED
    BY <1>2, <1>4, <2>1, LeftIs
<1>7. "segmented_ds" \in DOMAIN scan.result
  BY <1>3, <1>5, <1>6 DEF Segmented
<1>8. ASSUME NEW i \in DOMAIN Prior(NextGroup)
      PROVE  {"segmented_ds", "scan_time"} \subseteq Prior(NextGroup)[i].keys
  <2>1. PICK j \in DOMAIN history : Prior(NextGroup)[i] = history[j]
    BY <1>6, PriorIs
  <2> QED
    BY <1>5, <2>1 DEF Segmented, ScanKeys
<1> QED
  BY <1>7, <1>8

LEMMA NotForHistory ==
  ASSUME HistoryContracts, LaunchInv, TypeInv, Segmented, Unsegmented, PostEnabled,
         verdict.why # "history", [Next]_vars
  PROVE  verdict'.why # "history"
<1>1. CASE RunStarts
  BY <1>1 DEF RunStarts, NoVerdict, None
<1>2. CASE LeftAlone
  BY <1>2 DEF LeftAlone
<1>3. CASE OtherFails \/ NoProgress
  <2>1. PICK why, m, keys : why \in {"grid", "store", "stuck"} /\ Fails(why, m, keys)
    BY <1>3 DEF OtherFails, NoProgress
  <2>2. verdict'.why = why
    BY <2>1 DEF Fails
  <2> QED
    BY <2>1, <2>2
<1>4. ASSUME NEW m \in exec.nodes, LacksInput(m) \/ NodeRaises(m) \/ ContractFails(m)
      PROVE  verdict'.why # "history"
  <2>1. Executing /\ (ContractFails(m) => Missing(m) = {})
    BY <1>4 DEF LacksInput, NodeRaises, ContractFails, Visit
  <2>2. ContractFails(m) => HistoryShaped(m)
    BY <2>1, HistoryIsShaped
  <2>3. \E why \in {"contract", "missing", "raised"} : \E keys : Fails(why, m, keys)
    BY <1>4, <2>2 DEF LacksInput, NodeRaises, ContractFails
  <2>4. PICK why, keys : why \in {"contract", "missing", "raised"} /\ Fails(why, m, keys)
    BY <2>3
  <2>5. verdict'.why = why
    BY <2>4 DEF Fails
  <2> QED
    BY <2>4, <2>5
<1>5. CASE (\E m \in exec.nodes : RunNode(m)) \/ NextRound
  BY <1>5, RunNodeIs DEF NextRound
<1> QED
  BY <1>1, <1>2, <1>3, <1>4, <1>5, ExecCases DEF NodeFails

LEMMA HistoryInit == Init => Ordered /\ Segmented /\ Unsegmented /\ PostEnabled
<1> SUFFICES ASSUME Init PROVE Ordered /\ Segmented /\ Unsegmented /\ PostEnabled
  OBVIOUS
<1>1. Len(history) = 0 /\ DOMAIN history = {} /\ pc = "off" /\ enabled = {}
  BY DEF Init
<1> QED
  BY <1>1, MaxHistoryAssumption DEF Ordered, Segmented, Unsegmented, PostEnabled

(* RadarProcessor._run_scan, with no hypothesis on the extensions: the      *)
(* history is of the last max_history scans that got through their groups,  *)
(* oldest first and before the one in hand, and has the segmentation of     *)
(* every one of them where a module of the first group gives it.            *)
THEOREM HistoryKept == Spec => [](LaunchInv /\ TypeInv /\ Produced /\ Ordered /\ Segmented)
<1>1. Init => Produced
  BY NoExecTyped DEF Init, Produced
<1>2. LaunchInv /\ TypeInv /\ Produced /\ Ordered /\ Segmented /\ [Next]_vars
      => Produced' /\ Ordered' /\ Segmented'
  BY ProducedKeeps, OrderedKeeps, SegmentedKeeps
<1> QED
  BY <1>1, <1>2, HistoryInit, TypeInvariant, PTL DEF Spec

(* RadarProcessor._run_scan: the history is of the last max_history scans   *)
(* that got through their groups, oldest first, each with its segmentation  *)
(* where detection is enabled; and as long as an extension that validates   *)
(* it reads the segmentation too, a history never stops the processor.      *)
THEOREM HistoryFitsHolds ==
  ASSUME HistoryContracts
  PROVE  Spec => []HistoryFits
<1> DEFINE Fitting == verdict.why # "history"
<1>1. Init => Unsegmented /\ PostEnabled /\ Fitting
  BY HistoryInit DEF Init, NoVerdict, None
<1>2. /\ LaunchInv /\ TypeInv /\ Segmented /\ Unsegmented /\ PostEnabled /\ Fitting /\ [Next]_vars
      => Unsegmented' /\ PostEnabled' /\ Fitting'
  BY UnsegmentedKeeps, PostEnabledKeeps, NotForHistory
<1>3. Ordered /\ Segmented /\ Fitting => HistoryFits
  <2> SUFFICES ASSUME Ordered, Segmented, Fitting PROVE HistoryFits
    OBVIOUS
  <2>1. "detection" \in enabled => Segmenters # {}
    <3>1. Decl("detection") = Detection
      BY CoreDecls DEF CoreDecl
    <3> QED
      BY <3>1 DEF Detection, Segmenters, Graph, InPipeline
  <2> QED
    BY <2>1 DEF Ordered, Segmented, HistoryFits, ScanKeys
<1> HIDE DEF Fitting
<1> QED
  BY <1>1, <1>2, <1>3, HistoryKept, PTL DEF Spec

-----------------------------------------------------------------------------
(***************************************************************************)
(* What a module lacks                                                     *)
(***************************************************************************)
CoreNames == {"ingest", "detection", "projection", "analysis", "tracking", "cell_volume_stats"}

LEMMA CoreDeclared ==
  ASSUME NEW m \in DOMAIN CoreDecl
  PROVE  /\ m \in CoreNames /\ m \in Modules /\ Decl(m) = CoreDecl[m]
         /\ Decl(m).must \subseteq Decl(m).needs /\ Decl(m).config # None
         /\ Decl(m).phase = 0 \/ (m = "cell_volume_stats" /\ Decl(m).phase = 3)
         /\ Decl(m).phase = 3 => Decl(m).must = {Decl(m).config}
<1>1. m \in CoreNames
  BY DEF CoreDecl, CoreNames
<1>2. Decl(m) = CoreDecl[m] /\ m \in Modules
  BY CoreDecls
<1> QED
  BY <1>1, <1>2 DEF CoreNames, CoreDecl, Ingest, Detection, Projection, Analysis, Tracking,
                    CellVolumeStats, None

LEMMA MustIsNeeded ==
  ASSUME SelectionContracts, NEW m \in Modules
  PROVE  Decl(m).must \subseteq Decl(m).needs
<1>1. CASE m = "xlma_stat"
  BY <1>1, CoreDecls DEF XlmaStat
<1>2. CASE m \in DOMAIN ExtensionDecl
  BY <1>2, CoreDecls DEF SelectionContracts
<1> QED
  BY <1>1, <1>2, CoreDecls, CoreDeclared

LEMMA TracksDeclared ==
  ASSUME SelectionContracts, NEW m \in Modules
  PROVE  /\ Decl(m).config # "tracked_cells"
         /\ "tracked_cells" \in Decl(m).gives => Decl(m).phase = 3 \/ Decl(m).history >= 2
<1>1. CASE m \in DOMAIN CoreDecl
  BY <1>1, CoreDeclared DEF CoreNames, CoreDecl, Ingest, Detection, Projection, Analysis, Tracking,
                            CellVolumeStats
<1>2. CASE m = "xlma_stat"
  BY <1>2, CoreDecls DEF XlmaStat
<1>3. CASE m \in DOMAIN ExtensionDecl
  <2> DEFINE d == ExtensionDecl[m]
  <2>1. Decl(m) = d /\ "tracking" \in Modules /\ Decl("tracking") = Tracking
    BY <1>3, CoreDecls DEF CoreDecl
  <2>2. /\ \A n \in Modules : d.config \notin Decl(n).gives
        /\ "tracked_cells" \in d.gives => d.phase = 3 \/ d.history >= 2
    BY <1>3 DEF SelectionContracts
  <2> HIDE DEF d
  <2> QED
    BY <2>1, <2>2 DEF Tracking
<1> QED
  BY <1>1, <1>2, <1>3, CoreDecls

(* A module that gives what a core one requires is in no later group.       *)
LEMMA Suppliers ==
  ASSUME SelectionContracts, NEW m \in DOMAIN CoreDecl, NEW g \in Modules,
         Decl(g).gives \cap Decl(m).must # {}
  PROVE  Decl(g).phase # 3 /\ Decl(g).history <= Decl(m).history
<1>1. CASE g \in DOMAIN CoreDecl
  BY <1>1, CoreDeclared DEF CoreNames, CoreDecl, Ingest, Detection, Projection, Analysis, Tracking,
                            CellVolumeStats
<1>2. CASE g = "xlma_stat"
  BY <1>2, CoreDecls, CoreDeclared DEF CoreNames, XlmaStat, CoreDecl, Ingest, Detection,
                                       Projection, Analysis, Tracking, CellVolumeStats
<1>3. CASE g \in DOMAIN ExtensionDecl
  <2> DEFINE d == ExtensionDecl[g]
  <2>1. Decl(g) = d /\ Decl(m) = CoreDecl[m]
    BY <1>3, CoreDecls
  <2>2. d.gives \cap CoreDecl[m].must # {} => d.phase # 3 /\ d.history <= CoreDecl[m].history
    BY <1>3 DEF SelectionContracts
  <2> HIDE DEF d
  <2> QED
    BY <2>1, <2>2
<1> QED
  BY <1>1, <1>2, <1>3, CoreDecls

(* What an enrichment requires of the pipeline every tracked scan has.      *)
LEMMA EnrichedFrom ==
  ASSUME SelectionContracts, NEW m \in Modules, NEW p \in Modules,
         Decl(m).phase = 3, Decl(p).phase # 3, Decl(p).gives \cap Decl(m).must # {}
  PROVE  Decl(p).history <= 2
<1>1. CASE m \in DOMAIN CoreDecl
  <2>1. Decl(m).history = 1
    BY <1>1, CoreDeclared DEF CoreDecl, CellVolumeStats
  <2>2. Decl(p).history <= Decl(m).history
    BY <1>1, Suppliers
  <2> QED
    BY <2>1, <2>2, HistoryTyped
<1>2. CASE m = "xlma_stat"
  BY <1>2, CoreDecls DEF XlmaStat, PostPhase
<1>3. CASE m \in DOMAIN ExtensionDecl
  <2> DEFINE d == ExtensionDecl[m]
  <2>1. Decl(m) = d
    BY <1>3, CoreDecls
  <2>2. d.phase = 3 =>
          \A q \in Modules : Decl(q).gives \cap d.must # {} =>
            Decl(q).phase = 3 \/ Decl(q).history <= 2
    BY <1>3 DEF SelectionContracts
  <2> HIDE DEF d
  <2> QED
    BY <2>1, <2>2
<1> QED
  BY <1>1, <1>2, <1>3, CoreDecls

(* What a core module requires: its configuration, the scan, the history,   *)
(* or what another core module gives.                                       *)
LEMMA CoreRequires ==
  ASSUME NEW m \in DOMAIN CoreDecl, NEW k \in Decl(m).must
  PROVE  \/ k \in ScanKeys \/ k = Decl(m).config
         \/ k = "scan_history" /\ Decl(m).history > 1
         \/ \E g \in DOMAIN CoreDecl : k \in Decl(g).gives
<1>1. DOMAIN CoreDecl = CoreNames /\ \A g \in CoreNames : Decl(g) = CoreDecl[g]
  BY CoreDecls DEF CoreDecl, CoreNames
<1>2. /\ {"grid_ds", "grid_ds_2d"} \subseteq Decl("ingest").gives
      /\ "segmented_ds" \in Decl("detection").gives
      /\ "projected_ds" \in Decl("projection").gives
      /\ "cell_stats" \in Decl("analysis").gives
  BY <1>1 DEF CoreNames, CoreDecl, Ingest, Detection, Projection, Analysis
<1>3. ASSUME k \in {"grid_ds", "grid_ds_2d", "segmented_ds", "projected_ds", "cell_stats"}
      PROVE  \E g \in DOMAIN CoreDecl : k \in Decl(g).gives
  BY <1>1, <1>2, <1>3 DEF CoreNames
<1>4. \/ k \in ScanKeys \/ k = Decl(m).config
      \/ k = "scan_history" /\ Decl(m).history > 1
      \/ k \in {"grid_ds", "grid_ds_2d", "segmented_ds", "projected_ds", "cell_stats"}
  BY <1>1 DEF CoreNames, CoreDecl, Ingest, Detection, Projection, Analysis, Tracking,
              CellVolumeStats, ScanKeys
<1> QED
  BY <1>3, <1>4

(* The selection was validated: the last module registered for a key that   *)
(* an enabled one needs is enabled.                                         *)
Wired ==
  /\ \E n \in Nat : \A m \in DOMAIN registry : registry[m] <= n
  /\ launch.kind = "live" /\ pc \in {"selected"} \cup ScanLive =>
       \A m \in enabled : \A k \in Decl(m).needs : ProducerOf(registry, k) \subseteq enabled

LEMMA WiredKeeps ==
  ASSUME LaunchInv, TypeInv, Wired, [Next]_vars
  PROVE  Wired'
<1>1. CASE LaunchStep
  <2>1. pc' \in {"configured", "refused"} /\ registry' = registry
    BY <1>1, LaunchStepIs
  <2> QED
    BY <2>1 DEF Wired, ScanLive
<1>2. CASE RecordRun
  <2>1. pc' = "recorded" /\ registry' = registry
    BY <1>2 DEF RecordRun, process
  <2> QED
    BY <2>1 DEF Wired, ScanLive
<1>3. CASE ImportModules
  <2>1. pc \in {"configured", "recorded"} /\ pc' \in {"registered", "refused"}
    BY <1>3 DEF ImportModules, Refuse
  <2>2. /\ launch.kind \in {"live", "post"}
        /\ launch.kind = "live" => launch.config.extensions \in Seq(STRING)
    BY <2>1 DEF LaunchInv, LaunchTyped, Either, LiveOnly
  <2>3. \E n \in Nat : \A m \in DOMAIN registry' : registry'[m] <= n
    BY <1>3, <2>2, ImportIs
  <2> QED
    BY <2>1, <2>3 DEF Wired, ScanLive
<1>4. CASE SelectModules
  <2>1. registry' = registry
    BY <1>4 DEF SelectModules
  <2>2. CASE SelectionError(Available, Selection) # None
    BY <1>4, <2>1, <2>2 DEF SelectModules, Refuse, Wired, ScanLive
  <2>3. CASE SelectionError(Available, Selection) = None
    <3> DEFINE names == EnabledNames(DOMAIN registry, Selection)
    <3>1. enabled' = Select(Available, Selection) /\ launch' = launch
      BY <1>4, <2>3 DEF SelectModules
    <3>2. ASSUME launch.kind = "live" PROVE enabled' = DOMAIN registry \cap names
      BY <3>1, <3>2 DEF Available, Select
    <3>3. ASSUME launch.kind = "live" PROVE ~NeedsDisabled(registry, names)
      BY <2>3, <3>3 DEF SelectionError, Available, None
    <3>4. \A k : ProducerOf(registry, k) \subseteq DOMAIN registry
      BY DEF ProducerOf
    <3> HIDE DEF names
    <3>5. ASSUME launch.kind = "live", NEW m \in enabled', NEW k \in Decl(m).needs
          PROVE  ProducerOf(registry, k) \subseteq enabled'
      <4>1. m \in names /\ enabled' = DOMAIN registry \cap names
        BY <3>2, <3>5
      <4>2. ProducerOf(registry, k) \subseteq names
        BY <3>3, <3>5, <4>1 DEF NeedsDisabled
      <4> QED
        BY <3>4, <4>1, <4>2
    <3> QED
      BY <2>1, <3>1, <3>5 DEF Wired, ProducerOf
  <2> QED
    BY <2>2, <2>3
<1>5. CASE BuildGraphs
  <2>1. pc = "selected" /\ registry' = registry /\ enabled' = enabled
    BY <1>5 DEF BuildGraphs, Refuse
  <2>2. pc' = "refused" \/ launch' = launch
    BY <1>5 DEF BuildGraphs, Refuse
  <2> QED
    BY <2>1, <2>2 DEF Wired, ProducerOf, ScanLive
<1>6. CASE Exit
  <2>1. registry' = Empty /\ pc' = "off"
    BY <1>6 DEF Exit
  <2>2. DOMAIN registry' = {}
    BY <2>1, EmptyTyped
  <2> QED
    BY <2>1, <2>2 DEF Wired, ScanLive
<1>7. CASE ScanStep
  <2>1. UNCHANGED process /\ (pc \in ScanLive \/ pc' \notin {"selected"} \cup ScanLive)
    BY <1>7, ScanStepIs DEF ScanLive
  <2> QED
    BY <2>1 DEF process, Wired, ProducerOf
<1>8. CASE UNCHANGED vars
  BY <1>8 DEF vars, process, Wired, ProducerOf
<1> QED
  BY <1>1, <1>2, <1>3, <1>4, <1>5, <1>6, <1>7, <1>8, StepCases

LEMMA LastProducer ==
  ASSUME registry \in Registries, Wired, NEW k, NEW m \in DOMAIN registry, k \in Decl(m).gives
  PROVE  ProducerOf(registry, k) # {}
<1> DEFINE G == {p \in DOMAIN registry : k \in Decl(p).gives}
<1>1. PICK n \in Nat : \A p \in DOMAIN registry : registry[p] <= n
  BY DEF Wired
<1>2. \A p \in DOMAIN registry : registry[p] \in Nat
  BY RegistryIs
<1> DEFINE S == {n - registry[p] : p \in G}
<1>3. S \subseteq Nat /\ S # {}
  BY <1>1, <1>2
<1>4. Min(S) \in S /\ \A x \in S : Min(S) <= x
  BY <1>3, LeastOfNaturals
<1>5. PICK g \in G : Min(S) = n - registry[g]
  BY <1>4
<1>6. ASSUME NEW p \in G PROVE registry[p] <= registry[g]
  <2>1. n - registry[g] <= n - registry[p]
    BY <1>4, <1>5
  <2> QED
    BY <1>1, <1>2, <2>1
<1> QED
  BY <1>6 DEF ProducerOf

(* What the groups behind gave is in the scan's result, and the context of  *)
(* the one in hand holds that and what the runtime gives.                   *)
Grouped ==
  /\ pc \in {"groups", "running"} =>
       /\ DOMAIN scan.result = {} \/ ConfigKeys \subseteq DOMAIN scan.result
       /\ "tracked_cells" \in DOMAIN scan.result => scan.near /\ Len(history) >= 1
       /\ \A p \in InPipeline(enabled) :
            /\ Decl(p).history \notin scan.left /\ Len(history) >= Decl(p).history - 1
            /\ Decl(p).history > 1 => scan.near
            => Decl(p).gives \subseteq DOMAIN scan.result
  /\ pc = "running" =>
       /\ ScanKeys \cup ConfigKeys \cup DOMAIN scan.result \subseteq DOMAIN exec.ctx
       /\ NextGroup > 1 => scan.near /\ "scan_history" \in DOMAIN exec.ctx
       /\ "tracked_cells" \in DOMAIN exec.ctx => scan.near /\ Len(history) >= 1

(* A scan that has tracks is near another and ran its groups of one or two. *)
Enriched ==
  /\ pc \in {"persist", "enrich", "enriching"} /\ "tracked_cells" \in DOMAIN scan.result =>
       /\ ConfigKeys \subseteq DOMAIN scan.result
       /\ \A p \in InPipeline(enabled) :
            Decl(p).history <= 2 => Decl(p).gives \subseteq DOMAIN scan.result
  /\ pc = "enriching" =>
       "tracked_cells" \in DOMAIN scan.result /\ DOMAIN scan.result \subseteq DOMAIN exec.ctx

LEMMA MergedKeys ==
  ASSUME TypeInv, NEW m \in exec.nodes, RunNode(m)
  PROVE  DOMAIN exec'.ctx = DOMAIN exec.ctx \cup Decl(m).gives
<1> DEFINE g == [k \in Decl(m).gives |-> m]
<1>1. exec'.ctx = DeepMerge(exec.ctx, g) /\ DOMAIN g = Decl(m).gives
  BY RunNodeIs
<1> HIDE DEF g
<1>2. IsMerge(exec'.ctx, exec.ctx, g)
  BY <1>1, MergeIs
<1> QED
  BY <1>1, <1>2 DEF IsMerge

LEMMA EnrichmentKeys ==
  DOMAIN scan.result \subseteq DOMAIN EnrichContext
<1> DEFINE g == Given({"run_id", "scan_id", "scan_time"} \cup
                      IF WantsGrid THEN {"grid_ds_3d"} ELSE {})
<1>1. EnrichContext = DeepMerge(scan.result, g)
  BY DEF EnrichContext
<1> HIDE DEF g
<1>2. IsMerge(EnrichContext, scan.result, g)
  BY <1>1, MergeIs
<1> QED
  BY <1>2 DEF IsMerge

LEMMA GroupedKeeps ==
  ASSUME SelectionContracts, LaunchInv, TypeInv, Produced, Grouped, [Next]_vars
  PROVE  Grouped'
<1>0. /\ Len(history) \in Nat /\ \A p \in InPipeline(enabled) : Decl(p).history \in Nat \ {0}
      /\ DOMAIN registry \subseteq Modules
  <2>1. Len(history) \in Nat
    BY LenProperties DEF TypeInv, ScanTyped
  <2>2. DOMAIN registry \subseteq Modules /\ enabled \subseteq DOMAIN registry
    BY RegistryIs DEF TypeInv, RegistryTyped
  <2> QED
    BY <2>1, <2>2, HistoryTyped DEF InPipeline
<1>1. CASE pc' \notin {"groups", "running"}
  BY <1>1 DEF Grouped
<1>2. ASSUME NEW near \in BOOLEAN, NEW cells \in BOOLEAN, BeginScan(near, cells)
      PROVE  Grouped'
  <2>1. /\ scan'.result = Empty /\ scan'.left = Histories(enabled) /\ pc' = "groups"
        /\ UNCHANGED process
    BY <1>2, BeginScanIs
  <2>2. \A p \in InPipeline(enabled') : Decl(p).history \in scan'.left
    BY <2>1 DEF process, Histories, InPipeline
  <2>3. DOMAIN scan'.result = {}
    BY <2>1, EmptyTyped
  <2> QED
    BY <2>1, <2>2, <2>3 DEF Grouped
<1>3. CASE SkipGroup
  <2>1. /\ pc = "groups" /\ pc' = "groups" /\ scan'.left = scan.left \ {NextGroup}
        /\ scan'.result = scan.result /\ scan'.near = scan.near /\ ~(HasHistory /\ GapFits)
        /\ UNCHANGED <<process, history>>
    BY <1>3, SkipGroupIs
  <2>2. ConfigKeys' = ConfigKeys /\ InPipeline(enabled)' = InPipeline(enabled)
    BY <2>1 DEF process, ConfigKeys, InPipeline
  <2>3. ASSUME NEW p \in InPipeline(enabled), Decl(p).history = NextGroup
        PROVE  ~ (Len(history) >= Decl(p).history - 1 /\ (Decl(p).history > 1 => scan.near))
    BY <2>1, <2>3 DEF HasHistory, PriorNeeded, GapFits
  <2> QED
    BY <2>1, <2>2, <2>3 DEF Grouped
<1>4. CASE EnterGroup
  <2>1. /\ pc = "groups" /\ UNCHANGED <<process, scan, history>> /\ GapFits
        /\ DOMAIN exec'.ctx = ScanKeys \cup ConfigKeys \cup DOMAIN scan.result
             \cup (IF NextGroup = 1 THEN {} ELSE {"scan_history"})
    BY <1>4, EnterGroupIs
  <2>2. ConfigKeys' = ConfigKeys /\ InPipeline(enabled)' = InPipeline(enabled)
    BY <2>1 DEF process, ConfigKeys, InPipeline
  <2>3. "tracked_cells" \notin ScanKeys \cup ConfigKeys \cup {"scan_history"}
    BY <1>0, TracksDeclared DEF ConfigKeys, ScanKeys
  <2>4. NextGroup' = NextGroup
    BY <2>1 DEF NextGroup
  <2>5. NextGroup > 1 => scan.near /\ "scan_history" \in DOMAIN exec'.ctx
    BY <2>1 DEF GapFits
  <2> QED
    BY <2>1, <2>2, <2>3, <2>4, <2>5 DEF Grouped
<1>5. CASE EndGroup
  <2>1. /\ pc = "running" /\ pc' = "groups" /\ exec.done = exec.nodes
        /\ exec.nodes = Graph(enabled, NextGroup)
        /\ scan'.left = scan.left \ {NextGroup} /\ scan'.result = exec.ctx
        /\ scan'.near = scan.near /\ UNCHANGED <<process, history>>
    BY <1>5, EndGroupIs
  <2>2. ConfigKeys' = ConfigKeys /\ InPipeline(enabled)' = InPipeline(enabled)
    BY <2>1 DEF process, ConfigKeys, InPipeline
  <2>3. ASSUME NEW p \in InPipeline(enabled), Decl(p).history = NextGroup
        PROVE  Decl(p).gives \subseteq DOMAIN exec.ctx
    <3>1. p \in exec.done
      BY <2>1, <2>3 DEF Graph
    <3> QED
      BY <3>1 DEF Produced
  <2>4. DOMAIN scan.result \subseteq DOMAIN exec.ctx /\ ConfigKeys \subseteq DOMAIN exec.ctx
    BY <2>1 DEF Grouped
  <2>5. "tracked_cells" \in DOMAIN exec.ctx => scan.near /\ Len(history) >= 1
    BY <2>1 DEF Grouped
  <2>6. ASSUME NEW p \in InPipeline(enabled), Decl(p).history \notin scan'.left,
               Len(history) >= Decl(p).history - 1, Decl(p).history > 1 => scan.near
        PROVE  Decl(p).gives \subseteq DOMAIN exec.ctx
    <3>1. CASE Decl(p).history = NextGroup
      BY <2>3, <3>1
    <3>2. CASE Decl(p).history # NextGroup
      <4>1. Decl(p).gives \subseteq DOMAIN scan.result
        BY <2>1, <2>6, <3>2 DEF Grouped
      <4> QED
        BY <2>4, <4>1
    <3> QED
      BY <3>1, <3>2
  <2> QED
    BY <2>1, <2>2, <2>4, <2>5, <2>6 DEF Grouped
<1>6. ASSUME NEW m \in exec.nodes, RunNode(m), pc = "running" PROVE Grouped'
  <2>1. UNCHANGED <<process, pc, scan, history>> /\ Executing /\ m \in Modules
    BY <1>6, RunNodeIs
  <2>2. ConfigKeys' = ConfigKeys /\ InPipeline(enabled)' = InPipeline(enabled)
    BY <2>1 DEF process, ConfigKeys, InPipeline
  <2>3. DOMAIN exec'.ctx = DOMAIN exec.ctx \cup Decl(m).gives
    BY <1>6, MergedKeys
  <2>4. NextGroup' = NextGroup
    BY <2>1 DEF NextGroup
  <2>5. ASSUME "tracked_cells" \in Decl(m).gives PROVE scan.near /\ Len(history) >= 1
    <3>1. Decl(m).history = NextGroup /\ Decl(m).phase # 3 /\ Len(history) >= NextGroup - 1
      BY <1>6, <2>1, GraphInHand DEF TypeInv, Placed
    <3>2. Decl(m).history >= 2 /\ Decl(m).history \in Nat
      BY <2>1, <2>5, <3>1, TracksDeclared, HistoryTyped
    <3>3. NextGroup > 1 => scan.near
      BY <1>6 DEF Grouped
    <3> QED
      BY <1>0, <3>1, <3>2, <3>3
  <2> QED
    BY <1>6, <2>1, <2>2, <2>3, <2>4, <2>5 DEF Grouped
<1>7. ASSUME NEW m \in exec.nodes, RunNode(m), pc # "running" PROVE pc' \notin {"groups", "running"}
  BY <1>7, RunNodeIs DEF Executing
<1>8. CASE UNCHANGED <<process, history>> /\ pc' = pc /\ scan' = scan /\ exec'.ctx = exec.ctx
  <2>1. ConfigKeys' = ConfigKeys /\ InPipeline(enabled)' = InPipeline(enabled)
    BY <1>8 DEF process, ConfigKeys, InPipeline
  <2>2. NextGroup' = NextGroup
    BY <1>8 DEF NextGroup
  <2> QED
    BY <1>8, <2>1, <2>2 DEF Grouped
<1>9. CASE Accumulate
  <2>1. pc' = "persist"
    BY <1>9 DEF Accumulate
  <2> QED
    BY <1>1, <2>1
<1> QED
  BY <1>1, <1>2, <1>3, <1>4, <1>5, <1>6, <1>7, <1>8, <1>9, HistoryCases

LEMMA EnrichedKeeps ==
  ASSUME LaunchInv, TypeInv, Grouped, Enriched, [Next]_vars
  PROVE  Enriched'
<1>1. CASE pc' \notin {"persist", "enrich", "enriching"}
  BY <1>1 DEF Enriched
<1>2. CASE LaunchStep \/ RecordRun \/ ImportModules \/ SelectModules \/ BuildGraphs \/ Exit
  <2>1. pc' \in Early \cup {"ready", "posting"}
    BY <1>2, LaunchSide
  <2> QED
    BY <1>1, <2>1 DEF Early
<1>3. CASE Accumulate
  <2>1. /\ pc = "groups" /\ scan.left = {} /\ pc' = "persist" /\ UNCHANGED <<process, scan>>
    BY <1>3 DEF Accumulate
  <2>2. ConfigKeys' = ConfigKeys /\ InPipeline(enabled)' = InPipeline(enabled)
    BY <2>1 DEF process, ConfigKeys, InPipeline
  <2>3. ASSUME "tracked_cells" \in DOMAIN scan.result
        PROVE  /\ ConfigKeys \subseteq DOMAIN scan.result
               /\ \A p \in InPipeline(enabled) :
                    Decl(p).history <= 2 => Decl(p).gives \subseteq DOMAIN scan.result
    <3>1. scan.near /\ Len(history) >= 1 /\ ConfigKeys \subseteq DOMAIN scan.result
      BY <2>1, <2>3 DEF Grouped
    <3>2. Len(history) \in Nat
      BY LenProperties DEF TypeInv, ScanTyped
    <3>3. ASSUME NEW p \in InPipeline(enabled), Decl(p).history <= 2
          PROVE  Decl(p).gives \subseteq DOMAIN scan.result
      <4>1. Decl(p).history \in Nat \ {0}
        BY HistoryTyped, RegistryIs DEF TypeInv, RegistryTyped, InPipeline
      <4>2. Decl(p).history \notin scan.left /\ Len(history) >= Decl(p).history - 1
        BY <2>1, <3>1, <3>2, <3>3, <4>1
      <4> QED
        BY <2>1, <3>1, <4>2 DEF Grouped
    <3> QED
      BY <3>1, <3>3
  <2> QED
    BY <2>1, <2>2, <2>3 DEF Enriched
<1>4. CASE Persist
  <2>1. /\ pc = "persist" /\ pc' = "enrich" /\ scan'.result = scan.result /\ UNCHANGED process
    BY <1>4, PersistIs
  <2>2. ConfigKeys' = ConfigKeys /\ InPipeline(enabled)' = InPipeline(enabled)
    BY <2>1 DEF process, ConfigKeys, InPipeline
  <2> QED
    BY <2>1, <2>2 DEF Enriched
<1>5. CASE EnterEnrichment
  <2>1. /\ pc = "enrich" /\ Tracked
        /\ \/ pc' \in {"ready", "stopped"}
           \/ /\ IsNew(exec', PostGraph(enabled), EnrichContext) /\ pc' = "enriching"
              /\ UNCHANGED <<process, scan>>
    BY <1>5, EnterEnrichmentIs, FailsIs
  <2>2. CASE pc' \in {"ready", "stopped"}
    BY <1>1, <2>2
  <2>3. CASE pc' = "enriching"
    <3>1. IsNew(exec', PostGraph(enabled), EnrichContext) /\ UNCHANGED <<process, scan>>
      BY <2>1, <2>3
    <3>2. ConfigKeys' = ConfigKeys /\ InPipeline(enabled)' = InPipeline(enabled)
      BY <3>1 DEF process, ConfigKeys, InPipeline
    <3>3. DOMAIN scan.result \subseteq DOMAIN exec'.ctx
      BY <3>1, EnrichmentKeys DEF IsNew
    <3>4. "tracked_cells" \in DOMAIN scan.result
      BY <2>1 DEF Tracked
    <3> QED
      BY <2>1, <2>3, <3>1, <3>2, <3>3, <3>4 DEF Enriched
  <2> QED
    BY <2>1, <2>2, <2>3
<1>6. ASSUME NEW m \in exec.nodes, RunNode(m) PROVE Enriched'
  <2>1. UNCHANGED <<process, pc, scan>> /\ DOMAIN exec.ctx \subseteq DOMAIN exec'.ctx
    BY <1>6, RunNodeIs, MergedKeys
  <2>2. ConfigKeys' = ConfigKeys /\ InPipeline(enabled)' = InPipeline(enabled)
    BY <2>1 DEF process, ConfigKeys, InPipeline
  <2> QED
    BY <2>1, <2>2 DEF Enriched
<1>7. CASE NextRound \/ UNCHANGED vars
  <2>1. UNCHANGED <<process, pc, scan>> /\ exec'.ctx = exec.ctx
    BY <1>7, NextRoundIs DEF vars
  <2>2. ConfigKeys' = ConfigKeys /\ InPipeline(enabled)' = InPipeline(enabled)
    BY <2>1 DEF process, ConfigKeys, InPipeline
  <2> QED
    BY <2>1, <2>2 DEF Enriched
<1>8. CASE NodeFails \/ NoProgress
  <2>1. pc' \in {"ready", "stopped", "posted"}
    BY <1>8, NodeLeaves DEF Leaves, NodeFails
  <2> QED
    BY <1>1, <2>1
<1>9. CASE StoreFails
  <2>1. pc' \in {"ready", "stopped", "posted"}
    BY <1>9, FailsIs DEF StoreFails
  <2> QED
    BY <1>1, <2>1
<1>10. CASE SkipGroup \/ EnterGroup \/ EndGroup \/ SkipEnrichment \/ EndGraph
  <2>1. pc' \in {"groups", "running", "ready", "posted"}
    BY <1>10 DEF SkipGroup, EnterGroup, EndGroup, SkipEnrichment, EndGraph
  <2> QED
    BY <1>1, <2>1
<1>11. ASSUME NEW near \in BOOLEAN, NEW cells \in BOOLEAN, BeginScan(near, cells) PROVE Enriched'
  <2>1. pc' = "groups"
    BY <1>11 DEF BeginScan
  <2> QED
    BY <1>1, <2>1
<1> QED
  BY <1>2, <1>3, <1>4, <1>5, <1>6, <1>7, <1>8, <1>9, <1>10, <1>11, StepCases
  DEF ScanStep, NodeStep, NodeFails

(* Whatever could have run before a module left no input of it missing.     *)
LEMMA LacksNothingGiven ==
  ASSUME SelectionContracts, LaunchInv, TypeInv, Produced, Grouped, Enriched,
         NEW m \in exec.nodes, Executing, IsReady(m), NEW p \in RunsBefore(m)
  PROVE  Decl(p).gives \cap Missing(m) = {}
<1>1. m \in enabled /\ m \in Modules /\ p \in enabled /\ p \in Modules
  BY RegistryIs DEF TypeInv, ExecTyped, RegistryTyped, RunsBefore
<1>2. Decl(m).must \subseteq Decl(m).needs
  BY <1>1, MustIsNeeded
<1>3. ASSUME p \in exec.nodes PROVE Decl(p).gives \cap Missing(m) = {}
  <2> SUFFICES ASSUME NEW k \in Decl(p).gives \cap Decl(m).must PROVE k \in DOMAIN exec.ctx
    BY DEF Missing
  <2>1. p \in exec.done
    BY <1>2, <1>3 DEF IsReady, Dependencies
  <2> QED
    BY <2>1 DEF Produced
<1>4. ASSUME Decl(p).gives \subseteq DOMAIN exec.ctx PROVE Decl(p).gives \cap Missing(m) = {}
  BY <1>4 DEF Missing
<1>5. CASE pc = "running"
  <2>1. /\ exec.nodes = Graph(enabled, NextGroup) /\ Len(history) >= NextGroup - 1
        /\ NextGroup \in Nat /\ \A h \in scan.left : NextGroup <= h
        /\ Len(history) \in Nat
    BY <1>5, LeftIs, LenProperties DEF TypeInv, Placed, ScanTyped
  <2>2. Decl(m).phase # 3 /\ Decl(m).history = NextGroup
    BY <1>5, GraphInHand
  <2>3. p \in InPipeline(enabled) /\ Decl(p).history <= NextGroup /\ Decl(p).history \in Nat
    BY <1>1, <2>2, HistoryTyped DEF RunsBefore, InPipeline
  <2>4. CASE Decl(p).history = NextGroup
    BY <1>3, <2>1, <2>3, <2>4 DEF Graph
  <2>5. CASE Decl(p).history # NextGroup
    <3>1. /\ Decl(p).history \notin scan.left /\ Len(history) >= Decl(p).history - 1
          /\ Decl(p).history > 1 => NextGroup > 1
      BY <2>1, <2>3, <2>5
    <3>2. Decl(p).gives \subseteq DOMAIN scan.result /\ DOMAIN scan.result \subseteq DOMAIN exec.ctx
      BY <1>5, <2>3, <3>1 DEF Grouped
    <3> QED
      BY <1>4, <3>2
  <2> QED
    BY <2>4, <2>5
<1>6. CASE pc = "enriching"
  <2>1. exec.nodes = PostGraph(enabled) /\ Decl(m).phase = 3
    BY <1>6, GraphInHand DEF TypeInv, Placed
  <2>2. CASE Decl(p).phase = 3
    BY <1>1, <1>3, <2>1, <2>2 DEF PostGraph
  <2>3. CASE Decl(p).phase # 3
    <3>1. ASSUME Decl(p).gives \cap Decl(m).must # {} PROVE Decl(p).gives \subseteq DOMAIN exec.ctx
      <4>1. Decl(p).history <= 2
        BY <1>1, <2>1, <2>3, <3>1, EnrichedFrom
      <4> QED
        BY <1>1, <1>6, <2>3, <4>1 DEF Enriched, InPipeline
    <3>2. Decl(p).gives \cap Decl(m).must = {} => Decl(p).gives \cap Missing(m) = {}
      BY DEF Missing
    <3> QED
      BY <1>4, <3>1, <3>2
  <2> QED
    BY <2>2, <2>3
<1>7. CASE pc = "posting"
  BY <1>1, <1>3, <1>7 DEF TypeInv, Placed
<1> QED
  BY <1>5, <1>6, <1>7 DEF Executing

(* A core module of a validated selection has its inputs.                   *)
LEMMA CoreLacksNothing ==
  ASSUME SelectionContracts, LaunchInv, TypeInv, Produced, Grouped, Enriched, Wired, PostEnabled,
         NEW m \in exec.nodes, Executing, IsReady(m), m \in DOMAIN CoreDecl
  PROVE  Missing(m) = {}
<1>1. /\ registry \in Registries /\ m \in enabled /\ m \in DOMAIN registry
      /\ DOMAIN registry \subseteq Modules
  BY RegistryIs DEF TypeInv, ExecTyped, RegistryTyped
<1>2. /\ Decl(m).phase = 0 \/ Decl(m).phase = 3
      /\ Decl(m).phase = 3 => Decl(m).must = {Decl(m).config}
      /\ Decl(m).config \in ConfigKeys
      /\ Decl(m).must \subseteq Decl(m).needs
  BY <1>1, CoreDeclared DEF ConfigKeys
<1>3. CASE pc = "running"
  <2>1. /\ Decl(m).phase # 3 /\ Decl(m).history = NextGroup
        /\ ScanKeys \cup ConfigKeys \subseteq DOMAIN exec.ctx
        /\ NextGroup > 1 => "scan_history" \in DOMAIN exec.ctx
    BY <1>3, GraphInHand DEF Grouped
  <2>2. launch.kind = "live" /\ DOMAIN CoreDecl \subseteq DOMAIN registry
    BY <1>3 DEF LaunchInv, LaunchTyped, LiveOnly
  <2>3. ASSUME NEW k \in Decl(m).must PROVE k \in DOMAIN exec.ctx
    <3>1. CASE k \in ScanKeys \/ k = Decl(m).config \/ (k = "scan_history" /\ Decl(m).history > 1)
      BY <1>2, <2>1, <3>1
    <3>2. ASSUME NEW c \in DOMAIN CoreDecl, k \in Decl(c).gives PROVE k \in DOMAIN exec.ctx
      <4>1. PICK g \in ProducerOf(registry, k) : TRUE
        BY <1>1, <2>2, <3>2, LastProducer
      <4>2. g \in enabled /\ k \in Decl(g).gives /\ g \in Modules
        BY <1>1, <1>2, <1>3, <2>2, <2>3, <4>1 DEF Wired, ScanLive, ProducerOf
      <4>3. Decl(g).phase # 3 /\ Decl(g).history <= Decl(m).history
        BY <2>3, <4>2, Suppliers
      <4>4. g \in RunsBefore(m)
        BY <4>2, <4>3 DEF RunsBefore
      <4>5. Decl(g).gives \cap Missing(m) = {}
        BY <4>4, LacksNothingGiven
      <4> QED
        BY <2>3, <4>2, <4>5 DEF Missing
    <3> QED
      BY <3>1, <3>2, CoreRequires
  <2> QED
    BY <2>3 DEF Missing
<1>4. CASE pc = "enriching"
  <2>1. Decl(m).phase = 3
    BY <1>4, GraphInHand
  <2>2. ConfigKeys \subseteq DOMAIN exec.ctx
    BY <1>4 DEF Enriched
  <2> QED
    BY <1>2, <2>1, <2>2 DEF Missing
<1>5. CASE pc = "posting"
  <2>1. Decl(m).phase = PostPhase
    BY <1>1, <1>5 DEF PostEnabled, LaunchInv, LaunchTyped, PostOnly
  <2> QED
    BY <1>2, <2>1 DEF PostPhase
<1> QED
  BY <1>3, <1>4, <1>5 DEF Executing

LEMMA MissingKeeps ==
  ASSUME SelectionContracts, LaunchInv, TypeInv, Produced, Grouped, Enriched, Wired, PostEnabled,
         MissingExplained, [Next]_vars
  PROVE  MissingExplained'
<1>1. ASSUME verdict'.keys = {} \/ verdict'.why \notin {"missing", "contract"}
      PROVE  MissingExplained'
  BY <1>1 DEF MissingExplained
<1>2. CASE RunStarts
  BY <1>1, <1>2 DEF RunStarts, NoVerdict
<1>3. ASSUME verdict' = verdict PROVE MissingExplained'
  <2>1. CASE enabled' = enabled
    BY <1>3, <2>1 DEF MissingExplained, RunsBefore
  <2>2. CASE enabled' # enabled
    <3>1. SelectModules \/ Exit
      <4>1. CASE LaunchStep
        BY <2>2, <4>1, LaunchStepIs
      <4>2. CASE RecordRun \/ ImportModules \/ BuildGraphs
        BY <2>2, <4>2 DEF RecordRun, ImportModules, BuildGraphs, Refuse, process
      <4>3. CASE ScanStep \/ UNCHANGED vars
        BY <2>2, <4>3, ScanStepIs DEF process, vars
      <4> QED
        BY <4>1, <4>2, <4>3, StepCases
    <3>2. verdict' = NoVerdict
      BY <3>1, LaunchSide
    <3> QED
      BY <1>1, <3>2 DEF NoVerdict
  <2> QED
    BY <2>1, <2>2
<1>4. CASE OtherFails \/ NoProgress
  <2>1. PICK why, m, keys : why \in {"grid", "store", "stuck"} /\ Fails(why, m, keys)
    BY <1>4 DEF OtherFails, NoProgress
  <2>2. verdict'.why = why
    BY <2>1 DEF Fails
  <2> QED
    BY <1>1, <2>1, <2>2
<1>5. ASSUME NEW m \in exec.nodes, NodeRaises(m) \/ ContractFails(m) PROVE MissingExplained'
  <2>1. PICK why : Fails(why, m, {})
    BY <1>5 DEF NodeRaises, ContractFails
  <2>2. verdict'.keys = {}
    BY <2>1 DEF Fails
  <2> QED
    BY <1>1, <2>2
<1>6. ASSUME NEW m \in exec.nodes, LacksInput(m) PROVE MissingExplained'
  <2>1. Executing /\ IsReady(m) /\ Missing(m) # {}
    BY <1>6 DEF LacksInput, Visit, Ahead
  <2>2. PICK why : Fails(why, m, Missing(m))
    BY <1>6 DEF LacksInput
  <2>3. verdict'.module = m /\ verdict'.keys = Missing(m) /\ enabled' = enabled
    BY <2>2 DEF Fails, process
  <2>4. m \notin DOMAIN CoreDecl
    BY <2>1, CoreLacksNothing
  <2>5. \A p \in RunsBefore(m) : Decl(p).gives \cap Missing(m) = {}
    BY <2>1, LacksNothingGiven
  <2>6. ToSet(CoreModules) \subseteq DOMAIN CoreDecl
    BY ShippedIs
  <2> QED
    BY <2>3, <2>4, <2>5, <2>6 DEF MissingExplained, RunsBefore
<1>7. CASE (\E m \in exec.nodes : RunNode(m)) \/ NextRound
  <2>1. verdict' = verdict
    BY <1>7, RunNodeIs DEF NextRound
  <2> QED
    BY <1>3, <2>1
<1>8. CASE LeftAlone
  BY <1>3, <1>8 DEF LeftAlone
<1> QED
  BY <1>2, <1>4, <1>5, <1>6, <1>7, <1>8, ExecCases DEF NodeFails

(* resolve_enabled_modules: in a scan of an accepted selection no shipped   *)
(* module lacks an input, and an extension lacks one only when no module    *)
(* that ran before it, or beside it, gives that input; as long as the       *)
(* extensions are such that the validation sees who gives what, and when.   *)
THEOREM MissingExplainedHolds ==
  ASSUME SelectionContracts
  PROVE  Spec => []MissingExplained
<1> DEFINE Supply == Grouped /\ Enriched /\ Wired /\ PostEnabled
<1>1. Init => Supply /\ MissingExplained
  <2> SUFFICES ASSUME Init PROVE Supply /\ MissingExplained
    OBVIOUS
  <2>1. pc = "off" /\ DOMAIN registry = {} /\ verdict.keys = {}
    BY EmptyTyped DEF Init, NoVerdict
  <2>2. Wired
    BY <2>1 DEF Wired, ScanLive
  <2> QED
    BY <2>1, <2>2, HistoryInit DEF Grouped, Enriched, MissingExplained
<1>2. LaunchInv /\ TypeInv /\ Produced /\ Supply /\ MissingExplained /\ [Next]_vars
      => Supply' /\ MissingExplained'
  BY GroupedKeeps, EnrichedKeeps, WiredKeeps, PostEnabledKeeps, MissingKeeps
<1> HIDE DEF Supply
<1> QED
  BY <1>1, <1>2, HistoryKept, PTL DEF Spec
=============================================================================
