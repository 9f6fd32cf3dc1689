----------------------------- MODULE ModelRegistry -----------------------------
(***************************************************************************)
(* The model list and the configuration that governs it: ModelRegistry of  *)
(* go/models_remote.go, ConfigStore of go/config.go, and Configure and     *)
(* snapshot of go/plugin.go, which tie the two together.                   *)
(*                                                                         *)
(* Two locks: Plugin.stateMu is held across both halves of a configuration *)
(* change and of a snapshot; ModelRegistry.mu makes each half, and the two *)
(* ends of a refresh, one step.  A refresh holds neither while it fetches, *)
(* so anything may happen between its ends.                                *)
(*                                                                         *)
(* A source (a URL or a file) has a version, which grows each time its     *)
(* content changes and is 0 while there is none.  A file's modification    *)
(* time is its version: the model assumes that a file that changes gets a  *)
(* modification time it never had.  What a download contains besides its   *)
(* version, the parser and the catalog tell; here it parses or does not.   *)
(***************************************************************************)
EXTENDS Integers, FiniteSets

CONSTANTS Urls, Files,    \* what models_url and models_file may name
          Refreshers,     \* host threads inside Refresh
          Intervals,      \* models_refresh_interval, parsed; 0 turns refreshing off
          DefaultInterval,
          Retry,          \* modelsMinRetryInterval
          MaxNow,         \* bound: the clock stops here
          MaxGeneration,  \* bound: configuration changes in a behaviour
          MaxVersion      \* bound: content changes in a behaviour

ASSUME SourcesAssumption == Urls \cap Files = {} /\ Urls # {}
ASSUME TimesAssumption   == /\ Intervals \subseteq Nat
                            /\ DefaultInterval \in Intervals \ {0}
                            /\ Retry \in Nat \ {0} /\ MaxNow \in Nat \ {0}
ASSUME BoundsAssumption  == MaxGeneration \in Nat /\ MaxVersion \in Nat

VARIABLES store,       \* ConfigStore.value: what of it concerns the models
          stateMu,     \* Plugin.stateMu: free, or held by a Configure or a snapshot
          cfg, generation, loading, failed, attempted, fetched, fileMT,
          current,     \* the fields of ModelRegistry; time 0 is the zero time
          pc, work,    \* refresher -> where it is, and its locals
          reading,     \* the snapshot in progress: the configuration it has read
          snap,        \* the last snapshot handed to a turn
          version,     \* source -> version of its content
          changes,     \* number of content changes so far
          now

registryVars == <<cfg, generation, loading, failed, attempted, fetched, fileMT, current>>
worldVars    == <<version, changes, now>>
vars == <<store, stateMu, registryVars, pc, work, reading, snap, worldVars>>

Sources == Urls \cup Files

(* What a configuration means: where the list comes from (the file, when a  *)
(* URL is set too) and how often it is fetched.                             *)
Configs == [src : Sources, every : Intervals]

DefaultConfig == [src |-> CHOOSE u \in Urls : TRUE, every |-> DefaultInterval]

On(c) == c.every > 0

(* A snapshot of models is the compiled-in list, generation 0, or the       *)
(* version of a source; gen is the configuration it was fetched under.      *)
Fallback == [src |-> CHOOSE u \in Urls : TRUE, ver |-> 0, gen |-> 0]
Roster   == [src : Sources, ver : 0 .. MaxVersion, gen : 0 .. MaxGeneration]

NoWork == [cfg |-> DefaultConfig, gen |-> 0, mt |-> 0, raw |-> 0]
Work   == [cfg : Configs, gen : 0 .. MaxGeneration, mt : 0 .. MaxVersion, raw : 0 .. MaxVersion]

NoSnap == [cfg |-> DefaultConfig, gen |-> 0, models |-> Fallback]

IsFile(s) == s \in Files

--------------------------------------------------------------------------------
(* Plugin.Configure: Config.Update, then Models.Configure, under stateMu    *)

(* A configuration that does not decode or validate changes nothing.        *)
ConfigRejected == stateMu = "free" /\ UNCHANGED vars

ConfigUpdate(c) == /\ stateMu = "free"
                   /\ generation < MaxGeneration
                   /\ stateMu' = "configure"
                   /\ store' = c
                   /\ UNCHANGED <<registryVars, pc, work, reading, snap, worldVars>>

(* The same three values: the registry keeps its state.                     *)
ModelsUnchanged == /\ stateMu = "configure"
                   /\ store = cfg
                   /\ stateMu' = "free"
                   /\ UNCHANGED <<store, registryVars, pc, work, reading, snap, worldVars>>

ModelsConfigureKeeping ==
    /\ stateMu = "configure"
    /\ generation' = generation + 1
    /\ cfg' = store
    /\ loading' = FALSE /\ failed' = FALSE
    /\ attempted' = 0 /\ fetched' = 0
    /\ fileMT' = 0
    /\ stateMu' = "free"
    /\ UNCHANGED <<store, current, pc, work, reading, snap, worldVars>>

(* A new generation: the refresh in flight loses its registration, and the  *)
(* compiled-in list returns when refreshing is off.  The comparison is of   *)
(* the three strings, and strings that differ may mean the same store: a    *)
(* URL beside a file, or 60m for 1h.                                        *)
ModelsConfigure ==
    /\ stateMu = "configure"
    /\ generation' = generation + 1
    /\ cfg' = store
    /\ loading' = FALSE /\ failed' = FALSE
    /\ attempted' = 0 /\ fetched' = 0 /\ fileMT' = 0
    /\ current' = IF On(store) THEN current ELSE Fallback
    /\ stateMu' = "free"
    /\ UNCHANGED <<store, pc, work, reading, snap, worldVars>>

--------------------------------------------------------------------------------
(* Plugin.snapshot: Config.Snapshot, then Models.Snapshot, under stateMu    *)

SnapshotConfig == /\ stateMu = "free"
                  /\ stateMu' = "snapshot"
                  /\ reading' = [cfg |-> store, gen |-> generation]
                  /\ UNCHANGED <<store, registryVars, pc, work, snap, worldVars>>

SnapshotModels == /\ stateMu = "snapshot"
                  /\ stateMu' = "free"
                  /\ snap' = [cfg |-> reading.cfg, gen |-> reading.gen, models |-> current]
                  /\ UNCHANGED <<store, registryVars, pc, work, reading, worldVars>>

--------------------------------------------------------------------------------
(* Refresh, first half: under mu, up to the fetch                           *)

CoolingDown == failed /\ now - attempted < Retry

(* Why Refresh, having passed the first checks, has nothing to do.          *)
UpToDate == /\ fetched # 0
            /\ IF IsFile(cfg.src) THEN version[cfg.src] # 0 /\ version[cfg.src] = fileMT
                                  ELSE now - fetched < cfg.every

StatFails == IsFile(cfg.src) /\ version[cfg.src] = 0

MayRefresh == On(cfg) /\ ~loading /\ ~CoolingDown

RefreshNothing(r) == /\ pc[r] = "idle"
                     /\ ~MayRefresh \/ UpToDate
                     /\ UNCHANGED vars

RefreshStatFails(r) == /\ pc[r] = "idle"
                       /\ MayRefresh /\ StatFails
                       /\ attempted' = now /\ failed' = TRUE
                       /\ UNCHANGED <<store, stateMu, cfg, generation, loading, fetched, fileMT,
                                      current, pc, work, reading, snap, worldVars>>

(* The modification time is the one of the stat, before the file is opened. *)
RefreshStart(r) ==
    /\ pc[r] = "idle"
    /\ MayRefresh /\ ~StatFails /\ ~UpToDate
    /\ loading' = TRUE /\ attempted' = now
    /\ pc' = [pc EXCEPT ![r] = "fetch"]
    /\ work' = [work EXCEPT ![r] = [cfg |-> cfg, gen |-> generation, raw |-> 0,
                                    mt |-> IF IsFile(cfg.src) THEN version[cfg.src] ELSE 0]]
    /\ UNCHANGED <<store, stateMu, cfg, generation, failed, fetched, fileMT, current,
                   reading, snap, worldVars>>

--------------------------------------------------------------------------------
(* The fetch, under no lock                                                 *)

Fetched(r, raw) == /\ pc[r] = "fetch"
                   /\ pc' = [pc EXCEPT ![r] = "publish"]
                   /\ work' = [work EXCEPT ![r].raw = raw]
                   /\ UNCHANGED <<store, stateMu, registryVars, reading, snap, worldVars>>

(* The content as it is now, or 0: unreadable, refused, oversized, or not a *)
(* valid models file.                                                       *)
Fetch(r) == Fetched(r, version[work[r].cfg.src])

FetchFails(r) == Fetched(r, 0)

--------------------------------------------------------------------------------
(* Refresh, second half: under mu again                                     *)

Return(r) == /\ pc' = [pc EXCEPT ![r] = "idle"]
             /\ work' = [work EXCEPT ![r] = NoWork]

NeverStale(r) == FALSE

Stale(r) == work[r].gen # generation

(* The configuration changed meanwhile: the result is dropped, and loading  *)
(* now belongs to the new generation.                                       *)
PublishStale(r) == /\ pc[r] = "publish"
                   /\ Stale(r)
                   /\ Return(r)
                   /\ UNCHANGED <<store, stateMu, registryVars, reading, snap, worldVars>>

PublishFailureStuck(r) ==
    /\ pc[r] = "publish"
    /\ ~Stale(r)
    /\ failed' = TRUE
    /\ Return(r)
    /\ UNCHANGED <<store, stateMu, cfg, generation, loading, attempted, fetched, fileMT, current,
                   reading, snap, worldVars>>

PublishFailureForgotten(r) ==
    /\ pc[r] = "publish"
    /\ ~Stale(r)
    /\ loading' = FALSE
    /\ Return(r)
    /\ UNCHANGED <<store, stateMu, cfg, generation, failed, attempted, fetched, fileMT, current,
                   reading, snap, worldVars>>

(* An error, or a context that was cancelled or timed out even though the   *)
(* download succeeded: the last good list stays.                            *)
PublishFailure(r) ==
    /\ pc[r] = "publish"
    /\ ~Stale(r)
    /\ loading' = FALSE /\ failed' = TRUE
    /\ Return(r)
    /\ UNCHANGED <<store, stateMu, cfg, generation, attempted, fetched, fileMT, current,
                   reading, snap, worldVars>>

PublishSuccessStatLate(r) ==
    /\ pc[r] = "publish"
    /\ ~Stale(r)
    /\ work[r].raw # 0
    /\ loading' = FALSE /\ failed' = FALSE
    /\ current' = [src |-> work[r].cfg.src, ver |-> work[r].raw, gen |-> work[r].gen]
    /\ fetched' = now
    /\ fileMT' = IF IsFile(cfg.src) THEN version[cfg.src] ELSE 0
    /\ Return(r)
    /\ UNCHANGED <<store, stateMu, cfg, generation, attempted, reading, snap, worldVars>>

PublishSuccess(r) ==
    /\ pc[r] = "publish"
    /\ ~Stale(r)
    /\ work[r].raw # 0
    /\ loading' = FALSE /\ failed' = FALSE
    /\ current' = [src |-> work[r].cfg.src, ver |-> work[r].raw, gen |-> work[r].gen]
    /\ fetched' = now /\ fileMT' = work[r].mt
    /\ Return(r)
    /\ UNCHANGED <<store, stateMu, cfg, generation, attempted, reading, snap, worldVars>>

--------------------------------------------------------------------------------
(* The environment                                                          *)

Change(s) == /\ changes < MaxVersion
             /\ changes' = changes + 1
             /\ version' = [version EXCEPT ![s] = changes + 1]
             /\ UNCHANGED <<store, stateMu, registryVars, pc, work, reading, snap, now>>

Remove(s) == /\ version[s] # 0
             /\ version' = [version EXCEPT ![s] = 0]
             /\ UNCHANGED <<store, stateMu, registryVars, pc, work, reading, snap, changes, now>>

Tick == /\ now < MaxNow
        /\ now' = now + 1
        /\ UNCHANGED <<store, stateMu, registryVars, pc, work, reading, snap, version, changes>>

--------------------------------------------------------------------------------

Init == /\ store = DefaultConfig /\ cfg = DefaultConfig
        /\ stateMu = "free"
        /\ generation = 0
        /\ loading = FALSE /\ failed = FALSE
        /\ attempted = 0 /\ fetched = 0 /\ fileMT = 0
        /\ current = Fallback
        /\ pc = [r \in Refreshers |-> "idle"]
        /\ work = [r \in Refreshers |-> NoWork]
        /\ reading = [cfg |-> DefaultConfig, gen |-> 0]
        /\ snap = NoSnap
        /\ version = [s \in Sources |-> 0]
        /\ changes = 0
        /\ now = 1

Refresh(r) == \/ RefreshNothing(r) \/ RefreshStatFails(r) \/ RefreshStart(r)
              \/ Fetch(r) \/ FetchFails(r)
              \/ PublishStale(r) \/ PublishFailure(r) \/ PublishSuccess(r)

Next == \/ ConfigRejected \/ ModelsUnchanged \/ ModelsConfigure
        \/ \E c \in Configs : ConfigUpdate(c)
        \/ SnapshotConfig \/ SnapshotModels
        \/ \E r \in Refreshers : Refresh(r)
        \/ \E s \in Sources : Change(s) \/ Remove(s)
        \/ Tick

Spec == Init /\ [][Next]_vars

--------------------------------------------------------------------------------
(* Properties                                                               *)

(* Every field has its type; a list that is published has content.          *)
TypeOK == /\ store \in Configs /\ cfg \in Configs
          /\ stateMu \in {"free", "configure", "snapshot"}
          /\ generation \in 0 .. MaxGeneration
          /\ loading \in BOOLEAN /\ failed \in BOOLEAN
          /\ attempted \in 0 .. MaxNow /\ fetched \in 0 .. MaxNow
          /\ fileMT \in 0 .. MaxVersion
          /\ current \in Roster /\ (current # Fallback => current.ver # 0)
          /\ pc \in [Refreshers -> {"idle", "fetch", "publish"}]
          /\ work \in [Refreshers -> Work]
          /\ reading \in [cfg : Configs, gen : 0 .. MaxGeneration]
          /\ snap \in [cfg : Configs, gen : 0 .. MaxGeneration, models : Roster]
          /\ version \in [Sources -> 0 .. MaxVersion]
          /\ changes \in 0 .. MaxVersion
          /\ now \in 1 .. MaxNow

InFlight(r) == pc[r] # "idle" /\ work[r].gen = generation

(* loading is set exactly while one refresh of the current generation is in *)
(* flight: no two downloads for one configuration, and no path, not even a  *)
(* failure or a reconfiguration during the fetch, leaves it set for good.   *)
SingleFlight == /\ loading <=> \E r \in Refreshers : InFlight(r)
                /\ \A r, q \in Refreshers : InFlight(r) /\ InFlight(q) => r = q
                /\ \A r \in Refreshers : InFlight(r) => work[r].cfg = cfg

(* What is published was fetched, all of it, under the configuration in     *)
(* force: a download that outlived its configuration never lands, not even  *)
(* when the same source has been configured again since.                    *)
StaleNeverPublished ==
    [][current' # current => \/ current' = Fallback
                             \/ /\ current'.gen = generation
                                /\ current'.src = cfg.src
                                /\ On(cfg)]_vars

(* When the file's modification time is the remembered one, the list in use *)
(* is the file's content: Refresh never skips a file it has not read.  The  *)
(* stat comes before the read for this.                                     *)
FileIsFresh == On(cfg) /\ IsFile(cfg.src) /\ UpToDate =>
                  /\ current.src = cfg.src
                  /\ current.ver = version[cfg.src]

Least(a, b) == IF a < b THEN a ELSE b

(* Under one configuration, two downloads from a URL start at least an      *)
(* interval or a cool-down apart, however many threads ask and whatever     *)
(* becomes of the downloads.                                                *)
DownloadsThrottled ==
    [][~loading /\ loading' /\ ~IsFile(cfg.src) /\ attempted # 0 =>
          now - attempted >= Least(cfg.every, Retry)]_vars

(* A turn's snapshot fits together: its list was not fetched under a newer  *)
(* configuration than the one beside it, and is the compiled-in list when   *)
(* that configuration turns refreshing off.                                 *)
SnapshotCoherent == /\ snap.models.gen <= snap.gen
                    /\ ~On(snap.cfg) => snap.models = Fallback

(* The strengthening under which the properties above are inductive: outside*)
(* a configuration change the two stores agree; an attempt that did not fail*)
(* is a success at or after it; and versions only grow along the way from   *)
(* the stat to the published list.                                          *)
RegistryInv ==
    /\ stateMu # "configure" => store = cfg
    /\ stateMu = "configure" => generation < MaxGeneration
    /\ stateMu = "snapshot" => reading = [cfg |-> cfg, gen |-> generation]
    /\ current.gen <= generation
    /\ ~On(cfg) => current = Fallback /\ ~loading
    /\ attempted <= now /\ fetched <= now
    /\ ~loading /\ attempted # 0 /\ ~failed => fetched # 0 /\ attempted <= fetched
    /\ \A r \in Refreshers : pc[r] # "idle" => work[r].gen <= generation

VersionInv ==
    /\ \A s \in Sources : version[s] <= changes
    /\ current.ver <= changes
    /\ \A r \in Refreshers : pc[r] = "publish" => work[r].raw <= changes
    /\ \A r \in Refreshers : InFlight(r) /\ IsFile(cfg.src) =>
          /\ work[r].mt <= changes
          /\ pc[r] = "fetch" /\ version[cfg.src] # 0 => work[r].mt <= version[cfg.src]
          /\ pc[r] = "publish" /\ work[r].raw # 0 =>
                /\ work[r].mt <= work[r].raw
                /\ version[cfg.src] # 0 => work[r].raw <= version[cfg.src]
    /\ fetched # 0 /\ IsFile(cfg.src) =>
          /\ current.src = cfg.src
          /\ fileMT <= current.ver
          /\ version[cfg.src] # 0 => current.ver <= version[cfg.src]

IInv == TypeOK /\ SingleFlight /\ SnapshotCoherent /\ RegistryInv /\ VersionInv
================================================================================
