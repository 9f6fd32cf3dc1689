-------------------------- MODULE ModelRegistryProofs --------------------------
(***************************************************************************)
(* The registry's invariants for any sources, any number of refreshing     *)
(* threads, any intervals and any bounds.                                  *)
(*                                                                         *)
(* The argument has three parts.  A generation has at most one refresh     *)
(* registered, because starting one needs loading to be clear and only     *)
(* that refresh, or a new generation, clears it.  Outside a configuration  *)
(* change the configuration store and the registry agree, and stateMu      *)
(* keeps a snapshot from straddling a change.  And versions are ordered by *)
(* time: stat, read, publish, so that equal ends make equal middles.       *)
(***************************************************************************)
EXTENDS ModelRegistry, TLAPS

(* The default configuration is one, and it is on.                          *)
LEMMA Defaults == /\ DefaultConfig \in Configs /\ On(DefaultConfig)
                  /\ Fallback \in Roster /\ Fallback.gen = 0 /\ Fallback.ver = 0
                  /\ NoWork \in Work
                  /\ NoSnap \in [cfg : Configs, gen : 0 .. MaxGeneration, models : Roster]
<1>1. (CHOOSE u \in Urls : TRUE) \in Sources  BY SourcesAssumption DEF Sources
<1>2. DefaultConfig \in Configs /\ On(DefaultConfig)
  BY <1>1, TimesAssumption DEF DefaultConfig, Configs, On
<1>3. Fallback \in Roster /\ Fallback.gen = 0 /\ Fallback.ver = 0
  BY <1>1, BoundsAssumption DEF Fallback, Roster
<1>4. NoWork \in Work  BY <1>2, BoundsAssumption DEF NoWork, Work
<1>5. NoSnap \in [cfg : Configs, gen : 0 .. MaxGeneration, models : Roster]
  BY <1>2, <1>3, BoundsAssumption DEF NoSnap
<1> QED  BY <1>2, <1>3, <1>4, <1>5

(* The invariant holds initially.                                           *)
LEMMA InitIInv == Init => IInv
<1> SUFFICES ASSUME Init PROVE IInv  OBVIOUS
<1> USE Defaults, BoundsAssumption, TimesAssumption DEF Init
<1>1. TypeOK
  <2>1. /\ generation \in 0 .. MaxGeneration /\ attempted \in 0 .. MaxNow /\ fetched \in 0 .. MaxNow
        /\ fileMT \in 0 .. MaxVersion /\ changes \in 0 .. MaxVersion /\ now \in 1 .. MaxNow
    OBVIOUS
  <2>2. /\ pc \in [Refreshers -> {"idle", "fetch", "publish"}]
        /\ work \in [Refreshers -> Work]
        /\ version \in [Sources -> 0 .. MaxVersion]
    OBVIOUS
  <2>3. reading \in [cfg : Configs, gen : 0 .. MaxGeneration]  OBVIOUS
  <2> QED  BY <2>1, <2>2, <2>3 DEF TypeOK
<1>2. SingleFlight  BY DEF SingleFlight, InFlight
<1>3. SnapshotCoherent  BY DEF SnapshotCoherent, NoSnap
<1>4. RegistryInv  BY DEF RegistryInv
<1>5. VersionInv  BY DEF VersionInv, InFlight
<1> QED  BY <1>1, <1>2, <1>3, <1>4, <1>5 DEF IInv

(* The store changes first, under stateMu.                                  *)
LEMMA ConfigUpdatePreserves ==
    ASSUME IInv, NEW c \in Configs, ConfigUpdate(c)
    PROVE  IInv'
<1> USE Defaults DEF IInv, ConfigUpdate, registryVars, worldVars
<1>1. TypeOK'  BY BoundsAssumption, TimesAssumption DEF TypeOK, RegistryInv, Work, Roster
<1>2. SingleFlight'  BY DEF TypeOK, RegistryInv, SingleFlight, InFlight, Work
<1>3. SnapshotCoherent'  BY DEF SnapshotCoherent, RegistryInv, TypeOK
<1>4. RegistryInv'  BY BoundsAssumption, TimesAssumption DEF RegistryInv, SingleFlight, InFlight, TypeOK, Work, Roster
<1>5. VersionInv'  BY BoundsAssumption DEF VersionInv, RegistryInv, SingleFlight, InFlight, TypeOK, Work, Roster, IsFile, Configs
<1> QED  BY <1>1, <1>2, <1>3, <1>4, <1>5

(* The registry already has these values.                                   *)
LEMMA ModelsUnchangedPreserves ==
    ASSUME IInv, ModelsUnchanged
    PROVE  IInv'
<1> USE Defaults DEF IInv, ModelsUnchanged, registryVars, worldVars
<1>1. TypeOK'  BY BoundsAssumption, TimesAssumption DEF TypeOK, RegistryInv, Work, Roster
<1>2. SingleFlight'  BY DEF TypeOK, RegistryInv, SingleFlight, InFlight, Work
<1>3. SnapshotCoherent'  BY DEF SnapshotCoherent, RegistryInv, TypeOK
<1>4. RegistryInv'  BY BoundsAssumption, TimesAssumption DEF RegistryInv, SingleFlight, InFlight, TypeOK, Work, Roster
<1>5. VersionInv'  BY BoundsAssumption DEF VersionInv, RegistryInv, SingleFlight, InFlight, TypeOK, Work, Roster, IsFile, Configs
<1> QED  BY <1>1, <1>2, <1>3, <1>4, <1>5

(* A new generation has no refresh in flight.                               *)
LEMMA ModelsConfigurePreserves ==
    ASSUME IInv, ModelsConfigure
    PROVE  IInv'
<1> USE Defaults DEF IInv, ModelsConfigure, registryVars, worldVars
<1>1. TypeOK'
  <2>1. generation' \in 0 .. MaxGeneration
    BY BoundsAssumption DEF TypeOK, RegistryInv
  <2>2. /\ attempted' \in 0 .. MaxNow /\ fetched' \in 0 .. MaxNow /\ fileMT' \in 0 .. MaxVersion
        /\ loading' \in BOOLEAN /\ failed' \in BOOLEAN
    <3>1. 0 \in 0 .. MaxNow /\ 0 \in 0 .. MaxVersion  BY BoundsAssumption, TimesAssumption
    <3> QED  BY <3>1
  <2>3. current' \in Roster /\ (current' # Fallback => current'.ver # 0)  BY DEF TypeOK
  <2> QED  BY <2>1, <2>2, <2>3 DEF TypeOK
<1>2. SingleFlight'  BY DEF TypeOK, RegistryInv, SingleFlight, InFlight, Work
<1>3. SnapshotCoherent'  BY DEF SnapshotCoherent, RegistryInv, TypeOK
<1>4. RegistryInv'  BY BoundsAssumption, TimesAssumption DEF RegistryInv, SingleFlight, InFlight, TypeOK, Work, Roster
<1>5. VersionInv'  BY BoundsAssumption DEF VersionInv, RegistryInv, SingleFlight, InFlight, TypeOK, Work, Roster, IsFile, Configs
<1> QED  BY <1>1, <1>2, <1>3, <1>4, <1>5

(* A snapshot starts where store and registry agree.                        *)
LEMMA SnapshotConfigPreserves ==
    ASSUME IInv, SnapshotConfig
    PROVE  IInv'
<1> USE Defaults DEF IInv, SnapshotConfig, registryVars, worldVars
<1>1. TypeOK'  BY BoundsAssumption, TimesAssumption DEF TypeOK, RegistryInv, Work, Roster
<1>2. SingleFlight'  BY DEF TypeOK, RegistryInv, SingleFlight, InFlight, Work
<1>3. SnapshotCoherent'  BY DEF SnapshotCoherent, RegistryInv, TypeOK
<1>4. RegistryInv'  BY BoundsAssumption, TimesAssumption DEF RegistryInv, SingleFlight, InFlight, TypeOK, Work, Roster
<1>5. VersionInv'  BY BoundsAssumption DEF VersionInv, RegistryInv, SingleFlight, InFlight, TypeOK, Work, Roster, IsFile, Configs
<1> QED  BY <1>1, <1>2, <1>3, <1>4, <1>5

(* And ends under the same configuration.                                   *)
LEMMA SnapshotModelsPreserves ==
    ASSUME IInv, SnapshotModels
    PROVE  IInv'
<1> USE Defaults DEF IInv, SnapshotModels, registryVars, worldVars
<1>1. TypeOK'  BY BoundsAssumption, TimesAssumption DEF TypeOK, RegistryInv, Work, Roster
<1>2. SingleFlight'  BY DEF TypeOK, RegistryInv, SingleFlight, InFlight, Work
<1>3. SnapshotCoherent'  BY DEF SnapshotCoherent, RegistryInv, TypeOK
<1>4. RegistryInv'  BY BoundsAssumption, TimesAssumption DEF RegistryInv, SingleFlight, InFlight, TypeOK, Work, Roster
<1>5. VersionInv'  BY BoundsAssumption DEF VersionInv, RegistryInv, SingleFlight, InFlight, TypeOK, Work, Roster, IsFile, Configs
<1> QED  BY <1>1, <1>2, <1>3, <1>4, <1>5

(* A missing file counts as a failed attempt.                               *)
LEMMA RefreshStatFailsPreserves ==
    ASSUME IInv, NEW r \in Refreshers, RefreshStatFails(r)
    PROVE  IInv'
<1> USE Defaults DEF IInv, RefreshStatFails, MayRefresh, registryVars, worldVars
<1>1. TypeOK'  BY BoundsAssumption, TimesAssumption DEF TypeOK, RegistryInv, Work, Roster
<1>2. SingleFlight'  BY DEF TypeOK, RegistryInv, SingleFlight, InFlight, Work
<1>3. SnapshotCoherent'  BY DEF SnapshotCoherent, RegistryInv, TypeOK
<1>4. RegistryInv'  BY BoundsAssumption, TimesAssumption DEF RegistryInv, SingleFlight, InFlight, TypeOK, Work, Roster
<1>5. VersionInv'  BY BoundsAssumption DEF VersionInv, RegistryInv, SingleFlight, InFlight, TypeOK, Work, Roster, IsFile, Configs
<1> QED  BY <1>1, <1>2, <1>3, <1>4, <1>5

(* The one refresh of its generation starts.                                *)
LEMMA RefreshStartPreserves ==
    ASSUME IInv, NEW r \in Refreshers, RefreshStart(r)
    PROVE  IInv'
<1> USE Defaults DEF IInv, RefreshStart, MayRefresh, StatFails, registryVars, worldVars
<1>1. TypeOK'
  <2>1. IsFile(cfg.src) => cfg.src \in Sources  BY DEF IsFile, Sources
  <2>2. (IF IsFile(cfg.src) THEN version[cfg.src] ELSE 0) \in 0 .. MaxVersion
    BY <2>1, BoundsAssumption DEF TypeOK
  <2>3. [cfg |-> cfg, gen |-> generation, raw |-> 0,
         mt |-> IF IsFile(cfg.src) THEN version[cfg.src] ELSE 0] \in Work
    BY <2>2, BoundsAssumption DEF TypeOK, Work
  <2>4. work' \in [Refreshers -> Work]  BY <2>3 DEF TypeOK
  <2>5. attempted' \in 0 .. MaxNow  BY TimesAssumption DEF TypeOK
  <2>6. pc' \in [Refreshers -> {"idle", "fetch", "publish"}] /\ loading' \in BOOLEAN  BY DEF TypeOK
  <2> QED  BY <2>4, <2>5, <2>6 DEF TypeOK
<1>2. SingleFlight'  BY DEF TypeOK, RegistryInv, SingleFlight, InFlight, Work
<1>3. SnapshotCoherent'  BY DEF SnapshotCoherent, RegistryInv, TypeOK
<1>4. RegistryInv'  BY BoundsAssumption, TimesAssumption DEF RegistryInv, SingleFlight, InFlight, TypeOK, Work, Roster
<1>5. VersionInv'  BY BoundsAssumption DEF VersionInv, RegistryInv, SingleFlight, InFlight, TypeOK, Work, Roster, IsFile, Configs
<1> QED  BY <1>1, <1>2, <1>3, <1>4, <1>5

(* What is read is no older than what was stat'ed.                          *)
LEMMA FetchPreserves ==
    ASSUME IInv, NEW r \in Refreshers, Fetch(r) \/ FetchFails(r)
    PROVE  IInv'
<1>1. PICK raw \in {0, version[work[r].cfg.src]} : Fetched(r, raw)
  BY DEF Fetch, FetchFails
<1>2. work[r] \in Work /\ work[r].cfg.src \in Sources  BY DEF IInv, TypeOK, Work, Configs
<1>3. raw \in 0 .. MaxVersion /\ raw <= changes
  BY <1>1, <1>2, BoundsAssumption DEF IInv, TypeOK, VersionInv
<1>4. /\ work'[r] = [cfg |-> work[r].cfg, gen |-> work[r].gen, mt |-> work[r].mt, raw |-> raw]
      /\ work' \in [Refreshers -> Work]
      /\ \A q \in Refreshers \ {r} : work'[q] = work[q] /\ pc'[q] = pc[q]
      /\ pc[r] = "fetch" /\ pc'[r] = "publish"
      /\ pc' \in [Refreshers -> {"idle", "fetch", "publish"}]
  <2>1. work' = [work EXCEPT ![r] = [work[r] EXCEPT !.raw = raw]]
    BY <1>1, <1>2 DEF Fetched, IInv, TypeOK
  <2>2. [work[r] EXCEPT !.raw = raw] = [cfg |-> work[r].cfg, gen |-> work[r].gen, mt |-> work[r].mt, raw |-> raw]
    BY <1>2 DEF Work
  <2>3. [work[r] EXCEPT !.raw = raw] \in Work  BY <1>2, <1>3, <2>2 DEF Work
  <2> QED  BY <1>1, <2>1, <2>2, <2>3 DEF Fetched, IInv, TypeOK
<1>5. UNCHANGED <<store, stateMu, registryVars, reading, snap, worldVars>>
  BY <1>1 DEF Fetched
<1> USE <1>4, <1>5 DEF IInv, registryVars, worldVars
<1>6. TypeOK'  BY DEF TypeOK
<1>7. \A q \in Refreshers : InFlight(q)' <=> InFlight(q)  BY DEF InFlight
<1>8. SingleFlight'  BY <1>7 DEF SingleFlight
<1>9. SnapshotCoherent'  BY DEF SnapshotCoherent
<1>10. RegistryInv'  BY DEF RegistryInv
<1>11. VersionInv'
  <2>1. \A q \in Refreshers : pc'[q] = "publish" => work'[q].raw <= changes
    BY <1>3 DEF VersionInv
  <2>2. ASSUME InFlight(r), IsFile(cfg.src)
        PROVE  /\ work[r].mt <= changes
               /\ raw # 0 => work[r].mt <= raw
               /\ raw # 0 /\ version[cfg.src] # 0 => raw <= version[cfg.src]
    <3>1. work[r].cfg = cfg  BY <2>2 DEF SingleFlight
    <3>2. work[r].mt <= changes /\ (version[cfg.src] # 0 => work[r].mt <= version[cfg.src])
      BY <2>2 DEF VersionInv
    <3>3. version[cfg.src] \in Int /\ raw \in {0, version[cfg.src]}
      BY <1>1, <1>2, <3>1 DEF TypeOK
    <3> QED  BY <3>2, <3>3
  <2>3. ASSUME NEW q \in Refreshers, q # r, InFlight(q), IsFile(cfg.src)
        PROVE  /\ work'[q].mt <= changes
               /\ pc'[q] = "fetch" /\ version[cfg.src] # 0 => work'[q].mt <= version[cfg.src]
               /\ pc'[q] = "publish" /\ work'[q].raw # 0 =>
                     /\ work'[q].mt <= work'[q].raw
                     /\ version[cfg.src] # 0 => work'[q].raw <= version[cfg.src]
    BY <2>3 DEF VersionInv
  <2> QED  BY <1>7, <2>1, <2>2, <2>3 DEF VersionInv
<1> QED  BY <1>6, <1>8, <1>9, <1>10, <1>11

(* A stale result touches nothing.                                          *)
LEMMA PublishStalePreserves ==
    ASSUME IInv, NEW r \in Refreshers, PublishStale(r)
    PROVE  IInv'
<1> USE Defaults DEF IInv, PublishStale, Stale, Return, registryVars, worldVars
<1>1. TypeOK'  BY BoundsAssumption, TimesAssumption DEF TypeOK, RegistryInv, Work, Roster
<1>2. SingleFlight'  BY DEF TypeOK, RegistryInv, SingleFlight, InFlight, Work
<1>3. SnapshotCoherent'  BY DEF SnapshotCoherent, RegistryInv, TypeOK
<1>4. RegistryInv'  BY BoundsAssumption, TimesAssumption DEF RegistryInv, SingleFlight, InFlight, TypeOK, Work, Roster
<1>5. VersionInv'  BY BoundsAssumption DEF VersionInv, RegistryInv, SingleFlight, InFlight, TypeOK, Work, Roster, IsFile, Configs
<1> QED  BY <1>1, <1>2, <1>3, <1>4, <1>5

(* A failure frees the registration.                                        *)
LEMMA PublishFailurePreserves ==
    ASSUME IInv, NEW r \in Refreshers, PublishFailure(r)
    PROVE  IInv'
<1> USE Defaults DEF IInv, PublishFailure, Stale, Return, registryVars, worldVars
<1>1. TypeOK'  BY BoundsAssumption, TimesAssumption DEF TypeOK, RegistryInv, Work, Roster
<1>2. SingleFlight'  BY DEF TypeOK, RegistryInv, SingleFlight, InFlight, Work
<1>3. SnapshotCoherent'  BY DEF SnapshotCoherent, RegistryInv, TypeOK
<1>4. RegistryInv'  BY BoundsAssumption, TimesAssumption DEF RegistryInv, SingleFlight, InFlight, TypeOK, Work, Roster
<1>5. VersionInv'  BY BoundsAssumption DEF VersionInv, RegistryInv, SingleFlight, InFlight, TypeOK, Work, Roster, IsFile, Configs
<1> QED  BY <1>1, <1>2, <1>3, <1>4, <1>5

(* A success publishes under its own configuration.                         *)
LEMMA PublishSuccessPreserves ==
    ASSUME IInv, NEW r \in Refreshers, PublishSuccess(r)
    PROVE  IInv'
<1> USE Defaults DEF IInv, PublishSuccess, Stale, Return, registryVars, worldVars
<1>1. TypeOK'
  <2>1. work[r] \in Work  BY DEF TypeOK
  <2>2. current' \in Roster /\ current'.ver # 0  BY <2>1 DEF Work, Roster, Configs
  <2>3. fetched' \in 0 .. MaxNow /\ fileMT' \in 0 .. MaxVersion
    BY <2>1, TimesAssumption DEF TypeOK, Work
  <2>4. /\ pc' \in [Refreshers -> {"idle", "fetch", "publish"}] /\ work' \in [Refreshers -> Work]
        /\ loading' \in BOOLEAN /\ failed' \in BOOLEAN
    BY DEF TypeOK
  <2> QED  BY <2>2, <2>3, <2>4 DEF TypeOK
<1>2. SingleFlight'  BY DEF TypeOK, RegistryInv, SingleFlight, InFlight, Work
<1>3. SnapshotCoherent'  BY DEF SnapshotCoherent, RegistryInv, TypeOK
<1>4. RegistryInv'  BY BoundsAssumption, TimesAssumption DEF RegistryInv, SingleFlight, InFlight, TypeOK, Work, Roster
<1>5. VersionInv'  BY BoundsAssumption DEF VersionInv, RegistryInv, SingleFlight, InFlight, TypeOK, Work, Roster, IsFile, Configs
<1> QED  BY <1>1, <1>2, <1>3, <1>4, <1>5

(* A change has a version above all earlier ones.                           *)
LEMMA ChangePreserves ==
    ASSUME IInv, NEW s \in Sources, Change(s)
    PROVE  IInv'
<1> USE Defaults DEF IInv, Change, registryVars, worldVars
<1>1. TypeOK'  BY BoundsAssumption, TimesAssumption DEF TypeOK, RegistryInv, Work, Roster
<1>2. SingleFlight'  BY DEF TypeOK, RegistryInv, SingleFlight, InFlight, Work
<1>3. SnapshotCoherent'  BY DEF SnapshotCoherent, RegistryInv, TypeOK
<1>4. RegistryInv'  BY BoundsAssumption, TimesAssumption DEF RegistryInv, SingleFlight, InFlight, TypeOK, Work, Roster
<1>5. VersionInv'  BY BoundsAssumption DEF VersionInv, RegistryInv, SingleFlight, InFlight, TypeOK, Work, Roster, IsFile, Configs
<1> QED  BY <1>1, <1>2, <1>3, <1>4, <1>5

(* A source without content has no version.                                 *)
LEMMA RemovePreserves ==
    ASSUME IInv, NEW s \in Sources, Remove(s)
    PROVE  IInv'
<1> USE Defaults DEF IInv, Remove, registryVars, worldVars
<1>1. TypeOK'  BY BoundsAssumption, TimesAssumption DEF TypeOK, RegistryInv, Work, Roster
<1>2. SingleFlight'  BY DEF TypeOK, RegistryInv, SingleFlight, InFlight, Work
<1>3. SnapshotCoherent'  BY DEF SnapshotCoherent, RegistryInv, TypeOK
<1>4. RegistryInv'  BY BoundsAssumption, TimesAssumption DEF RegistryInv, SingleFlight, InFlight, TypeOK, Work, Roster
<1>5. VersionInv'  BY BoundsAssumption DEF VersionInv, RegistryInv, SingleFlight, InFlight, TypeOK, Work, Roster, IsFile, Configs
<1> QED  BY <1>1, <1>2, <1>3, <1>4, <1>5

(* Time passes.                                                             *)
LEMMA TickPreserves ==
    ASSUME IInv, Tick
    PROVE  IInv'
<1> USE Defaults DEF IInv, Tick, registryVars, worldVars
<1>1. TypeOK'  BY BoundsAssumption, TimesAssumption DEF TypeOK, RegistryInv, Work, Roster
<1>2. SingleFlight'  BY DEF TypeOK, RegistryInv, SingleFlight, InFlight, Work
<1>3. SnapshotCoherent'  BY DEF SnapshotCoherent, RegistryInv, TypeOK
<1>4. RegistryInv'  BY BoundsAssumption, TimesAssumption DEF RegistryInv, SingleFlight, InFlight, TypeOK, Work, Roster
<1>5. VersionInv'  BY BoundsAssumption DEF VersionInv, RegistryInv, SingleFlight, InFlight, TypeOK, Work, Roster, IsFile, Configs
<1> QED  BY <1>1, <1>2, <1>3, <1>4, <1>5

(* A step that changes nothing.                                             *)
LEMMA StutterPreserves == IInv /\ UNCHANGED vars => IInv'
  BY DEF IInv, TypeOK, SingleFlight, InFlight, SnapshotCoherent, RegistryInv, VersionInv,
         vars, registryVars, worldVars

(* Every step preserves the invariant.                                      *)
LEMMA NextPreserves == IInv /\ [Next]_vars => IInv'
<1> SUFFICES ASSUME IInv, [Next]_vars PROVE IInv'  OBVIOUS
<1>1. CASE UNCHANGED vars  BY <1>1, StutterPreserves
<1>2. CASE ConfigRejected \/ ModelsUnchanged \/ ModelsConfigure
  BY <1>2, StutterPreserves, ModelsUnchangedPreserves, ModelsConfigurePreserves DEF ConfigRejected
<1>3. ASSUME NEW c \in Configs, ConfigUpdate(c) PROVE IInv'
  BY <1>3, ConfigUpdatePreserves
<1>4. CASE SnapshotConfig \/ SnapshotModels
  BY <1>4, SnapshotConfigPreserves, SnapshotModelsPreserves
<1>5. ASSUME NEW r \in Refreshers, Refresh(r) PROVE IInv'
  BY <1>5, StutterPreserves, RefreshStatFailsPreserves, RefreshStartPreserves, FetchPreserves,
     PublishStalePreserves, PublishFailurePreserves, PublishSuccessPreserves
     DEF Refresh, RefreshNothing
<1>6. ASSUME NEW s \in Sources, Change(s) \/ Remove(s) PROVE IInv'
  BY <1>6, ChangePreserves, RemovePreserves
<1>7. CASE Tick  BY <1>7, TickPreserves
<1> QED  BY <1>1, <1>2, <1>3, <1>4, <1>5, <1>6, <1>7 DEF Next

(* The inductive invariant holds in every reachable state.                  *)
THEOREM Invariance == Spec => []IInv
  BY InitIInv, NextPreserves, PTL DEF Spec

--------------------------------------------------------------------------------
(* What the runs check on a small instance, for every instance              *)

(* Types; and a list other than the compiled-in one is one that was parsed. *)
THEOREM TypeCorrect == Spec => []TypeOK
<1>1. IInv => TypeOK  BY DEF IInv
<1> QED  BY <1>1, Invariance, PTL

(* One download per configuration, and loading never stays set.             *)
THEOREM FlightIsSingle == Spec => []SingleFlight
<1>1. IInv => SingleFlight  BY DEF IInv
<1> QED  BY <1>1, Invariance, PTL

(* A turn's configuration and model list fit together.                      *)
THEOREM SnapshotsCohere == Spec => []SnapshotCoherent
<1>1. IInv => SnapshotCoherent  BY DEF IInv
<1> QED  BY <1>1, Invariance, PTL

(* Refresh never skips a file whose content it does not hold: the published *)
(* version lies between the stat'ed one and the present one.                *)
THEOREM FilesAreFresh == Spec => []FileIsFresh
<1>1. IInv => FileIsFresh
  <2> SUFFICES ASSUME IInv, On(cfg), IsFile(cfg.src), UpToDate
               PROVE  current.src = cfg.src /\ current.ver = version[cfg.src]
    BY DEF FileIsFresh
  <2>1. fetched # 0 /\ version[cfg.src] # 0 /\ version[cfg.src] = fileMT  BY DEF UpToDate
  <2>2. current.src = cfg.src /\ fileMT <= current.ver /\ current.ver <= version[cfg.src]
    BY <2>1 DEF IInv, VersionInv
  <2>3. current.ver \in Int /\ fileMT \in Int  BY DEF IInv, TypeOK, Roster
  <2> QED  BY <2>1, <2>2, <2>3
<1> QED  BY <1>1, Invariance, PTL

(* Only the current configuration's download is ever published.             *)
THEOREM StaleIsDropped == Spec => StaleNeverPublished
<1> DEFINE Fresh == current' # current => \/ current' = Fallback
                                         \/ /\ current'.gen = generation
                                            /\ current'.src = cfg.src
                                            /\ On(cfg)
<1>1. IInv /\ [Next]_vars => [Fresh]_vars
  <2> SUFFICES ASSUME IInv, Next, current' # current PROVE Fresh  OBVIOUS
  <2>1. ASSUME NEW r \in Refreshers, PublishSuccess(r) PROVE Fresh
    <3>1. work[r].gen = generation /\ pc[r] # "idle"  BY <2>1 DEF PublishSuccess, Stale
    <3>2. InFlight(r)  BY <3>1 DEF InFlight
    <3>3. work[r].cfg = cfg /\ loading  BY <3>2 DEF IInv, SingleFlight
    <3>4. On(cfg)  BY <3>3 DEF IInv, RegistryInv
    <3> QED  BY <2>1, <3>1, <3>3, <3>4 DEF PublishSuccess
  <2>2. CASE ModelsConfigure  BY <2>2 DEF ModelsConfigure
  <2>3. ASSUME NEW r \in Refreshers, Refresh(r) PROVE PublishSuccess(r)
    BY <2>3 DEF Refresh, RefreshNothing, RefreshStatFails, RefreshStart, Fetch, FetchFails, Fetched,
                PublishStale, PublishFailure, registryVars, vars
  <2> QED
    BY <2>1, <2>2, <2>3 DEF Next, ConfigRejected, ConfigUpdate, ModelsUnchanged, SnapshotConfig,
                            SnapshotModels, Change, Remove, Tick, registryVars, vars
<1> QED  BY <1>1, Invariance, PTL DEF Spec, StaleNeverPublished

(* Downloads of one configuration from a URL keep their distance.           *)
THEOREM DownloadsKeepDistance == Spec => DownloadsThrottled
<1> DEFINE Apart == ~loading /\ loading' /\ ~IsFile(cfg.src) /\ attempted # 0 =>
                       now - attempted >= Least(cfg.every, Retry)
<1>1. IInv /\ [Next]_vars => [Apart]_vars
  <2> SUFFICES ASSUME IInv, Next, ~loading, loading', ~IsFile(cfg.src), attempted # 0
               PROVE  now - attempted >= Least(cfg.every, Retry)
    OBVIOUS
  <2>1. ASSUME NEW r \in Refreshers, Refresh(r) PROVE RefreshStart(r)
    BY <2>1 DEF Refresh, RefreshNothing, RefreshStatFails, Fetch, FetchFails, Fetched,
                PublishStale, PublishFailure, PublishSuccess, registryVars, vars, IInv, TypeOK
  <2>2. PICK r \in Refreshers : RefreshStart(r)
    BY <2>1 DEF Next, ConfigRejected, ConfigUpdate, ModelsUnchanged, ModelsConfigure, SnapshotConfig,
                SnapshotModels, Change, Remove, Tick, registryVars, vars
  <2>3. ~CoolingDown /\ ~UpToDate  BY <2>2 DEF RefreshStart, MayRefresh
  <2>4. now \in Int /\ attempted \in Int /\ fetched \in Int /\ cfg.every \in Int /\ Retry \in Int
    <3>1. cfg.every \in Nat /\ Retry \in Nat  BY TimesAssumption DEF IInv, TypeOK, Configs
    <3>2. now \in Int /\ attempted \in Int /\ fetched \in Int  BY DEF IInv, TypeOK
    <3> QED  BY <3>1, <3>2
  <2>5. CASE failed
    BY <2>3, <2>4, <2>5 DEF CoolingDown, Least
  <2>6. CASE ~failed
    <3>1. fetched # 0 /\ attempted <= fetched  BY <2>6 DEF IInv, RegistryInv
    <3>2. now - fetched >= cfg.every  BY <2>3, <2>4, <3>1 DEF UpToDate
    <3> QED  BY <2>4, <3>1, <3>2 DEF Least
  <2> QED  BY <2>5, <2>6
<1> QED  BY <1>1, Invariance, PTL DEF Spec, DownloadsThrottled
================================================================================
