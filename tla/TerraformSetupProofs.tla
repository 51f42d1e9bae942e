------------------------ MODULE TerraformSetupProofs ------------------------
(***************************************************************************)
(* Theorems about TerraformSetup, for every value of its constants: types, *)
(* the inductive invariant behind the protection of used configs, and that *)
(* the ProviderConfig controller implements ConfigLifecycle.               *)
(***************************************************************************)
EXTENDS TerraformSetup, FiniteSetTheorems, TLAPS

\* The numbers of users are natural numbers: there are finitely many resources.
LEMMA UsersCounted ==
    ASSUME NEW c, NEW usages
    PROVE  Cardinality(UsersOf(c, usages)) \in Nat
<1>1. UsersOf(c, usages) \subseteq Resources
  BY DEF UsersOf
<1>2. IsFiniteSet(UsersOf(c, usages))
  BY <1>1, ResourcesFinite, FS_Subset
<1> QED
  BY <1>2, FS_CardinalityType

\* A config nobody was counted for has no user at all.
LEMMA NobodyCounted ==
    ASSUME NEW c, NEW usages, Cardinality(UsersOf(c, usages)) = 0
    PROVE  UsersOf(c, usages) = {}
<1>1. UsersOf(c, usages) \subseteq Resources
  BY DEF UsersOf
<1>2. IsFiniteSet(UsersOf(c, usages))
  BY <1>1, ResourcesFinite, FS_Subset
<1> QED
  BY <1>2, FS_EmptySet

LEMMA AbsentIsObject == Absent \in Object
  BY DEF Absent, Object

LEMMA FreshIsPresent ==
    ASSUME NEW s \in Specs
    PROVE  Fresh(s) \in Present /\ Guarded(s) \in Present
  BY DEF Fresh, Guarded, Absent, Present

\* An object that exists has a spec, and a reconcile in flight holds such an object.
LEMMA ExistingIsPresent ==
    ASSUME NEW o \in Object, o.exists
    PROVE  o \in Present
BY DEF Object, Absent

LEMMA NothingMarksAbsent ==
    ASSUME NEW o \in Object, ~o.exists
    PROVE  o = Absent /\ ~o.deleting /\ ~o.finalizer
<1>1. o = Absent
  BY DEF Object, Present
<1> QED
  BY <1>1 DEF Absent

LEMMA StartedIsFlight ==
    ASSUME NEW p \in Reconciles, p.at # "idle"
    PROVE  p \in Flights
BY DEF Reconciles, Idle

LEMMA IdleReconciles == Idle \in Reconciles
  BY AbsentIsObject DEF Idle, Reconciles

LEMMA ConfigurationTyped ==
    ASSUME NEW k \in Keys, NEW b \in Blob
    PROVE  Configuration(Creds(k, b)) \in Configurations
<1> DEFINE S == {"api_key", "secret_key"} \cup (b.shape \cap {"url"})
<1>1. S \in SUBSET CredentialKeys
  BY DEF CredentialKeys
<1>2. b.shape = DOMAIN Creds(k, b)
  BY DEF Creds
<1>3. \A f \in b.shape : Creds(k, b)[f] \in Values
  BY DEF Creds, Values, Blob
<1>4. Configuration(Creds(k, b)) \in [S -> Values \cup {Unset}]
  BY <1>2, <1>3 DEF Configuration
<1> QED
  BY <1>1, <1>4 DEF Configurations

LEMMA NoSetupTyped == NoSetup \in Setups
<1>1. NoConfiguration \in [{} -> Values \cup {Unset}]
  BY DEF NoConfiguration
<1>2. NoConfiguration \in Configurations
  BY <1>1 DEF Configurations
<1> QED
  BY <1>2 DEF NoSetup, Setups, Stages

-----------------------------------------------------------------------------
(* Type correctness *)

LEMMA InitTypes == Init => TypeOK
<1> SUFFICES ASSUME Init PROVE TypeOK
  OBVIOUS
<1> USE DEF Init, PCInit
<1>1. config \in [Configs -> Object]
  BY AbsentIsObject, FreshIsPresent DEF Object
<1>2. PCTypeOK
  BY <1>1, IdleReconciles, InstalledAssumption DEF PCTypeOK
<1>3. managed \in [Resources -> Managed]
  BY DEF Managed, Phases
<1>4. data \in [Keys -> Blob]
  BY InitialDataAssumption
<1>5. setup \in [Resources -> Setups]
  BY NoSetupTyped
<1>6. \A r \in Resources : setup[r].at = "idle"
  BY DEF NoSetup
<1>7. /\ using \in [Resources -> Configs \cup {NoConfig}]
      /\ owed \in [Configs -> SUBSET Resources]
  OBVIOUS
<1>8. edits \in 0 .. MaxEdits /\ crashes \in 0 .. MaxCrashes /\ resyncs \in 0 .. MaxResyncs
  BY BoundsAssumption
<1> QED
  BY <1>2, <1>3, <1>4, <1>5, <1>6, <1>7, <1>8 DEF TypeOK

LEMMA UserConfigTypes ==
    ASSUME PCTypeOK, NEW c \in Configs, NEW s \in Specs,
           CreateConfig(c, s) \/ EditConfig(c, s)
    PROVE  PCTypeOK'
<1> USE DEF PCTypeOK
<1>1. CASE CreateConfig(c, s)
  BY <1>1, FreshIsPresent DEF CreateConfig, Object
<1>2. CASE EditConfig(c, s)
  <2>1. [config[c] EXCEPT !.spec = s] \in Object
    <3>1. config[c] \in Present
      BY <1>2, ExistingIsPresent DEF EditConfig
    <3> QED
      BY <3>1 DEF Present, Object
  <2> QED
    BY <1>2, <2>1 DEF EditConfig
<1> QED
  BY <1>1, <1>2

LEMMA DeleteTypes ==
    ASSUME PCTypeOK, NEW c \in Configs, DeleteConfig(c)
    PROVE  PCTypeOK'
<1>1. config[c] \in Present
  BY ExistingIsPresent DEF PCTypeOK, DeleteConfig
<1>2. [config[c] EXCEPT !.deleting = TRUE] \in Present
  BY <1>1 DEF Present
<1> QED
  BY <1>2, AbsentIsObject DEF PCTypeOK, DeleteConfig, Object

LEMMA DeliverTypes ==
    ASSUME PCTypeOK, NEW c \in Configs, DeliverConfig(c) \/ Resync(c)
    PROVE  PCTypeOK'
BY DEF PCTypeOK, DeliverConfig, Resync

LEMMA DeliverUsageTypes ==
    ASSUME PCTypeOK, NEW r \in Resources, DeliverUsage(r)
    PROVE  PCTypeOK'
BY DEF PCTypeOK, DeliverUsage, Enqueued

LEMMA WrittenTyped ==
    ASSUME NEW p \in Flights
    PROVE  /\ Written(p) \in Object
           /\ ~p.seen.deleting => Written(p) \in Present
<1>1. p.seen \in Present
  BY DEF Flights
<1>2. [p.seen EXCEPT !.finalizer = TRUE] \in Present
  BY <1>1 DEF Present
<1> QED
  BY <1>2, AbsentIsObject DEF Written, Object

LEMMA ReconcilerTypes ==
    ASSUME PCTypeOK, NEW c \in Configs, PCStep(c)
    PROVE  PCTypeOK'
<1> USE DEF PCTypeOK
<1>1. CASE PCGet(c)
  <2>1. configCache[c].exists =>
          [at |-> "list", seen |-> configCache[c], users |-> 0] \in Flights
    BY ExistingIsPresent DEF Flights
  <2> QED
    BY <1>1, <2>1, IdleReconciles DEF PCGet, Reconciles
<1>2. ASSUME pcr[c].at # "idle" PROVE pcr[c] \in Flights
  BY <1>2, StartedIsFlight
<1>3. CASE PCList(c)
  <2>1. [pcr[c] EXCEPT !.at = "update",
                       !.users = Cardinality(UsersOf(c, usageCache))] \in Reconciles
    BY <1>2, <1>3, UsersCounted DEF PCList, Listed, Flights, Reconciles
  <2> QED
    BY <1>3, <2>1 DEF PCList, Listed
<1>4. CASE PCUpdate(c)
  <2>1. pcr[c] \in Flights
    BY <1>2, <1>4 DEF PCUpdate
  <2>2. [pcr[c] EXCEPT !.at = "status"] \in Reconciles
    BY <2>1 DEF Flights, Reconciles
  <2>3. ~pcr[c].seen.deleting =>
          [pcr[c] EXCEPT !.at = "status", !.seen = Written(pcr[c])] \in Reconciles
    BY <2>1, WrittenTyped DEF Flights, Reconciles
  <2> QED
    BY <1>4, <2>1, <2>2, <2>3, IdleReconciles, WrittenTyped DEF PCUpdate
<1>5. CASE PCStatus(c)
  <2>1. pcr[c].seen \in Present /\ pcr[c].users \in Nat
    BY <1>2, <1>5 DEF PCStatus, Flights
  <2>2. [pcr[c].seen EXCEPT !.users = pcr[c].users] \in Object
    BY <2>1 DEF Present, Object
  <2> QED
    BY <1>5, <2>2, IdleReconciles DEF PCStatus, Current
<1> QED
  BY <1>1, <1>3, <1>4, <1>5 DEF PCStep

LEMMA ReleaseTypes ==
    ASSUME TypeOK, NEW r \in Resources, Release(r)
    PROVE  /\ using' \in [Resources -> Configs \cup {NoConfig}]
           /\ owed' \in [Configs -> SUBSET Resources]
BY DEF TypeOK, Release

LEMMA UserManagedTypes ==
    ASSUME TypeOK, NEW r \in Resources, UserChangesManaged(r), edits' \in 0 .. MaxEdits
    PROVE  TypeOK'
<1> USE DEF TypeOK, Managed, Phases
<1>1. ASSUME NEW c \in Configs, CreateManaged(r, c) PROVE TypeOK'
  <2>1. [managed[r] EXCEPT !.phase = "live", !.ref = c] \in Managed
    OBVIOUS
  <2>2. managed' \in [Resources -> Managed]
    BY <1>1, <2>1 DEF CreateManaged
  <2> QED
    BY <1>1, <2>2 DEF CreateManaged, pcVars, PCTypeOK
<1>2. ASSUME NEW c \in Configs, ChangeRef(r, c) PROVE TypeOK'
  BY <1>2, ReleaseTypes DEF ChangeRef, pcVars, PCTypeOK
<1>3. CASE DeleteGuarded(r)
  BY <1>3 DEF DeleteGuarded, pcVars, PCTypeOK
<1>4. CASE DeleteUnguarded(r)
  BY <1>4, ReleaseTypes DEF DeleteUnguarded, pcVars, PCTypeOK
<1> QED
  BY <1>1, <1>2, <1>3, <1>4 DEF UserChangesManaged

LEMMA UserTypes ==
    ASSUME TypeOK, User
    PROVE  TypeOK'
<1>1. edits' \in 0 .. MaxEdits
  BY BoundsAssumption DEF TypeOK, User
<1>2. ASSUME NEW c \in Configs, UserChangesConfig(c) PROVE TypeOK'
  <2>1. ASSUME NEW s \in SpecsOf[c], CreateConfig(c, s) \/ EditConfig(c, s),
               UNCHANGED <<managed, data, setup, using, owed, crashes, resyncs>>
        PROVE  TypeOK'
    <3>1. s \in Specs
      BY SpecsOfAssumption
    <3>2. PCTypeOK'
      BY <2>1, <3>1, UserConfigTypes DEF TypeOK
    <3> QED
      BY <1>1, <2>1, <3>2 DEF TypeOK
  <2>2. CASE RequestDelete(c)
    <3>1. PCTypeOK'
      BY <2>2, DeleteTypes DEF TypeOK, RequestDelete
    <3>2. owed' \in [Configs -> SUBSET Resources]
      BY <2>2 DEF TypeOK, RequestDelete
    <3> QED
      BY <1>1, <2>2, <3>1, <3>2 DEF TypeOK, RequestDelete
  <2> QED
    BY <1>2, <2>1, <2>2 DEF UserChangesConfig
<1>3. ASSUME NEW r \in Resources, UserChangesManaged(r) PROVE TypeOK'
  BY <1>1, <1>3, UserManagedTypes
<1>4. ASSUME NEW k \in Keys, NEW kind \in Kinds, NEW shape \in Shapes \cup {{}},
             WriteData(k, kind, shape)
      PROVE  TypeOK'
  <2>1. data[k] \in Blob
    BY DEF TypeOK
  <2>2. [kind |-> kind, shape |-> shape, version |-> data[k].version + 1] \in Blob
    BY <1>4, <2>1, MaxVersionAssumption DEF WriteData, Blob
  <2>3. data' \in [Keys -> Blob]
    BY <1>4, <2>2 DEF WriteData, TypeOK
  <2> QED
    BY <1>1, <1>4, <2>3 DEF WriteData, TypeOK, pcVars, PCTypeOK
<1> QED
  BY <1>2, <1>3, <1>4 DEF User

LEMMA SetupTypes ==
    ASSUME TypeOK, NEW r \in Resources, SetupStep(r)
    PROVE  TypeOK'
<1> USE DEF TypeOK, pcVars, counters
<1>0. /\ setup[r] \in Setups
      /\ managed[r] \in Managed
  OBVIOUS
<1>1. CASE Begin(r)
  BY <1>0, <1>1 DEF Begin, Setups, Stages, Managed, PCTypeOK
<1>2. CASE GetConfig(r)
  <2>1. PCTypeOK'
    BY <1>2 DEF GetConfig, PCTypeOK
  <2>2. setup[r].ref \in Configs
    BY <1>2 DEF GetConfig
  <2>3. configCache[setup[r].ref] \in Object
    BY <2>2 DEF PCTypeOK
  <2>4. configCache[setup[r].ref].exists => configCache[setup[r].ref].spec \in Specs
    BY <2>3, ExistingIsPresent DEF Present
  <2> QED
    BY <1>0, <1>2, <2>1, <2>2, <2>4 DEF GetConfig, Setups, Stages
<1>3. CASE Track(r)
  <2>1. usage' \in [Resources -> Configs \cup {NoConfig}]
    BY <1>0, <1>3 DEF Track, Setups, PCTypeOK
  <2>2. PCTypeOK'
    BY <1>3, <2>1 DEF Track, PCTypeOK
  <2>3. setup[r].ref \in Configs /\ setup[r].spec \in Specs
    BY <1>3 DEF Track
  <2>4. \/ setup' = [setup EXCEPT ![r].at = "extract"]
        \/ setup' = [setup EXCEPT ![r].at = "failed"]
    BY <1>3 DEF Track, Goto
  <2>5. setup' \in [Resources -> Setups]
    BY <1>0, <2>4 DEF Setups, Stages
  <2>6. \A q \in Resources :
          /\ setup'[q].at \notin {"idle", "failed"} => setup'[q].ref \in Configs
          /\ setup'[q].at \in {"track", "extract"} => setup'[q].spec \in Specs
    <3>1. /\ setup'[r].ref = setup[r].ref
          /\ setup'[r].spec = setup[r].spec
      BY <2>4, <1>0 DEF Setups
    <3>2. \A q \in Resources : q # r => setup'[q] = setup[q]
      BY <2>4
    <3> QED
      BY <2>3, <3>1, <3>2
  <2> QED
    BY <1>3, <2>2, <2>5, <2>6 DEF Track
<1>4. CASE Extract(r)
  <2>1. PCTypeOK'
    BY <1>4 DEF Extract, PCTypeOK
  <2>2. setup[r].spec \in Specs /\ setup[r].spec.key \in Keys
    BY <1>4, SpecsAssumption DEF Extract
  <2>3. Configuration(Creds(setup[r].spec.key, data[setup[r].spec.key])) \in Configurations
    BY <2>2, ConfigurationTyped
  <2>4. setup' \in [Resources -> Setups]
    BY <1>0, <1>4, <2>3 DEF Extract, Selected, Goto, Setups, Stages
  <2>5. using' \in [Resources -> Configs \cup {NoConfig}]
    BY <1>0, <1>4 DEF Extract, Setups
  <2>6. setup[r].ref \in Configs /\ setup[r].spec \in Specs
    BY <1>4 DEF Extract
  <2>7. \A q \in Resources : q # r => setup'[q] = setup[q]
    BY <1>4 DEF Extract, Goto
  <2>8. setup'[r].ref = setup[r].ref /\ setup'[r].at \in {"done", "failed"}
    BY <1>0, <1>4 DEF Extract, Goto, Setups
  <2>9. \A q \in Resources :
          /\ setup'[q].at \notin {"idle", "failed"} => setup'[q].ref \in Configs
          /\ setup'[q].at \in {"track", "extract"} => setup'[q].spec \in Specs
    BY <2>6, <2>7, <2>8
  <2> QED
    BY <1>4, <2>1, <2>4, <2>5, <2>9 DEF Extract
<1>5. CASE FinishFailed(r)
  BY <1>5, NoSetupTyped DEF FinishFailed, EndSetup, PCTypeOK, NoSetup
<1>6. CASE Finish(r)
  BY <1>0, <1>6, NoSetupTyped DEF Finish, EndSetup, PCTypeOK, NoSetup, Managed
<1>7. CASE FinishDelete(r)
  BY <1>0, <1>7, NoSetupTyped, ReleaseTypes
     DEF FinishDelete, EndSetup, PCTypeOK, NoSetup, Managed, Phases
<1> QED
  BY <1>1, <1>2, <1>3, <1>4, <1>5, <1>6, <1>7 DEF SetupStep

LEMMA CrashTypes ==
    ASSUME TypeOK, Crash
    PROVE  TypeOK'
<1> USE DEF TypeOK, Crash
<1>1. setup' \in [Resources -> Setups]
  BY NoSetupTyped
<1>2. PCTypeOK'
  BY IdleReconciles DEF PCTypeOK
<1> QED
  BY <1>1, <1>2, BoundsAssumption DEF NoSetup

LEMMA NextTypes ==
    ASSUME TypeOK, [Next]_vars
    PROVE  TypeOK'
<1>1. CASE User
  BY <1>1, UserTypes
<1>2. CASE Controller
  <2>1. PCTypeOK' /\ UNCHANGED setupVars
    BY <1>2, ReconcilerTypes, DeliverTypes, DeliverUsageTypes DEF Controller, TypeOK
  <2> QED
    BY <2>1 DEF TypeOK, setupVars, objects, counters
<1>3. ASSUME NEW r \in Resources, CollectUsage(r) PROVE TypeOK'
  BY <1>3 DEF CollectUsage, TypeOK, PCTypeOK, setupVars, objects, counters
<1>4. ASSUME NEW r \in Resources, SetupStep(r) PROVE TypeOK'
  BY <1>4, SetupTypes
<1>5. ASSUME NEW c \in Configs, SyncPeriod(c) PROVE TypeOK'
  <2>1. PCTypeOK'
    BY <1>5, DeliverTypes DEF SyncPeriod, TypeOK
  <2>2. resyncs' \in 0 .. MaxResyncs
    BY <1>5, BoundsAssumption DEF SyncPeriod, TypeOK
  <2> QED
    BY <1>5, <2>1, <2>2 DEF SyncPeriod, TypeOK, objects
<1>6. CASE Crash
  BY <1>6, CrashTypes
<1>7. CASE UNCHANGED vars
  BY <1>7 DEF vars, pcVars, setupVars, objects, counters, TypeOK, PCTypeOK
<1> QED
  BY <1>1, <1>2, <1>3, <1>4, <1>5, <1>6, <1>7 DEF Next

(* Every variable keeps its type, whatever the constants and the bounds.   *)
THEOREM TypeCorrect == Spec => []TypeOK
BY InitTypes, NextTypes, PTL DEF Spec

-----------------------------------------------------------------------------
(* The inductive invariant behind the protection of used configs *)

LEMMA InitProtects == Init => Protection
<1> SUFFICES ASSUME Init PROVE Protection
  OBVIOUS
<1>1. \A c \in Configs : config[c] = Absent \/ \E s \in Specs : config[c] = Guarded(s)
  BY DEF Init, PCInit
<1>2. \A c \in Configs : ~config[c].deleting /\ ~configCache[c].deleting
  <2>1. ~Absent.deleting
    BY DEF Absent
  <2>2. ASSUME NEW s \in Specs PROVE ~Guarded(s).deleting
    BY DEF Guarded, Fresh, Absent
  <2> QED
    BY <1>1, <2>1, <2>2 DEF Init, PCInit
<1>3. \A c \in Configs : pcr[c].at = "idle" /\ owed[c] = {}
  BY DEF Init, PCInit, Idle
<1>4. \A r \in Resources : using[r] = NoConfig
  BY DEF Init
<1> QED
  BY <1>2, <1>3, <1>4
     DEF Protection, DeletionNeedsFinalizer, OwedAreRegistered, UsersReference,
         CacheForgetsDeletion, SnapshotOfDeletion, NobodyOwed, InFlight

\* Nobody is owed by a config that is not under deletion.
LEMMA OwedOnlyByClosing ==
    ASSUME TypeOK, Protection, NEW c \in Configs, ~config[c].deleting
    PROVE  owed[c] = {}
BY DEF TypeOK, Protection, OwedAreRegistered

\* Steps that change nothing the invariant is about but what a resource lets go of.
LEMMA LettingGoProtects ==
    ASSUME TypeOK, Protection, NEW r \in Resources, Release(r), UNCHANGED pcVars,
           \A q \in Resources \ {r} : managed'[q] = managed[q] /\ setup'[q] = setup[q]
    PROVE  Protection'
<1> USE DEF TypeOK, Protection, pcVars, Release
<1>1. DeletionNeedsFinalizer'
  BY DEF DeletionNeedsFinalizer
<1>2. OwedAreRegistered'
  BY DEF OwedAreRegistered
<1>3. UsersReference'
  BY DEF UsersReference, Exists
<1>4. CacheForgetsDeletion' /\ SnapshotOfDeletion'
  BY DEF CacheForgetsDeletion, SnapshotOfDeletion, IsGuarded, InFlight
<1>5. NobodyOwed'
  BY DEF NobodyOwed
<1> QED
  BY <1>1, <1>2, <1>3, <1>4, <1>5

LEMMA UserConfigProtects ==
    ASSUME TypeOK, Protection, NEW c \in Configs, NEW s \in Specs,
           CreateConfig(c, s) \/ EditConfig(c, s),
           UNCHANGED <<managed, setup, using, owed>>
    PROVE  Protection'
<1> USE DEF TypeOK, PCTypeOK, Protection
<1>0. config[c] \in Object /\ UNCHANGED <<configCache, usage, usageCache, pcr>>
  BY DEF CreateConfig, EditConfig
<1>1. \A d \in Configs : d # c => config'[d] = config[d]
  BY DEF CreateConfig, EditConfig
<1>2. /\ config'[c].deleting = config[c].deleting
      /\ config'[c].finalizer = config[c].finalizer
      /\ config[c].deleting => config'[c].exists
  <2>1. CASE CreateConfig(c, s)
    <3>1. config[c] = Absent
      BY <1>0, <2>1, NothingMarksAbsent DEF CreateConfig
    <3> QED
      BY <2>1, <3>1 DEF CreateConfig, Fresh, Absent
  <2>2. CASE EditConfig(c, s)
    <3>1. config[c] \in Present
      BY <2>2, ExistingIsPresent DEF EditConfig
    <3> QED
      BY <2>2, <3>1 DEF EditConfig, Present
  <2> QED
    BY <2>1, <2>2
<1>3. config'[c].finalizer => config[c].exists
  BY <1>0, <1>2, NothingMarksAbsent
<1>4. \A d \in Configs : /\ config'[d].deleting = config[d].deleting
                         /\ IsGuarded(d)' => IsGuarded(d)
  BY <1>1, <1>2, <1>3 DEF IsGuarded
<1>5. DeletionNeedsFinalizer'
  BY <1>1, <1>2 DEF DeletionNeedsFinalizer
<1>6. OwedAreRegistered'
  BY <1>0, <1>4 DEF OwedAreRegistered
<1>7. UsersReference'
  BY DEF UsersReference, Exists
<1>8. CacheForgetsDeletion' /\ SnapshotOfDeletion'
  BY <1>0, <1>4 DEF CacheForgetsDeletion, SnapshotOfDeletion, InFlight
<1>9. NobodyOwed'
  BY <1>0 DEF NobodyOwed
<1> QED
  BY <1>5, <1>6, <1>7, <1>8, <1>9

LEMMA RequestDeleteProtects ==
    ASSUME TypeOK, Protection, NEW c \in Configs, RequestDelete(c)
    PROVE  Protection'
<1> USE DEF TypeOK, PCTypeOK, Protection, RequestDelete, DeleteConfig
<1>0. config[c] \in Present
  BY ExistingIsPresent
<1>1. \A d \in Configs : d # c => config'[d] = config[d] /\ owed'[d] = owed[d]
  OBVIOUS
<1>2. IF config[c].finalizer
        THEN config'[c] = [config[c] EXCEPT !.deleting = TRUE]
        ELSE config'[c] = Absent /\ owed'[c] = {}
  OBVIOUS
<1>3. IF config[c].finalizer
        THEN config'[c].exists /\ config'[c].finalizer /\ config'[c].deleting
        ELSE ~config'[c].exists /\ ~config'[c].deleting
  BY <1>0, <1>2 DEF Present, Absent
<1>4. \A d \in Configs : IsGuarded(d)' => IsGuarded(d)
  BY <1>1, <1>3 DEF IsGuarded
<1>5. DeletionNeedsFinalizer'
  BY <1>1, <1>3 DEF DeletionNeedsFinalizer
<1>6. OwedAreRegistered'
  BY <1>1, <1>2, <1>3 DEF OwedAreRegistered
<1>7. UsersReference'
  BY DEF UsersReference, Exists
<1>8. CacheForgetsDeletion'
  BY <1>4 DEF CacheForgetsDeletion
<1>9. SnapshotOfDeletion'
  BY <1>1, <1>3, <1>4 DEF SnapshotOfDeletion, InFlight
<1>10. NobodyOwed'
  <2>1. InFlight(c) /\ pcr[c].seen.deleting => ~config[c].finalizer
    BY DEF SnapshotOfDeletion, IsGuarded
  <2> QED
    BY <1>1, <1>2, <2>1 DEF NobodyOwed, InFlight
<1> QED
  BY <1>5, <1>6, <1>7, <1>8, <1>9, <1>10

LEMMA DeliverConfigProtects ==
    ASSUME TypeOK, Protection, NEW c \in Configs, DeliverConfig(c), UNCHANGED setupVars
    PROVE  Protection'
<1> USE DEF TypeOK, PCTypeOK, Protection, DeliverConfig, setupVars, objects
<1>1. configCache'[c] = config[c] /\ \A d \in Configs : d # c => configCache'[d] = configCache[d]
  OBVIOUS
<1>2. DeletionNeedsFinalizer'
  BY DEF DeletionNeedsFinalizer
<1>3. OwedAreRegistered'
  BY DEF OwedAreRegistered
<1>4. UsersReference'
  BY DEF UsersReference, Exists
<1>5. CacheForgetsDeletion'
  BY <1>1 DEF CacheForgetsDeletion, IsGuarded
<1>6. SnapshotOfDeletion'
  BY <1>1 DEF SnapshotOfDeletion, InFlight, IsGuarded
<1>7. NobodyOwed'
  BY DEF NobodyOwed
<1> QED
  BY <1>2, <1>3, <1>4, <1>5, <1>6, <1>7

LEMMA UsageProtects ==
    ASSUME TypeOK, Protection, UNCHANGED <<config, configCache, pcr, using, owed>>,
           OwedAreRegistered', UsersReference'
    PROVE  Protection'
<1>1. DeletionNeedsFinalizer'
  BY DEF Protection, DeletionNeedsFinalizer
<1>2. CacheForgetsDeletion' /\ SnapshotOfDeletion'
  BY DEF Protection, CacheForgetsDeletion, SnapshotOfDeletion, InFlight, IsGuarded
<1>3. NobodyOwed'
  BY DEF Protection, NobodyOwed
<1> QED
  BY <1>1, <1>2, <1>3 DEF Protection

LEMMA DeliverUsageProtects ==
    ASSUME TypeOK, Protection, NEW r \in Resources, DeliverUsage(r), UNCHANGED setupVars
    PROVE  Protection'
<1>1. OwedAreRegistered'
  BY DEF TypeOK, PCTypeOK, Protection, OwedAreRegistered, DeliverUsage, setupVars, objects
<1>2. UsersReference'
  BY DEF Protection, UsersReference, Exists, setupVars, objects
<1> QED
  BY <1>1, <1>2, UsageProtects DEF DeliverUsage, setupVars, objects

LEMMA CollectProtects ==
    ASSUME TypeOK, Protection, NEW r \in Resources, CollectUsage(r)
    PROVE  Protection'
<1>1. using[r] = NoConfig
  BY DEF Protection, UsersReference, Exists, CollectUsage
<1>2. OwedAreRegistered'
  BY <1>1, NoConfigAssumption
     DEF TypeOK, PCTypeOK, Protection, OwedAreRegistered, CollectUsage, setupVars, objects
<1>3. UsersReference'
  BY DEF Protection, UsersReference, Exists, CollectUsage, setupVars, objects
<1> QED
  BY <1>2, <1>3, UsageProtects DEF CollectUsage, setupVars, objects

LEMMA TrackProtects ==
    ASSUME TypeOK, Protection, NEW r \in Resources, Track(r)
    PROVE  Protection'
<1>0. setup[r] \in Setups /\ setup[r].ref \in Configs
  BY DEF TypeOK, Track
<1>1. ASSUME using[r] # NoConfig, usageCache[r] = using[r] PROVE UNCHANGED usage
  <2>1. setup[r].ref = using[r]
    BY <1>1 DEF Protection, UsersReference, Track
  <2> QED
    BY <1>1, <2>1 DEF Track, Tracked, TrackCreates, TrackUpdates
<1>2. \A q \in Resources : q # r => usage'[q] = usage[q]
  BY DEF TypeOK, PCTypeOK, Track
<1>3. OwedAreRegistered'
  BY <1>1, <1>2, NoConfigAssumption
     DEF TypeOK, PCTypeOK, Protection, OwedAreRegistered, Track
<1>4. /\ setup'[r].ref = setup[r].ref
      /\ \A q \in Resources : q # r => setup'[q] = setup[q]
  BY <1>0 DEF TypeOK, Track, Goto, Setups
<1>5. UsersReference'
  BY <1>4 DEF Protection, UsersReference, Exists, Track
<1> QED
  BY <1>3, <1>5, UsageProtects DEF Track

\* Steps outside the controller that keep every use of a config.
LEMMA KeepingProtects ==
    ASSUME TypeOK, Protection, UNCHANGED <<config, configCache, usage, usageCache, pcr, owed>>,
           \A r \in Resources : using[r] # NoConfig => using'[r] = using[r],
           UsersReference'
    PROVE  Protection'
<1> USE DEF Protection
<1>1. DeletionNeedsFinalizer'
  BY DEF DeletionNeedsFinalizer
<1>2. OwedAreRegistered'
  BY NoConfigAssumption DEF TypeOK, OwedAreRegistered
<1>3. CacheForgetsDeletion' /\ SnapshotOfDeletion'
  BY DEF CacheForgetsDeletion, SnapshotOfDeletion, InFlight, IsGuarded
<1>4. NobodyOwed'
  BY DEF NobodyOwed
<1> QED
  BY <1>1, <1>2, <1>3, <1>4

LEMMA SetupProtects ==
    ASSUME TypeOK, Protection, NEW r \in Resources, SetupStep(r)
    PROVE  Protection'
<1> USE DEF pcVars
<1>0. /\ setup[r] \in Setups /\ setup \in [Resources -> Setups]
      /\ managed[r] \in Managed /\ managed \in [Resources -> Managed]
      /\ using \in [Resources -> Configs \cup {NoConfig}]
  BY DEF TypeOK
<1>1. CASE Begin(r)
  <2>1. /\ setup'[r].ref = managed[r].ref
        /\ \A q \in Resources : q # r => setup'[q] = setup[q]
    BY <1>0, <1>1 DEF Begin, Setups
  <2>2. UsersReference'
    BY <1>1, <2>1 DEF Protection, UsersReference, Exists, Begin
  <2> QED
    BY <1>1, <2>2, KeepingProtects DEF Begin
<1>2. CASE GetConfig(r)
  <2>1. /\ setup'[r].ref = setup[r].ref /\ setup[r].at # "idle"
        /\ \A q \in Resources : q # r => setup'[q] = setup[q]
    BY <1>0, <1>2 DEF GetConfig, Setups
  <2>2. UsersReference'
    BY <1>2, <2>1 DEF Protection, UsersReference, Exists, GetConfig
  <2> QED
    BY <1>2, <2>2, KeepingProtects DEF GetConfig
<1>3. CASE Track(r)
  BY <1>3, TrackProtects
<1>4. CASE Extract(r)
  <2>1. /\ setup'[r].ref = setup[r].ref /\ setup[r].at # "idle"
        /\ \A q \in Resources : q # r => setup'[q] = setup[q]
    BY <1>0, <1>4 DEF Extract, Goto, Setups
  <2>2. /\ \A q \in Resources : q # r => using'[q] = using[q]
        /\ \/ using'[r] = using[r]
           \/ using'[r] = setup[r].ref /\ Exists(r) /\ managed[r].ref = setup[r].ref
    BY <1>0, <1>4 DEF Extract
  <2>3. UsersReference'
    BY <1>4, <2>1, <2>2 DEF Protection, UsersReference, Exists, Extract
  <2>4. using[r] # NoConfig => using'[r] = using[r]
    BY <2>1, <2>2 DEF Protection, UsersReference
  <2> QED
    BY <1>4, <2>2, <2>3, <2>4, KeepingProtects DEF Extract
<1>5. CASE FinishFailed(r)
  <2>1. /\ setup'[r].at = "idle"
        /\ \A q \in Resources : q # r => setup'[q] = setup[q]
    BY <1>0, <1>5 DEF FinishFailed, EndSetup, NoSetup
  <2>2. UsersReference'
    BY <1>5, <2>1 DEF Protection, UsersReference, Exists, FinishFailed
  <2> QED
    BY <1>5, <2>2, KeepingProtects DEF FinishFailed
<1>6. CASE Finish(r)
  <2>1. /\ setup'[r].at = "idle"
        /\ \A q \in Resources : q # r => setup'[q] = setup[q]
    BY <1>0, <1>6 DEF Finish, EndSetup, NoSetup
  <2>2. \A q \in Resources : /\ managed'[q].phase = managed[q].phase
                             /\ managed'[q].ref = managed[q].ref
    BY <1>0, <1>6 DEF Finish, Managed
  <2>3. UsersReference'
    BY <1>6, <2>1, <2>2 DEF Protection, UsersReference, Exists, Finish
  <2> QED
    BY <1>6, <2>3, KeepingProtects DEF Finish
<1>7. CASE FinishDelete(r)
  <2>1. \A q \in Resources \ {r} : managed'[q] = managed[q] /\ setup'[q] = setup[q]
    BY <1>0, <1>7 DEF FinishDelete, EndSetup
  <2> QED
    BY <1>7, <2>1, LettingGoProtects DEF FinishDelete
<1> QED
  BY <1>1, <1>2, <1>3, <1>4, <1>5, <1>6, <1>7 DEF SetupStep

LEMMA UserManagedProtects ==
    ASSUME TypeOK, Protection, NEW r \in Resources, UserChangesManaged(r)
    PROVE  Protection'
<1>0. managed[r] \in Managed /\ managed \in [Resources -> Managed]
  BY DEF TypeOK
<1>1. ASSUME NEW c \in Configs, CreateManaged(r, c) PROVE Protection'
  <2>1. using[r] = NoConfig
    BY <1>1 DEF Protection, UsersReference, Exists, CreateManaged
  <2>2. \A q \in Resources : q # r => managed'[q] = managed[q]
    BY <1>0, <1>1 DEF CreateManaged
  <2>3. UsersReference'
    BY <1>1, <2>1, <2>2 DEF Protection, UsersReference, Exists, CreateManaged
  <2> QED
    BY <1>1, <2>3, KeepingProtects DEF CreateManaged, pcVars
<1>2. ASSUME NEW c \in Configs, ChangeRef(r, c) PROVE Protection'
  <2>1. \A q \in Resources \ {r} : managed'[q] = managed[q] /\ setup'[q] = setup[q]
    BY <1>0, <1>2 DEF ChangeRef
  <2> QED
    BY <1>2, <2>1, LettingGoProtects DEF ChangeRef
<1>3. CASE DeleteGuarded(r)
  <2>1. /\ managed'[r].phase = "deleting" /\ managed'[r].ref = managed[r].ref
        /\ \A q \in Resources : q # r => managed'[q] = managed[q]
    BY <1>0, <1>3 DEF DeleteGuarded, Managed
  <2>2. UsersReference'
    BY <1>3, <2>1 DEF Protection, UsersReference, Exists, DeleteGuarded
  <2> QED
    BY <1>3, <2>2, KeepingProtects DEF DeleteGuarded, pcVars
<1>4. CASE DeleteUnguarded(r)
  <2>1. \A q \in Resources \ {r} : managed'[q] = managed[q] /\ setup'[q] = setup[q]
    BY <1>0, <1>4 DEF DeleteUnguarded
  <2> QED
    BY <1>4, <2>1, LettingGoProtects DEF DeleteUnguarded
<1> QED
  BY <1>1, <1>2, <1>3, <1>4 DEF UserChangesManaged

LEMMA UserProtects ==
    ASSUME TypeOK, Protection, User
    PROVE  Protection'
<1>1. ASSUME NEW c \in Configs, UserChangesConfig(c) PROVE Protection'
  BY <1>1, UserConfigProtects, RequestDeleteProtects, SpecsOfAssumption DEF UserChangesConfig
<1>2. ASSUME NEW r \in Resources, UserChangesManaged(r) PROVE Protection'
  BY <1>2, UserManagedProtects
<1>3. ASSUME NEW k \in Keys, NEW kind \in Kinds, NEW shape \in Shapes \cup {{}},
             WriteData(k, kind, shape)
      PROVE  Protection'
  <2>1. UsersReference'
    BY <1>3 DEF Protection, UsersReference, Exists, WriteData
  <2> QED
    BY <1>3, <2>1, KeepingProtects DEF WriteData, pcVars
<1> QED
  BY <1>1, <1>2, <1>3 DEF User

LEMMA CrashProtects ==
    ASSUME TypeOK, Protection, Crash
    PROVE  Protection'
<1> USE DEF TypeOK, Protection, Crash
<1>1. DeletionNeedsFinalizer'
  BY DEF DeletionNeedsFinalizer
<1>2. OwedAreRegistered'
  BY DEF OwedAreRegistered
<1>3. UsersReference'
  BY DEF UsersReference, Exists, NoSetup
<1>4. CacheForgetsDeletion'
  BY DEF CacheForgetsDeletion, IsGuarded
<1>5. \A c \in Configs : pcr'[c].at = "idle"
  BY DEF Idle
<1>6. SnapshotOfDeletion' /\ NobodyOwed'
  BY <1>5 DEF SnapshotOfDeletion, InFlight, NobodyOwed
<1> QED
  BY <1>1, <1>2, <1>3, <1>4, <1>6

\* Steps of the reconciler that write no config.
LEMMA ReadingProtects ==
    ASSUME TypeOK, Protection, NEW c \in Configs,
           UNCHANGED <<config, configCache, usage, usageCache, setupVars>>,
           \A d \in Configs : d # c => pcr'[d] = pcr[d],
           InFlight(c)' => /\ pcr'[c].seen = IF InFlight(c) THEN pcr[c].seen ELSE configCache[c]
                           /\ pcr'[c].at = "update" /\ pcr'[c].users = 0 => owed[c] = {}
    PROVE  Protection'
<1> USE DEF Protection, setupVars, objects
<1>1. DeletionNeedsFinalizer' /\ CacheForgetsDeletion'
  BY DEF DeletionNeedsFinalizer, CacheForgetsDeletion, IsGuarded
<1>2. OwedAreRegistered' /\ UsersReference'
  BY DEF OwedAreRegistered, UsersReference, Exists
<1>3. SnapshotOfDeletion'
  BY DEF SnapshotOfDeletion, CacheForgetsDeletion, InFlight, IsGuarded
<1>4. NobodyOwed'
  BY DEF NobodyOwed, InFlight
<1> QED
  BY <1>1, <1>2, <1>3, <1>4

\* A reconcile that ends without a write.
LEMMA EndingProtects ==
    ASSUME TypeOK, Protection, NEW c \in Configs,
           UNCHANGED <<config, configCache, usage, usageCache, setupVars>>,
           pcr' = [pcr EXCEPT ![c] = Idle]
    PROVE  Protection'
<1>1. \A d \in Configs : d # c => pcr'[d] = pcr[d]
  BY DEF TypeOK, PCTypeOK
<1>2. ~InFlight(c)'
  BY DEF TypeOK, PCTypeOK, InFlight, Idle
<1> QED
  BY <1>1, <1>2, ReadingProtects

LEMMA GetProtects ==
    ASSUME TypeOK, Protection, NEW c \in Configs, PCGet(c), UNCHANGED setupVars
    PROVE  Protection'
<1>1. \A d \in Configs : d # c => pcr'[d] = pcr[d]
  BY DEF TypeOK, PCTypeOK, PCGet
<1>2. ~InFlight(c)
  BY DEF PCGet, InFlight
<1>3. InFlight(c)' => pcr'[c].seen = configCache[c] /\ pcr'[c].at = "list"
  BY DEF TypeOK, PCTypeOK, PCGet, InFlight, Idle
<1> QED
  BY <1>1, <1>2, <1>3, ReadingProtects DEF PCGet

LEMMA ListProtects ==
    ASSUME TypeOK, Protection, NEW c \in Configs, PCList(c), UNCHANGED setupVars
    PROVE  Protection'
<1>1. pcr[c] \in Flights
  BY StartedIsFlight DEF TypeOK, PCTypeOK, PCList, Listed
<1>2. /\ pcr'[c].seen = pcr[c].seen
      /\ pcr'[c].users = Cardinality(UsersOf(c, usageCache))
  BY <1>1 DEF TypeOK, PCTypeOK, PCList, Listed, Flights
<1>3. UsersOf(c, usageCache) = {} => owed[c] = {}
  BY DEF TypeOK, Protection, OwedAreRegistered, UsersOf
<1>4. pcr'[c].users = 0 => owed[c] = {}
  BY <1>2, <1>3, NobodyCounted
<1>5. InFlight(c) /\ \A d \in Configs : d # c => pcr'[d] = pcr[d]
  BY DEF TypeOK, PCTypeOK, PCList, Listed, InFlight
<1> QED
  BY <1>2, <1>4, <1>5, ReadingProtects DEF PCList, Listed

LEMMA UpdateProtects ==
    ASSUME TypeOK, Protection, NEW c \in Configs, PCUpdate(c), UNCHANGED setupVars
    PROVE  Protection'
<1> USE DEF TypeOK, PCTypeOK
<1>0. pcr[c] \in Flights /\ pcr[c].seen \in Present /\ InFlight(c)
  BY StartedIsFlight DEF PCUpdate, Flights, InFlight
<1>1. CASE Keeps(pcr[c])
  <2>1. pcr' = [pcr EXCEPT ![c].at = "status"] /\ UNCHANGED config
    BY <1>1 DEF PCUpdate
  <2>2. pcr'[c].at = "status" /\ pcr'[c].seen = pcr[c].seen
    BY <1>0, <2>1 DEF Flights
  <2>3. \A d \in Configs : d # c => pcr'[d] = pcr[d]
    BY <2>1
  <2> QED
    BY <1>0, <2>1, <2>2, <2>3, ReadingProtects DEF PCUpdate
<1>2. CASE ~Keeps(pcr[c]) /\ ~Current(c)
  BY <1>2, EndingProtects DEF PCUpdate
<1>3. CASE ~Keeps(pcr[c]) /\ Current(c)
  <2> DEFINE new == Written(pcr[c])
  <2>0. /\ config' = [config EXCEPT ![c] = new]
        /\ config[c] = pcr[c].seen
        /\ UNCHANGED <<configCache, usage, usageCache>>
        /\ \A d \in Configs : d # c => config'[d] = config[d] /\ pcr'[d] = pcr[d]
    BY <1>3 DEF PCUpdate, Current
  <2>1. CASE pcr[c].seen.deleting
    <3>1. pcr'[c].at = "idle" /\ config'[c] = Absent
      BY <1>3, <2>0, <2>1 DEF PCUpdate, Written, Idle
    <3>2. ~config'[c].exists /\ ~config'[c].deleting
      BY <3>1 DEF Absent
    <3>3. owed[c] = {}
      <4>1. pcr[c].users = 0
        BY <1>0, <1>3, <2>1 DEF Keeps, Flights
      <4> QED
        BY <2>1, <4>1 DEF Protection, NobodyOwed, PCUpdate
    <3>4. DeletionNeedsFinalizer'
      BY <2>0, <3>2 DEF Protection, DeletionNeedsFinalizer
    <3>5. OwedAreRegistered'
      BY <2>0, <3>3 DEF Protection, OwedAreRegistered, setupVars, objects
    <3>6. CacheForgetsDeletion'
      BY <2>0, <3>2 DEF Protection, CacheForgetsDeletion, IsGuarded
    <3>7. SnapshotOfDeletion' /\ NobodyOwed'
      BY <2>0, <3>1 DEF Protection, SnapshotOfDeletion, NobodyOwed, InFlight, IsGuarded,
                        setupVars, objects
    <3>8. UsersReference'
      BY DEF Protection, UsersReference, Exists, setupVars, objects
    <3> QED
      BY <3>4, <3>5, <3>6, <3>7, <3>8 DEF Protection
  <2>2. CASE ~pcr[c].seen.deleting
    <3>1. new = [pcr[c].seen EXCEPT !.finalizer = TRUE] /\ ~new.deleting
      BY <1>0, <2>2 DEF Written, Present
    <3>2. config'[c] = new /\ ~config'[c].deleting
      BY <2>0, <3>1
    <3>3. pcr'[c].at = "status" /\ pcr'[c].seen = new
      <4>1. pcr' = [pcr EXCEPT ![c] = [pcr[c] EXCEPT !.at = "status", !.seen = new]]
        BY <1>3, <2>2 DEF PCUpdate
      <4>2. pcr'[c] = [pcr[c] EXCEPT !.at = "status", !.seen = new]
        BY <4>1
      <4> QED
        BY <1>0, <4>2 DEF Flights
    <3>4. ~config[c].deleting /\ owed[c] = {}
      BY <2>0, <2>2, OwedOnlyByClosing
    <3>5. ~configCache[c].deleting
      BY <1>0, <2>2, <3>4 DEF Protection, SnapshotOfDeletion
    <3>6. DeletionNeedsFinalizer'
      BY <2>0, <3>2 DEF Protection, DeletionNeedsFinalizer
    <3>7. OwedAreRegistered'
      BY <2>0, <3>4 DEF Protection, OwedAreRegistered, setupVars, objects
    <3>8. CacheForgetsDeletion'
      BY <2>0, <3>5 DEF Protection, CacheForgetsDeletion, IsGuarded
    <3>9. SnapshotOfDeletion'
      <4>1. ~pcr'[c].seen.deleting /\ ~configCache'[c].deleting
        BY <2>0, <3>1, <3>3, <3>5
      <4> QED
        BY <2>0, <4>1 DEF Protection, SnapshotOfDeletion, InFlight, IsGuarded
    <3>10. NobodyOwed'
      BY <2>0, <3>3 DEF Protection, NobodyOwed, setupVars, objects
    <3>11. UsersReference'
      BY DEF Protection, UsersReference, Exists, setupVars, objects
    <3> QED
      BY <3>6, <3>7, <3>8, <3>9, <3>10, <3>11 DEF Protection
  <2> QED
    BY <2>1, <2>2
<1> QED
  BY <1>1, <1>2, <1>3

LEMMA StatusProtects ==
    ASSUME TypeOK, Protection, NEW c \in Configs, PCStatus(c), UNCHANGED setupVars
    PROVE  Protection'
<1> USE DEF TypeOK, PCTypeOK, PCStatus
<1>1. CASE ~Current(c)
  BY <1>1, EndingProtects
<1>2. CASE Current(c)
  <2>1. config[c] \in Present
    BY <1>2, StartedIsFlight DEF Current, Flights
  <2>2. /\ config'[c].exists = config[c].exists
        /\ config'[c].deleting = config[c].deleting
        /\ config'[c].finalizer = config[c].finalizer
    BY <1>2, <2>1 DEF Present
  <2>3. \A d \in Configs : d # c => config'[d] = config[d] /\ pcr'[d] = pcr[d]
    BY <1>2
  <2>4. pcr'[c].at = "idle"
    BY DEF Idle
  <2>5. DeletionNeedsFinalizer'
    BY <2>2, <2>3 DEF Protection, DeletionNeedsFinalizer
  <2>6. OwedAreRegistered'
    BY <2>2, <2>3 DEF Protection, OwedAreRegistered, setupVars, objects
  <2>7. CacheForgetsDeletion'
    BY <2>2, <2>3 DEF Protection, CacheForgetsDeletion, IsGuarded
  <2>8. SnapshotOfDeletion' /\ NobodyOwed'
    BY <2>3, <2>4 DEF Protection, SnapshotOfDeletion, NobodyOwed, InFlight, IsGuarded,
                      setupVars, objects
  <2>9. UsersReference'
    BY DEF Protection, UsersReference, Exists, setupVars, objects
  <2> QED
    BY <2>5, <2>6, <2>7, <2>8, <2>9 DEF Protection
<1> QED
  BY <1>1, <1>2

LEMMA NextProtects ==
    ASSUME TypeOK, Protection, [Next]_vars
    PROVE  Protection'
<1>1. CASE User
  BY <1>1, UserProtects
<1>2. CASE Controller
  BY <1>2, GetProtects, ListProtects, UpdateProtects, StatusProtects,
     DeliverConfigProtects, DeliverUsageProtects DEF Controller, PCStep
<1>3. ASSUME NEW r \in Resources, CollectUsage(r) PROVE Protection'
  BY <1>3, CollectProtects
<1>4. ASSUME NEW r \in Resources, SetupStep(r) PROVE Protection'
  BY <1>4, SetupProtects
<1>5. ASSUME NEW c \in Configs, SyncPeriod(c) PROVE Protection'
  <2>1. UsersReference'
    BY <1>5 DEF Protection, UsersReference, Exists, SyncPeriod, objects
  <2> QED
    BY <1>5, <2>1, KeepingProtects DEF SyncPeriod, Resync, objects
<1>6. CASE Crash
  BY <1>6, CrashProtects
<1>7. CASE UNCHANGED vars
  <2>1. UsersReference'
    BY <1>7 DEF Protection, UsersReference, Exists, vars, setupVars, objects
  <2> QED
    BY <1>7, <2>1, KeepingProtects DEF vars, pcVars, setupVars, objects
<1> QED
  BY <1>1, <1>2, <1>3, <1>4, <1>5, <1>6, <1>7 DEF Next

(* The invariant holds in every reachable state, whatever the constants.   *)
THEOREM Protected == Spec => []Protection
<1>1. Init => TypeOK /\ Protection
  BY InitTypes, InitProtects
<1>2. TypeOK /\ Protection /\ [Next]_vars => TypeOK' /\ Protection'
  BY NextTypes, NextProtects
<1> QED
  BY <1>1, <1>2, PTL DEF Spec

-----------------------------------------------------------------------------
(* The controller implements ConfigLifecycle *)

LEMMA PhaseCases ==
    ASSUME NEW o
    PROVE  /\ ~o.exists => Phase(o) = "absent"
           /\ o.exists /\ o.deleting => Phase(o) = "closing"
           /\ o.exists /\ ~o.deleting /\ o.finalizer => Phase(o) = "guarded"
           /\ o.exists /\ ~o.deleting /\ ~o.finalizer => Phase(o) = "open"
BY DEF Phase

LEMMA Moves ==
    ASSUME TypeOK, NEW c \in Configs, NEW from, NEW to,
           \A d \in Configs : d # c => config'[d] = config[d],
           Phase(config[c]) = from, Phase(config'[c]) = to
    PROVE  Life!Move(c, from, to)
<1>1. \A d \in Configs : d # c => Phase(config'[d]) = Phase(config[d])
  OBVIOUS
<1>2. [d \in Configs |-> Phase(config'[d])]
         = [[d \in Configs |-> Phase(config[d])] EXCEPT ![c] = to]
  BY <1>1
<1> QED
  BY <1>2 DEF Life!Move

LEMMA Stays ==
    ASSUME \A d \in Configs : Phase(config'[d]) = Phase(config[d]), UNCHANGED owed
    PROVE  UNCHANGED Life!lifeVars
BY DEF Life!lifeVars

LEMMA SameConfigs ==
    ASSUME UNCHANGED <<config, owed>>
    PROVE  UNCHANGED Life!lifeVars
BY Stays

LEMMA LetsGo ==
    ASSUME NEW r \in Resources, Release(r), UNCHANGED config
    PROVE  Life!LetGo(r)
BY DEF Release, Life!LetGo

LEMMA UserConfigRefines ==
    ASSUME TypeOK, Protection, NEW c \in Configs, UserChangesConfig(c)
    PROVE  [Life!Next]_(Life!lifeVars)
<1> USE DEF TypeOK, PCTypeOK
<1>0. config[c] \in Object
  OBVIOUS
<1>1. ASSUME NEW s \in Specs, CreateConfig(c, s), UNCHANGED owed PROVE Life!Create(c)
  <2>1. Fresh(s).exists /\ ~Fresh(s).deleting /\ ~Fresh(s).finalizer
    BY DEF Fresh, Absent
  <2>2. /\ config'[c] = Fresh(s) /\ ~config[c].exists
        /\ \A d \in Configs : d # c => config'[d] = config[d]
    BY <1>1 DEF CreateConfig
  <2> QED
    BY <1>1, <2>1, <2>2, PhaseCases, Moves DEF Life!Create
<1>2. ASSUME NEW s \in Specs, EditConfig(c, s), UNCHANGED owed
      PROVE  UNCHANGED Life!lifeVars
  <2>1. config[c] \in Present
    BY <1>2, ExistingIsPresent DEF EditConfig
  <2>2. /\ config'[c].exists = config[c].exists
        /\ config'[c].deleting = config[c].deleting
        /\ config'[c].finalizer = config[c].finalizer
        /\ \A d \in Configs : d # c => config'[d] = config[d]
    BY <1>2, <2>1 DEF EditConfig, Present
  <2> QED
    BY <1>2, <2>2, Stays DEF Phase
<1>3. CASE RequestDelete(c)
  <2>1. config[c] \in Present /\ config[c].exists /\ ~config[c].deleting
    BY <1>3, ExistingIsPresent DEF RequestDelete, DeleteConfig
  <2>2. \A d \in Configs : d # c => config'[d] = config[d] /\ owed'[d] = owed[d]
    BY <1>3 DEF RequestDelete, DeleteConfig
  <2>3. CASE config[c].finalizer
    <3>1. config'[c].exists /\ config'[c].deleting
      BY <1>3, <2>1, <2>3 DEF RequestDelete, DeleteConfig, Present
    <3>2. Life!Move(c, "guarded", "closing")
      BY <2>1, <2>2, <2>3, <3>1, PhaseCases, Moves
    <3>3. \E users \in SUBSET Resources : owed' = [owed EXCEPT ![c] = users]
      BY <1>3 DEF RequestDelete
    <3> QED
      BY <3>2, <3>3 DEF Life!RequestDelete, Life!Next
  <2>4. CASE ~config[c].finalizer
    <3>1. ~config'[c].exists
      BY <1>3, <2>4 DEF RequestDelete, DeleteConfig, Absent
    <3>2. Life!Move(c, "open", "absent")
      BY <2>1, <2>2, <2>4, <3>1, PhaseCases, Moves
    <3>3. owed' = [owed EXCEPT ![c] = {}] /\ owed[c] = {}
      BY <1>3, <2>1, <2>4, OwedOnlyByClosing DEF RequestDelete
    <3>4. UNCHANGED owed
      BY <3>3
    <3> QED
      BY <3>2, <3>4 DEF Life!Vanish, Life!Next
  <2> QED
    BY <2>3, <2>4
<1> QED
  BY <1>1, <1>2, <1>3, SpecsOfAssumption DEF UserChangesConfig, Life!Next

LEMMA ReconcilerRefines ==
    ASSUME TypeOK, Protection, NEW c \in Configs, PCStep(c), UNCHANGED setupVars
    PROVE  [Life!Next]_(Life!lifeVars)
<1> USE DEF TypeOK, PCTypeOK
<1>0. UNCHANGED owed
  BY DEF setupVars, objects
<1>1. CASE PCGet(c) \/ PCList(c)
  BY <1>0, <1>1, SameConfigs DEF PCGet, PCList
<1>2. CASE PCUpdate(c)
  <2>1. pcr[c] \in Flights /\ pcr[c].seen \in Present
    BY <1>2, StartedIsFlight DEF PCUpdate, Flights
  <2>2. CASE Keeps(pcr[c]) \/ ~Current(c)
    BY <1>0, <1>2, <2>2, SameConfigs DEF PCUpdate
  <2>3. CASE ~Keeps(pcr[c]) /\ Current(c)
    <3>1. /\ config[c] = pcr[c].seen
          /\ config'[c] = Written(pcr[c])
          /\ \A d \in Configs : d # c => config'[d] = config[d]
      BY <1>2, <2>3 DEF PCUpdate, Current
    <3>2. config[c].exists
      BY <2>1, <3>1 DEF Present
    <3>3. CASE pcr[c].seen.deleting
      <4>1. pcr[c].users = 0
        BY <2>1, <2>3, <3>3 DEF Keeps, Flights
      <4>2. owed[c] = {}
        BY <1>2, <3>3, <4>1 DEF Protection, NobodyOwed, PCUpdate
      <4>3. ~config'[c].exists
        BY <3>1, <3>3 DEF Written, Absent
      <4>4. Life!Move(c, "closing", "absent")
        BY <3>1, <3>2, <3>3, <4>3, PhaseCases, Moves
      <4> QED
        BY <1>0, <4>2, <4>4 DEF Life!Remove, Life!Next
    <3>4. CASE ~pcr[c].seen.deleting
      <4>1. config'[c].exists /\ ~config'[c].deleting /\ config'[c].finalizer
        BY <2>1, <3>1, <3>4 DEF Written, Present
      <4>2. CASE config[c].finalizer
        <5>1. Phase(config'[c]) = Phase(config[c])
          BY <3>1, <3>2, <3>4, <4>1, <4>2, PhaseCases
        <5> QED
          BY <1>0, <3>1, <5>1, Stays
      <4>3. CASE ~config[c].finalizer
        <5>1. Life!Move(c, "open", "guarded")
          BY <3>1, <3>2, <3>4, <4>1, <4>3, PhaseCases, Moves
        <5> QED
          BY <1>0, <5>1 DEF Life!Protect, Life!Next
      <4> QED
        BY <4>2, <4>3
    <3> QED
      BY <3>3, <3>4
  <2> QED
    BY <2>2, <2>3
<1>3. CASE PCStatus(c)
  <2>1. CASE ~Current(c)
    BY <1>0, <1>3, <2>1, SameConfigs DEF PCStatus
  <2>2. CASE Current(c)
    <3>1. config[c] \in Present
      BY <1>3, <2>2, StartedIsFlight DEF PCStatus, Current, Flights
    <3>2. /\ config'[c].exists = config[c].exists
          /\ config'[c].deleting = config[c].deleting
          /\ config'[c].finalizer = config[c].finalizer
          /\ \A d \in Configs : d # c => config'[d] = config[d]
      BY <1>3, <2>2, <3>1 DEF PCStatus, Present
    <3> QED
      BY <1>0, <3>2, Stays DEF Phase
  <2> QED
    BY <2>1, <2>2
<1> QED
  BY <1>1, <1>2, <1>3 DEF PCStep

LEMMA UserManagedRefines ==
    ASSUME NEW r \in Resources, UserChangesManaged(r)
    PROVE  [Life!Next]_(Life!lifeVars)
<1>1. CASE UNCHANGED <<config, owed>>
  BY <1>1, SameConfigs
<1>2. CASE Release(r) /\ UNCHANGED config
  BY <1>2, LetsGo DEF Life!Next
<1> QED
  BY <1>1, <1>2 DEF UserChangesManaged, CreateManaged, ChangeRef, DeleteGuarded,
                    DeleteUnguarded, pcVars

LEMMA SetupRefines ==
    ASSUME NEW r \in Resources, SetupStep(r)
    PROVE  [Life!Next]_(Life!lifeVars)
<1>1. CASE UNCHANGED <<config, owed>>
  BY <1>1, SameConfigs
<1>2. CASE Release(r) /\ UNCHANGED config
  BY <1>2, LetsGo DEF Life!Next
<1> QED
  BY <1>1, <1>2 DEF SetupStep, Begin, GetConfig, Track, Extract, FinishFailed, Finish,
                    FinishDelete, pcVars

LEMMA NextRefines ==
    ASSUME TypeOK, Protection, [Next]_vars
    PROVE  [Life!Next]_(Life!lifeVars)
<1>1. CASE User
  <2>1. ASSUME NEW k \in Keys, NEW kind \in Kinds, NEW shape \in Shapes \cup {{}},
               WriteData(k, kind, shape)
        PROVE  UNCHANGED Life!lifeVars
    BY <2>1, SameConfigs DEF WriteData, pcVars
  <2> QED
    BY <1>1, <2>1, UserConfigRefines, UserManagedRefines DEF User
<1>2. CASE Controller
  <2>1. ASSUME NEW c \in Configs, DeliverConfig(c), UNCHANGED setupVars
        PROVE  UNCHANGED Life!lifeVars
    BY <2>1, SameConfigs DEF DeliverConfig, setupVars, objects
  <2>2. ASSUME NEW r \in Resources, DeliverUsage(r), UNCHANGED setupVars
        PROVE  UNCHANGED Life!lifeVars
    BY <2>2, SameConfigs DEF DeliverUsage, setupVars, objects
  <2> QED
    BY <1>2, <2>1, <2>2, ReconcilerRefines DEF Controller
<1>3. ASSUME NEW r \in Resources, CollectUsage(r) PROVE UNCHANGED Life!lifeVars
  BY <1>3, SameConfigs DEF CollectUsage, setupVars, objects
<1>4. ASSUME NEW r \in Resources, SetupStep(r) PROVE [Life!Next]_(Life!lifeVars)
  BY <1>4, SetupRefines
<1>5. ASSUME NEW c \in Configs, SyncPeriod(c) PROVE UNCHANGED Life!lifeVars
  BY <1>5, SameConfigs DEF SyncPeriod, Resync, objects
<1>6. CASE Crash
  BY <1>6, SameConfigs DEF Crash
<1>7. CASE UNCHANGED vars
  BY <1>7, SameConfigs DEF vars, pcVars, setupVars, objects
<1> QED
  BY <1>1, <1>2, <1>3, <1>4, <1>5, <1>6, <1>7 DEF Next

LEMMA InitRefines == Init => Life!Init
<1> SUFFICES ASSUME Init PROVE Life!Init
  OBVIOUS
<1>1. Phase(Absent) = "absent"
  BY PhaseCases DEF Absent
<1>2. ASSUME NEW s \in Specs PROVE Phase(Guarded(s)) = "guarded"
  <2>1. Guarded(s).exists /\ ~Guarded(s).deleting /\ Guarded(s).finalizer
    BY DEF Guarded, Fresh, Absent
  <2> QED
    BY <2>1, PhaseCases
<1>3. \A c \in Configs : Phase(config[c]) \in {"absent", "guarded"}
  BY <1>1, <1>2 DEF Init, PCInit
<1> QED
  BY <1>3 DEF Init, Life!Init

(* With caches that trail the API server, writes from old snapshots and    *)
(* restarts at any step, the controller still implements the life cycle:   *)
(* no config is removed before its registered users have let go of it.     *)
THEOREM Refinement == Spec => ConfigsOutliveTheirUsers
<1>1. Spec => [](TypeOK /\ Protection)
  BY TypeCorrect, Protected, PTL
<1>2. TypeOK /\ Protection /\ [Next]_vars => [Life!Next]_(Life!lifeVars)
  BY NextRefines
<1> QED
  BY <1>1, <1>2, InitRefines, PTL DEF Spec, ConfigsOutliveTheirUsers, Life!Spec

=============================================================================
