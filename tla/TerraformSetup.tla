--------------------------- MODULE TerraformSetup ---------------------------
(***************************************************************************)
(* The SetupFn every managed resource's reconcile starts with              *)
(* (internal/clients/rediscloud.go): read the referenced ProviderConfig,   *)
(* record that the resource uses it, extract and decode its credentials,   *)
(* build the Terraform provider configuration.  It runs concurrently for   *)
(* different resources and with the ProviderConfig controller, users, the  *)
(* garbage collector and restarts of the provider.                         *)
(***************************************************************************)
EXTENDS ProviderConfigs, Credentials

CONSTANTS
    InitialData,  \* what the credential store entries may hold at the start
    MaxEdits,     \* bound: requests users make of the API server, all together
    MaxCrashes,   \* bound: restarts of the provider process
    MaxResyncs    \* bound: events the sync period replays

ASSUME SpecsAssumption == Specs \subseteq [source : Sources, key : Keys]
ASSUME InitialDataAssumption == InitialData \subseteq Blob
ASSUME BoundsAssumption == MaxEdits \in Nat /\ MaxCrashes \in Nat /\ MaxResyncs \in Nat

VARIABLES
    managed,     \* the managed resources
    data,        \* what each credential store entry holds
    setup,       \* the setup in flight for each resource
    using,       \* history: the config each resource was last set up with and still names
    owed,        \* history: the registered users a config had when its deletion was requested
    edits,       \* counter of the bound MaxEdits
    crashes,     \* counter of the bound MaxCrashes
    resyncs      \* counter of the bound MaxResyncs

objects == <<managed, data, setup, using, owed>>
counters == <<edits, crashes, resyncs>>
setupVars == <<objects, counters>>
vars == <<pcVars, setupVars>>

Phases == {"unborn", "live", "deleting", "gone"}
Managed == [phase : Phases, finalizer : BOOLEAN, ref : Configs \cup {NoConfig}]
Stages == {"idle", "getConfig", "track", "extract", "done", "failed"}
Setups == [at : Stages, ref : Configs \cup {NoConfig}, spec : Specs \cup {NoSpec},
           conf : Configurations]
NoSetup == [at |-> "idle", ref |-> NoConfig, spec |-> NoSpec, conf |-> NoConfiguration]

Exists(r) == managed[r].phase \in {"live", "deleting"}

TypeOK ==
    /\ PCTypeOK
    /\ managed \in [Resources -> Managed]
    /\ data \in [Keys -> Blob]
    /\ setup \in [Resources -> Setups]
    /\ \A r \in Resources :
          /\ setup[r].at \notin {"idle", "failed"} => setup[r].ref \in Configs
          /\ setup[r].at \in {"track", "extract"} => setup[r].spec \in Specs
    /\ using \in [Resources -> Configs \cup {NoConfig}]
    /\ owed \in [Configs -> SUBSET Resources]
    /\ edits \in 0 .. MaxEdits
    /\ crashes \in 0 .. MaxCrashes
    /\ resyncs \in 0 .. MaxResyncs

Init ==
    /\ PCInit
    /\ managed = [r \in Resources |->
                    [phase |-> "unborn", finalizer |-> FALSE, ref |-> NoConfig]]
    /\ data \in [Keys -> InitialData]
    /\ setup = [r \in Resources |-> NoSetup]
    /\ using = [r \in Resources |-> NoConfig]
    /\ owed = [c \in Configs |-> {}]
    /\ edits = 0
    /\ crashes = 0
    /\ resyncs = 0

\* Resource r no longer uses a config: no deletion waits for it any more.
Release(r) ==
    /\ using' = [using EXCEPT ![r] = NoConfig]
    /\ owed' = [c \in Configs |-> owed[c] \ {r}]

-----------------------------------------------------------------------------
(* Users and the API server *)

CreateManaged(r, c) ==
    /\ managed[r].phase = "unborn"
    /\ managed' = [managed EXCEPT ![r].phase = "live", ![r].ref = c]
    /\ UNCHANGED <<pcVars, data, setup, using, owed, crashes, resyncs>>

ChangeRef(r, c) ==
    /\ Exists(r)
    /\ managed[r].ref # c
    /\ managed' = [managed EXCEPT ![r].ref = c]
    /\ Release(r)
    /\ UNCHANGED <<pcVars, data, setup, crashes, resyncs>>

DeleteGuarded(r) ==
    /\ managed[r].phase = "live"
    /\ managed[r].finalizer
    /\ managed' = [managed EXCEPT ![r].phase = "deleting"]
    /\ UNCHANGED <<pcVars, data, setup, using, owed, crashes, resyncs>>

DeleteUnguarded(r) ==
    /\ managed[r].phase = "live"
    /\ ~managed[r].finalizer
    /\ managed' = [managed EXCEPT ![r].phase = "gone"]
    /\ Release(r)
    /\ UNCHANGED <<pcVars, data, setup, crashes, resyncs>>

\* The garbage collector deletes the usage whose owner is gone.
CollectUsage(r) ==
    /\ managed[r].phase = "gone"
    /\ usage[r] # NoConfig
    /\ usage' = [usage EXCEPT ![r] = NoConfig]
    /\ UNCHANGED <<config, configCache, usageCache, queue, pcr, setupVars>>

\* The environment of a running process does not change; the other stores do.
WriteData(k, kind, shape) ==
    /\ \A s \in Specs : s.key = k => s.source # "Environment"
    /\ kind # "json" => shape = {}
    /\ data[k].version < MaxVersion
    /\ data' = [data EXCEPT ![k] =
                  [kind |-> kind, shape |-> shape, version |-> @.version + 1]]
    /\ UNCHANGED <<pcVars, managed, setup, using, owed, crashes, resyncs>>

\* A deletion request owes its patience to the users registered when it is made.
RequestDelete(c) ==
    /\ DeleteConfig(c)
    /\ owed' = [owed EXCEPT ![c] =
                  IF config[c].finalizer
                    THEN {r \in Resources : using[r] = c /\ usage[r] = c /\ usageCache[r] = c}
                    ELSE {}]
    /\ UNCHANGED <<managed, data, setup, using, crashes, resyncs>>

UserChangesConfig(c) ==
    \/ \E s \in SpecsOf[c] : /\ CreateConfig(c, s) \/ EditConfig(c, s)
                            /\ UNCHANGED <<managed, data, setup, using, owed, crashes, resyncs>>
    \/ RequestDelete(c)

UserChangesManaged(r) ==
    \/ \E c \in Configs : CreateManaged(r, c) \/ ChangeRef(r, c)
    \/ DeleteGuarded(r)
    \/ DeleteUnguarded(r)

User ==
    /\ edits < MaxEdits
    /\ edits' = edits + 1
    /\ \/ \E c \in Configs : UserChangesConfig(c)
       \/ \E r \in Resources : UserChangesManaged(r)
       \/ \E k \in Keys, kind \in Kinds, shape \in Shapes \cup {{}} : WriteData(k, kind, shape)

-----------------------------------------------------------------------------
(* The SetupFn, one action per call it makes; at most one per resource *)

Goto(r, stage) == setup' = [setup EXCEPT ![r].at = stage]

Begin(r) ==
    /\ setup[r].at = "idle"
    /\ Exists(r)
    /\ setup' = [setup EXCEPT ![r].ref = managed[r].ref,
                              ![r].at = IF managed[r].ref = NoConfig
                                          THEN "failed" ELSE "getConfig"]
    /\ UNCHANGED <<pcVars, managed, data, using, owed, counters>>

\* Mutant of GetConfig: the error of a missing config is ignored.
GetConfigAnyway(r) ==
    /\ setup[r].at = "getConfig"
    /\ setup' = [setup EXCEPT ![r].spec = configCache[setup[r].ref].spec, ![r].at = "track"]
    /\ UNCHANGED <<pcVars, managed, data, using, owed, counters>>

\* client.Get reads the informer cache.
GetConfig(r) ==
    LET pc == configCache[setup[r].ref] IN
    /\ setup[r].at = "getConfig"
    /\ setup' = [setup EXCEPT ![r].spec = IF pc.exists THEN pc.spec ELSE @,
                              ![r].at = IF pc.exists THEN "track" ELSE "failed"]
    /\ UNCHANGED <<pcVars, managed, data, using, owed, counters>>

(* Track applies the usage: it creates it when the cache has none, leaves  *)
(* it alone when the cached one already names the config, and otherwise    *)
(* updates it, provided the cached one is current.                         *)
Tracked(r)      == usageCache[r] = setup[r].ref
TrackCreates(r) == usageCache[r] = NoConfig /\ usage[r] = NoConfig
TrackUpdates(r) == usageCache[r] \notin {NoConfig, setup[r].ref} /\ usage[r] = usageCache[r]

\* Mutant of Track: no usage is recorded.
TrackNothing(r) ==
    /\ setup[r].at = "track"
    /\ Goto(r, "extract")
    /\ UNCHANGED <<pcVars, managed, data, using, owed, counters>>

Track(r) ==
    /\ setup[r].at = "track"
    /\ \/ /\ Tracked(r)
          /\ Goto(r, "extract")
          /\ UNCHANGED usage
       \/ /\ TrackCreates(r) \/ TrackUpdates(r)
          /\ usage' = [usage EXCEPT ![r] = setup[r].ref]
          /\ Goto(r, "extract")
       \/ /\ ~(Tracked(r) \/ TrackCreates(r) \/ TrackUpdates(r))
          /\ Goto(r, "failed")
          /\ UNCHANGED usage
    /\ UNCHANGED <<config, configCache, usageCache, queue, pcr,
                   managed, data, using, owed, counters>>

\* Mutant of Selected: the config the resource references by now.
SelectedAgain(r) == configCache[managed[r].ref].spec

\* The credential selectors are those of the config read at the start.
Selected(r) == setup[r].spec

ExtractSucceeds(r) ==
    LET s == Selected(r) IN
    /\ ~ExtractFails(s.source, data[s.key])
    /\ Unmarshals(s.source, data[s.key])

Extract(r) ==
    LET s == Selected(r) IN
    /\ setup[r].at = "extract"
    /\ \/ /\ ExtractSucceeds(r)
          /\ setup' = [setup EXCEPT ![r].at = "done",
                          ![r].conf = Configuration(Creds(s.key, data[s.key]))]
          /\ using' = [using EXCEPT ![r] =
                         IF Exists(r) /\ managed[r].ref = setup[r].ref THEN setup[r].ref ELSE @]
       \/ /\ ~ExtractSucceeds(r)
          /\ Goto(r, "failed")
          /\ UNCHANGED using
    /\ UNCHANGED <<pcVars, managed, data, owed, counters>>

(* The rest of the reconcile: a failed setup ends it; a successful one     *)
(* guards a live resource, and lets a deleting one go once its external    *)
(* resource is gone, which may take more than one reconcile.               *)
EndSetup(r) == setup' = [setup EXCEPT ![r] = NoSetup]

FinishFailed(r) ==
    /\ setup[r].at = "failed"
    /\ EndSetup(r)
    /\ UNCHANGED <<pcVars, managed, data, using, owed, counters>>

Finish(r) ==
    /\ setup[r].at = "done"
    /\ EndSetup(r)
    /\ managed' = [managed EXCEPT ![r].finalizer = @ \/ managed[r].phase = "live"]
    /\ UNCHANGED <<pcVars, data, using, owed, counters>>

FinishDelete(r) ==
    /\ setup[r].at = "done"
    /\ managed[r].phase = "deleting"
    /\ EndSetup(r)
    /\ managed' = [managed EXCEPT ![r].phase = "gone", ![r].finalizer = FALSE]
    /\ Release(r)
    /\ UNCHANGED <<pcVars, data, counters>>

SetupStep(r) == \/ Begin(r) \/ GetConfig(r) \/ Track(r) \/ Extract(r)
                \/ FinishFailed(r) \/ Finish(r) \/ FinishDelete(r)

-----------------------------------------------------------------------------
\* A new process starts with no reconcile in flight, fresh caches and every config enqueued.
Crash ==
    /\ crashes < MaxCrashes
    /\ crashes' = crashes + 1
    /\ setup' = [r \in Resources |-> NoSetup]
    /\ pcr' = [c \in Configs |-> Idle]
    /\ configCache' = config
    /\ usageCache' = usage
    /\ queue' = {c \in Configs : config[c].exists}
    /\ UNCHANGED <<config, usage, managed, data, using, owed, edits, resyncs>>

\* The sync period replays the events of the cached objects.
SyncPeriod(c) ==
    /\ resyncs < MaxResyncs
    /\ resyncs' = resyncs + 1
    /\ Resync(c)
    /\ UNCHANGED <<objects, edits, crashes>>

Controller ==
    \/ \E c \in Configs :
          (PCStep(c) \/ DeliverConfig(c)) /\ UNCHANGED setupVars
    \/ \E r \in Resources : DeliverUsage(r) /\ UNCHANGED setupVars

Next ==
    \/ User
    \/ Controller
    \/ \E r \in Resources : CollectUsage(r) \/ SetupStep(r)
    \/ \E c \in Configs : SyncPeriod(c)
    \/ Crash

Spec == Init /\ [][Next]_vars

(* The informers deliver, the workers take queued keys and finish what     *)
(* they took, an existing resource is polled, and the garbage collector    *)
(* runs.  Nothing makes a user act, a process crash or a resync happen.    *)
Fairness ==
    /\ \A c \in Configs : /\ WF_vars(PCStep(c) /\ UNCHANGED setupVars)
                          /\ WF_vars(DeliverConfig(c) /\ UNCHANGED setupVars)
    /\ \A r \in Resources : /\ WF_vars(DeliverUsage(r) /\ UNCHANGED setupVars)
                            /\ WF_vars(SetupStep(r))
                            /\ WF_vars(CollectUsage(r))

-----------------------------------------------------------------------------
(* What must hold *)

(* The controller implements the abstract life cycle: it removes a config  *)
(* under deletion only after every user that was registered when the       *)
(* deletion was requested has let go of it, whatever the caches showed.    *)
Phase(o) == CASE ~o.exists                                     -> "absent"
              [] o.exists /\ o.deleting                        -> "closing"
              [] o.exists /\ ~o.deleting /\ o.finalizer        -> "guarded"
              [] o.exists /\ ~o.deleting /\ ~o.finalizer       -> "open"

Life == INSTANCE ConfigLifecycle WITH phase <- [c \in Configs |-> Phase(config[c])]

ConfigsOutliveTheirUsers == Life!Spec

(* Why the life cycle holds although every decision is made on cached      *)
(* state: the registered users of a config under deletion stay registered, *)
(* also in the cache, until they let go; a stale cache or snapshot that    *)
(* shows an earlier deletion never meets a config that is guarded again;   *)
(* and a reconcile that counted no users waits for none.                   *)
InFlight(c) == pcr[c].at # "idle"
IsGuarded(c) == config[c].exists /\ config[c].finalizer /\ ~config[c].deleting

DeletionNeedsFinalizer ==
    \A c \in Configs : config[c].deleting => config[c].exists /\ config[c].finalizer
OwedAreRegistered ==
    \A c \in Configs : \A r \in owed[c] :
        config[c].deleting /\ using[r] = c /\ usage[r] = c /\ usageCache[r] = c
UsersReference ==
    \A r \in Resources : using[r] # NoConfig =>
        /\ Exists(r) /\ managed[r].ref = using[r]
        /\ setup[r].at # "idle" => setup[r].ref = using[r]
CacheForgetsDeletion ==
    \A c \in Configs : configCache[c].deleting => ~IsGuarded(c)
SnapshotOfDeletion ==
    \A c \in Configs : InFlight(c) =>
        /\ configCache[c].deleting /\ ~config[c].deleting => pcr[c].seen.deleting
        /\ pcr[c].seen.deleting => ~IsGuarded(c)
NobodyOwed ==
    \A c \in Configs :
        pcr[c].at = "update" /\ pcr[c].seen.deleting /\ pcr[c].users = 0 => owed[c] = {}

Protection ==
    /\ DeletionNeedsFinalizer
    /\ OwedAreRegistered
    /\ UsersReference
    /\ CacheForgetsDeletion
    /\ SnapshotOfDeletion
    /\ NobodyOwed

(* A finished setup hands Terraform values of one write of one entry, and  *)
(* of an entry that the config the resource referenced selects: never a    *)
(* mix of two rotations, nor another config's account.                     *)
ValuesOf(conf) == {conf[f] : f \in DOMAIN conf} \ {Unset}

CredentialsOfReferencedConfig ==
    \A r \in Resources : setup[r].at = "done" =>
        /\ \A v, w \in ValuesOf(setup[r].conf) : v = w
        /\ \A v \in ValuesOf(setup[r].conf) :
              \E s \in SpecsOf[setup[r].ref] : s.key = v[1]

(* A config under deletion is removed once no usage names it: it does not  *)
(* stay for ever with nobody left to wake the controller.                  *)
DeletionCompletes ==
    \A c \in Configs : []<>(config[c].deleting => UsersOf(c, usage) # {})

(* status.users catches up with the usages, after any burst of changes.    *)
UsersCatchUp ==
    \A c \in Configs :
        []<>(config[c].exists => config[c].users = Cardinality(UsersOf(c, usage)))

(* A resource set up with a config gets a usage that names it, even when   *)
(* the setup trusted a usage that was already out of date.                 *)
UsageCatchesUp ==
    \A r \in Resources, c \in Configs :
        using[r] = c ~> (usage[r] = c \/ using[r] # c)

(* A ProviderConfigUsage indicates that a resource is using a              *)
(* ProviderConfig: a resource set up with a config has a usage naming it.  *)
UseIsRecorded ==
    \A r \in Resources : using[r] # NoConfig => usage[r] = using[r]

(* A setup that succeeds has the credentials required to authenticate.     *)
RequiredCredentials ==
    \A r \in Resources : setup[r].at = "done" =>
        \A f \in {"api_key", "secret_key"} : setup[r].conf[f] # Unset

=============================================================================
