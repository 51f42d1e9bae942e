--------------------------- MODULE ProviderConfigs ---------------------------
(***************************************************************************)
(* ProviderConfigs, the ProviderConfigUsages that count their users, and   *)
(* the controller that guards a config while it is used                    *)
(* (internal/controller/providerconfig/config.go).                         *)
(*                                                                         *)
(* The API server holds the objects; the controllers read them from        *)
(* informer caches that trail behind, and write them back under optimistic *)
(* concurrency: a write from a snapshot that is no longer current fails.   *)
(***************************************************************************)
EXTENDS Naturals, FiniteSets

CONSTANTS
    Configs,     \* ProviderConfig names
    Resources,   \* managed resources, each one incarnation (one UID)
    Specs,       \* ProviderConfig specs
    SpecsOf,     \* the specs users write into each config
    Installed,   \* the configs an earlier run of the provider already guards
    NoConfig,    \* no ProviderConfig
    NoSpec       \* the spec of a config that does not exist

ASSUME ResourcesFinite == IsFiniteSet(Resources)
ASSUME NoConfigAssumption == NoConfig \notin Configs
ASSUME NoSpecAssumption == NoSpec \notin Specs
ASSUME SpecsOfAssumption == SpecsOf \in [Configs -> SUBSET Specs]

ASSUME InstalledAssumption == Installed \subseteq Configs

VARIABLES
    config,      \* ProviderConfigs as the API server holds them
    configCache, \* ... as the informer cache last saw them
    usage,       \* the config named by the ProviderConfigUsage of each resource
    usageCache,  \* ... as the informer cache last saw it
    queue,       \* the controller's work queue of config names
    pcr          \* the reconcile in flight for each config

pcVars == <<config, configCache, usage, usageCache, queue, pcr>>

Present == [exists : {TRUE}, deleting : BOOLEAN, finalizer : BOOLEAN,
            users : Nat, spec : Specs]
Absent == [exists |-> FALSE, deleting |-> FALSE, finalizer |-> FALSE,
           users |-> 0, spec |-> NoSpec]
Object == Present \cup {Absent}

\* A config as a user creates it, and as the controller leaves it.
Fresh(s) == [Absent EXCEPT !.exists = TRUE, !.spec = s]
Guarded(s) == [Fresh(s) EXCEPT !.finalizer = TRUE]

\* A reconcile holds the object it read and the number of usages it counted.
Idle == [at |-> "idle", seen |-> Absent, users |-> 0]
Flights == [at : {"list", "update", "status"}, seen : Present, users : Nat]
Reconciles == Flights \cup {Idle}

UsersOf(c, usages) == {r \in Resources : usages[r] = c}

PCTypeOK ==
    /\ config \in [Configs -> Object]
    /\ configCache \in [Configs -> Object]
    /\ usage \in [Resources -> Configs \cup {NoConfig}]
    /\ usageCache \in [Resources -> Configs \cup {NoConfig}]
    /\ queue \subseteq Configs
    /\ pcr \in [Configs -> Reconciles]

PCInit ==
    /\ config \in [Configs -> {Absent} \cup {Guarded(s) : s \in Specs}]
    /\ \A c \in Configs : IF c \in Installed
                            THEN config[c] \in {Guarded(s) : s \in SpecsOf[c]}
                            ELSE config[c] = Absent
    /\ configCache = config
    /\ usage = [r \in Resources |-> NoConfig]
    /\ usageCache = usage
    /\ queue = Installed
    /\ pcr = [c \in Configs |-> Idle]

-----------------------------------------------------------------------------
(* Users *)

CreateConfig(c, s) ==
    /\ ~config[c].exists
    /\ config' = [config EXCEPT ![c] = Fresh(s)]
    /\ UNCHANGED <<configCache, usage, usageCache, queue, pcr>>

EditConfig(c, s) ==
    /\ config[c].exists
    /\ config[c].spec # s
    /\ config' = [config EXCEPT ![c].spec = s]
    /\ UNCHANGED <<configCache, usage, usageCache, queue, pcr>>

\* The API server removes an object nothing guards at once and only marks the others.
DeleteConfig(c) ==
    /\ config[c].exists
    /\ ~config[c].deleting
    /\ config' = [config EXCEPT ![c] =
                    IF @.finalizer THEN [@ EXCEPT !.deleting = TRUE] ELSE Absent]
    /\ UNCHANGED <<configCache, usage, usageCache, queue, pcr>>

-----------------------------------------------------------------------------
(* Watches *)

\* For(&ProviderConfig{}): an event for a config enqueues it.
DeliverConfig(c) ==
    /\ configCache[c] # config[c]
    /\ configCache' = [configCache EXCEPT ![c] = config[c]]
    /\ queue' = queue \cup {c}
    /\ UNCHANGED <<config, usage, usageCache, pcr>>

\* EnqueueRequestForProviderConfig: the config the old and the new usage name.
Enqueued(old, new) == {old, new} \ {NoConfig}

\* Mutants of DeliverUsage: usages are not watched; only what a usage becomes is noticed.
DeliverUsageUnwatched(r) ==
    /\ usageCache[r] # usage[r]
    /\ usageCache' = [usageCache EXCEPT ![r] = usage[r]]
    /\ UNCHANGED <<config, configCache, usage, queue, pcr>>
DeliverUsageNew(r) ==
    /\ usageCache[r] # usage[r]
    /\ usageCache' = [usageCache EXCEPT ![r] = usage[r]]
    /\ queue' = queue \cup ({usage[r]} \ {NoConfig})
    /\ UNCHANGED <<config, configCache, usage, pcr>>

\* Watches(&ProviderConfigUsage{}): an event for a usage enqueues its configs.
DeliverUsage(r) ==
    /\ usageCache[r] # usage[r]
    /\ usageCache' = [usageCache EXCEPT ![r] = usage[r]]
    /\ queue' = queue \cup Enqueued(usageCache[r], usage[r])
    /\ UNCHANGED <<config, configCache, usage, pcr>>

\* The cache's SyncPeriod replays an event for every object it holds.
Resync(c) ==
    /\ configCache[c].exists
    /\ c \notin queue
    /\ queue' = queue \cup {c}
    /\ UNCHANGED <<config, configCache, usage, usageCache, pcr>>

-----------------------------------------------------------------------------
(* The reconciler: get, list the usages, update the object, update its status *)

PCGet(c) ==
    /\ pcr[c].at = "idle"
    /\ c \in queue
    /\ queue' = queue \ {c}
    /\ pcr' = [pcr EXCEPT ![c] =
                 IF configCache[c].exists
                   THEN [at |-> "list", seen |-> configCache[c], users |-> 0]
                   ELSE Idle]
    /\ UNCHANGED <<config, configCache, usage, usageCache>>

\* Mutants of Listed: another list kind, none of whose items is a usage; one item short.
ListedNone(c) == {}
ListedShort(c) ==
    LET users == UsersOf(c, usageCache)
    IN  IF users = {} THEN {} ELSE users \ {CHOOSE r \in users : TRUE}

\* The items of the ProviderConfigUsageList for the config.
Listed(c) == UsersOf(c, usageCache)

PCList(c) ==
    /\ pcr[c].at = "list"
    /\ pcr' = [pcr EXCEPT ![c].at = "update",
                          ![c].users = Cardinality(Listed(c))]
    /\ UNCHANGED <<config, configCache, usage, usageCache, queue>>

\* A config under deletion that still has users keeps its finalizer.
Keeps(p) == p.seen.deleting /\ p.users > 0

\* What the object becomes: guarded, or gone with its last finalizer.
Written(p) == IF p.seen.deleting THEN Absent ELSE [p.seen EXCEPT !.finalizer = TRUE]

\* A write succeeds only from the snapshot the API server still holds.
Current(c) == config[c] = pcr[c].seen

PCUpdate(c) ==
    LET p == pcr[c] IN
    /\ p.at = "update"
    /\ UNCHANGED <<configCache, usage, usageCache>>
    /\ \/ /\ Keeps(p)
          /\ pcr' = [pcr EXCEPT ![c].at = "status"]
          /\ UNCHANGED <<config, queue>>
       \/ /\ ~Keeps(p)
          /\ ~Current(c)
          /\ pcr' = [pcr EXCEPT ![c] = Idle]
          /\ queue' = queue \cup {c}
          /\ UNCHANGED config
       \/ /\ ~Keeps(p)
          /\ Current(c)
          /\ config' = [config EXCEPT ![c] = Written(p)]
          /\ pcr' = [pcr EXCEPT ![c] =
                       IF p.seen.deleting
                         THEN Idle
                         ELSE [p EXCEPT !.at = "status", !.seen = Written(p)]]
          /\ UNCHANGED queue

PCStatus(c) ==
    /\ pcr[c].at = "status"
    /\ pcr' = [pcr EXCEPT ![c] = Idle]
    /\ UNCHANGED <<configCache, usage, usageCache>>
    /\ \/ /\ Current(c)
          /\ config' = [config EXCEPT ![c].users = pcr[c].users]
          /\ UNCHANGED queue
       \/ /\ ~Current(c)
          /\ queue' = queue \cup {c}
          /\ UNCHANGED config

PCStep(c) == PCGet(c) \/ PCList(c) \/ PCUpdate(c) \/ PCStatus(c)

=============================================================================
