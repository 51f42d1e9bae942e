# A verification of provider-rediscloud

This directory holds TLA+ modules of `provider-rediscloud`, a Crossplane
provider generated by upjet that manages Redis Cloud resources through
Terraform; TLC configurations that model-check them; and TLAPS proofs of the
main results. Paths below are relative to the repository.

    tlc -workers 2 -config <run>.cfg <module>.tla      # a run, see section 3
    tlapm <module>Proofs.tla                           # a module of proofs, see section 4

## 1. Inventory

The provider is one process with 22 controllers, 21 of them for managed
resources. Replicas of it share no memory with anything but talk to the API
server, to credential stores and, through a Terraform workspace per resource, to
Redis Cloud. What its own code contributes is small and sits on top of two
frameworks (crossplane-runtime and upjet), which the repository does not vendor;
where the behaviour of its own code cannot be told without them, they are
modelled from how the code uses them and marked external in `PROJECT.json`.

| component | code | state | operations | correctness |
|---|---|---|---|---|
| Terraform setup | `internal/clients/rediscloud.go` | none of its own; reads the config cache, writes usages | get config, track usage, extract, decode, copy | credentials of one write of one store entry of the referenced config; the use is recorded |
| ProviderConfig controller | `internal/controller/providerconfig/config.go` | work queue, informer caches, finalizer and `status.users` of configs | two watches, one reconcile | never lets a config go while a registered user needs it; lets it go afterwards; the count catches up |
| ProviderConfig API | `apis/v1beta1/types.go` | ProviderConfigs, ProviderConfigUsages | create, edit, delete | |
| Managed controllers (21) | `internal/controller/*/*/zz_controller.go`, `zz_setup.go` | finalizers, annotations, workspaces, background runs | observe, create, update, delete, callbacks | one external resource per managed resource; none lost but by a restart or a run that breaks off; none abandoned |
| Managed APIs (21 kinds) | `apis/*/v1alpha1/zz_*` | spec, status | admission rules, merge of initProvider, late initialisation, ignored changes | what is admitted is complete; what the user wrote wins; updates end |
| Provider process | `cmd/provider/main.go` | flags, options, manager, lease | start-up in a fixed order, exit on the first error, leader election | nothing runs half set up; one leader |
| StoreConfig API | `apis/v1alpha1/types.go` | the default store config | created at start-up, edited by users | nobody's store is overwritten |
| Provider configuration | `config/*.go`, `internal/features`, `cmd/generator` | constant tables | read by the generator | every kind has an external name |
| Local test harness | `scripts/test-provider.sh` | a kind cluster | eight commands | commands build on one another |
| Example checker | `scripts/check-examples.py` | loaded CRDs, errors | load, validate, exit code | what passes was looked at |
| End-to-end workflow | `.github/workflows/uptest-trigger.yaml` | commit statuses | pending, result | a commit's result is its own |

How they interact. `main` fills in the options, builds the SetupFn and the
workspace store and hands them to every controller. Each reconcile of a managed
resource starts with the SetupFn; the SetupFn reads the ProviderConfig through
the informer cache and creates or updates the ProviderConfigUsage of the
resource; an event of that usage wakes the ProviderConfig controller, which
counts the usages it sees in its cache and keeps the config's finalizer while
there are any. The reconcile then opens the resource's workspace and observes,
creates, updates or deletes the external resource by Terraform runs that go on
in the background and report back through a callback; what they are given is
the merge of `forProvider` and `initProvider`, which admission, late
initialisation and users shape. Nothing of this is synchronous: every read is of
a cache, every write may meet a conflict, different resources and configs run
concurrently, users edit and delete at any time and the process may restart
between two calls.

The hard behaviours, each at its line, are the `hazards` of `PROJECT.json`.

## 2. Modules

| module | models | kind |
|---|---|---|
| `Credentials` | bytes of a credential source to Terraform configuration (`rediscloud.go:57-74`) | operators |
| `ProviderConfigs` | configs, usages, caches, queue, the controller's reconcile | state, actions |
| `TerraformSetup` | the SetupFn of all resources, users, garbage collection, restarts; composes the two above | specification, properties |
| `ConfigLifecycle` | what the ProviderConfig controller promises | abstract specification |
| `Reconcile` | one managed resource: reconciler, workspace, background runs, callback, restarts | specification, properties |
| `ExternalResource` | what a managed resource promises of its external resource | abstract specification |
| `Schemas` | the 21 kinds: fields of every struct, required parameters, secrets, Terraform types and arguments | tables |
| `Documents` | merge, late initialisation, ignored changes on documents of those schemas | operators |
| `Parameters` | the life of a spec's values: users, merge, late initialisation, updates, drift | specification, properties |
| `Admission` | which specs are stored, and what Terraform is given of them | specification, properties |
| `Controllers` | the 22 controllers, the order of `Setup`, the provider configuration | tables |
| `Startup` | `main` statement by statement in every replica, the default StoreConfig | specification, properties |
| `Provider` | `Startup` composed with `Controllers` and `Schemas` | properties |
| `Leader` | leader election with the durations of `main` | specification, properties |
| `TestHarness` | `scripts/test-provider.sh` | specification, properties |
| `UptestTrigger` | the two jobs of the end-to-end workflow | specification, properties |
| `CheckExamples` | `scripts/check-examples.py` | specification, properties |
| `TerraformSetupProofs`, `CredentialsProofs`, `ReconcileProofs`, `AdmissionProofs`, `ParametersProofs`, `ProviderProofs`, `LeaderProofs`, `ToolsProofs` | see section 4 | proofs |
| `MCTerraformSetup`, `MCAdmission`, `MCCheckExamples` | constant values for TLC | model values |
| `MCLiveness` | the histories of `TerraformSetup` that liveness is checked on | composition |
| `MCResource`, `MCTools` | several specifications in one run | composition |

### ProviderConfigs

`config` and `usage` are what the API server holds; `configCache` and
`usageCache` what the informers last delivered; `queue` is the work queue (a
set, as controller-runtime's is) and `pcr[c]` the reconcile in flight for `c`
(one per key). A config is created without finalizer (`CreateConfig`), edited,
and deleted: at once without finalizer, only marked with one (`DeleteConfig`).
`DeliverConfig` and `DeliverUsage` are the watches `For(&ProviderConfig{})` and
`Watches(&ProviderConfigUsage{}, ...)` of `config.go:28-32`; the second enqueues
the configs named by the usage before and after the event (`Enqueued`). `Resync`
is the cache's sync period (`main.go:82-84`), which also stands for the extra
events a coalesced delivery merges.

The reconciler takes four steps with everything else free to happen in between:
`PCGet` reads the cached object, `PCList` counts the cached usages of the list
kind `Setup` names (`config.go:23-26`), `PCUpdate` keeps
a config under deletion that has users, removes the finalizer of one that has
none (and with it the object) or adds the finalizer, and `PCStatus` writes the
count. Writes use optimistic concurrency: `Current(c)` compares the object with
the snapshot the write is made from. The resource version itself is abstracted
to the object's content; a snapshot equal to the current object is taken as
current, which only adds behaviours.

### TerraformSetup

`setup[r]` is the SetupFn in flight for resource `r` (a reconcile per key), with
the stage it has reached and what it holds:

| action | code |
|---|---|
| `Begin` | `rediscloud.go:34-46`, no reference: fail |
| `GetConfig` | `47-50`, `client.Get` from the cache; missing: fail |
| `Track` | `52-55`: the tracker creates, updates, or leaves the usage alone when the cached one already names the config; fails on a conflict |
| `Extract` | `57-74`: bytes of the selected source, JSON decode, copy of the keys |
| `FinishFailed`, `Finish`, `FinishDelete` | what the managed reconciler does with the result: end, guard a live resource, let a deleted one go |

`Crash` is a restart: nothing in flight survives, caches are read afresh, every
config is enqueued. `User` is every request users make of the API server or the
stores. Two history variables: `using[r]` is the config `r` was last set up with
and still names; `owed[c]` are the users that were registered (using `c`, with a
usage that names `c` in the API server and in the cache) when the deletion of
`c` was requested.

### ConfigLifecycle

Each config is absent, open (no finalizer), guarded, or closing, and a closing
one remembers the users it still waits for. `Remove` needs that set empty.
`TerraformSetup` implements it under `phase[c] <- Phase(config[c])`.

### Reconcile

One managed resource, generic in its kind: the 21 `Setup` functions differ in
the kind and the Terraform resource alone (`Controllers`). `mg` is the object in
the API server (deletion requested, finalizer, recorded identifier, and whether
a creation is annotated as pending), `cached` the informer's copy, `reconcile`
the reconcile under way with the copy it works on. `ws` is the workspace: the
identifier in Terraform's state, one an apply has created but not saved yet, the
last operation and its phase. `remotes` are the external resources there are.

| action | code |
|---|---|
| `Start` | the reconciler of `zz_controller.go:43-58` reads its cached copy; a pending creation stops it |
| `Connect` | the connector of `:34` opens the workspace with the recorded identifier |
| `ObserveRunning`, `Observe` | nothing to do while an operation runs; otherwise a refresh, a new identifier, a comparison |
| `Pend`, `Create`, `Record` | the annotations around an asynchronous create |
| `RecordName`, `Update`, `Destroy`, `Done` | what the observation asks for |
| `AddFinalizer`, `RemoveWorkspace`, `Release` | the workspace finalizer of `:36`: the directory goes first, the finalizer second |
| `ApplyCreates`, `ApplyEnds`, `DestroyEnds`, `Callback` | Terraform in the background (`UseAsync`) and the callback of `:37` that reports its end |
| `RunFails`, `DestroyFailsLate`, `RunBreaksOff` | a run that fails with its state saved; a destroy that fails after it had its effect; a run killed at its deadline, or failing before the identifier is saved, which loses what it made |
| `Fail` | an error, or the timeout of three minutes of `:45`, at any step |
| `Sync`, `Delete`, `Crash`, `Vanish` | the watch, the user, a restart, someone else |

`Writes` is optimistic concurrency: a write of a stale copy is refused.
`ExternalResource` is the promise: at most one external resource is managed at a
time, it is destroyed only after the deletion was requested, and the managed
resource goes only when there is none. A loss moves it to the orphans;
`LossesAreExplained` bounds those by the number of restarts and of runs that broke off
(`broken`). The mapping is
`managed <- Known`: what the workspace or the recorded name still knows. `Bookkeeping`
says in five parts why this works; it is checked as an invariant and is the induction
hypothesis of section 4.

### Schemas, Documents, Parameters and Admission

`Schemas` has one operator per Go type of `apis/*/v1alpha1/zz_*_types.go`. A type
exists three times in the code (`XInitParameters`, `XParameters`,
`XObservation`); one table stands for the three and says of each field its class
(scalar, list, map, blocks, selector), in which of the three it occurs and
whether an absent value is written as null. `XKind` has the fields the CEL rules
require, `XTerraformed` the type and sensitive mapping of `zz_*_terraformed.go`;
`TerraformRequires` and `TerraformSensitive` are what `config/schema.json` says of
each resource.

`Documents` has the operators of a kind's Terraform methods: `Merge`
(`GetMergedParameters`, mergo with `WithSliceDeepCopy` and overwriting off),
`LateInitialized` (`LateInitialize`), `Ignored` and `Updated` (what an update
leaves alone). The code recurs on the structs inside a struct; the parameters of the
21 kinds nest three deep at most (`ThreeDeep`, which TLC evaluates on the tables), so
each operator comes in three steps (`Merge1` for structs without structs inside, `Merge2`
around it, `Merge` around that) and no recursive definition is needed. Whether late initialisation goes into lists of blocks element by
element is up to the library and a choice of the model (`late`); the run takes never and deep, which reach
farthest apart.
`Parameters` runs them on documents that vary along one path of fields. `changes` says
what becomes of a change of that path once the resource exists: it is made in place, or
the resource keeps what it was created with, because the provider ignores the change
(`zz_subscription_types.go:429` and `444-445`) or because the resource would have to be created anew,
which the program refuses while it lives (the update then fails and is tried again).
The code's comments say which field is which; the model takes either for every path.

`Admission` looks at presence instead of values. `focus` are a few required
parameters or selectors of one kind; users create and edit specs the rules admit;
the program writes its own copy back (`Written`), in which every embedded struct
is there; `ToTerraform` is what an apply is given.

### Controllers, Startup and Provider

`Startup` has a program counter per replica, the options filled in so far, the
controllers added to the manager and the options they were set up with. `Fail`
is every `FatalIfError`, a failing controller in the middle of `zz_setup.go`, and
a kill. `store` is the default StoreConfig, which replicas with different
`--namespace` and users share (the run has one namespace and tells writers apart;
`StoreStays` is proved for any). `Provider` adds what is registered (`Controllers`):
`EveryKindServed` relates the 22 packages, the table of external names, the
kinds' Terraform types and the start-up.

### Leader

A lease in the API server, and per replica the time since it last saw or wrote
the record. A leader counts from the write it got an answer to and gives up
after `RenewDeadline`, noticed at its next retry; a candidate waits
`LeaseDuration` from the last change it saw. With `main`'s 50 s and 60 s and the
default retry period of 2 s the assumption `GivesUp < LeaseDuration` holds as long
as an answer takes less than 8 s. Clocks run at the same rate. The run counts in
units of 2 s.

### TestHarness, UptestTrigger and CheckExamples

`TestHarness`: `world` is what exists in the kind cluster, `todo` the rest of the
command's steps. A step's tools may fail before or after taking effect; `set -e`
abandons the rest (`Abandon`); the exit trap deletes the cluster (`Exit`), which
may fail silently (`|| true`), and a kill skips it.

`UptestTrigger`: workflow runs go through the steps of both jobs while commits are
pushed; the pending status goes to the head of the first checkout, the result to
that of the second. The pending status has the context of the run's examples (line
92). The results are posted under an output no job declares (lines 150 and 164 against
line 44), hence all in one context, `NoHash`, whatever the examples.

`CheckExamples`: CRD files and example files in any order; a file that breaks off
keeps the documents before that place; of two versions with one key the last one
loaded stays, and versions that are not served are not loaded. `MCTools` and `MCResource` put programs that share nothing into one run,
each chosen at the start and checked in behaviours of its own.

### Modelling decisions

- A credentials document is the set of its fields and the write it comes from;
  bytes that do not decode are one value, no bytes another.
- One incarnation (UID) per managed resource in `TerraformSetup`; a deleted one
  does not come back.
- Secrets and managed resources are read as they are by the SetupFn; configs and
  usages through a cache that may trail arbitrarily. An `Environment` entry does
  not change in a running process.
- The nil check of `providerConfigRef` (`rediscloud.go:43-46`) is modelled; the
  CRD default makes its branch unreachable through the API, so in the runs every
  created resource has a reference.
- `Configuration` follows Go's maps: a missing entry reads as the empty string
  (`Unset`).
- `Reconcile` has the default management policies (`*`) and an identifier the
  provider chooses (`config.IdentifierFromProvider`, the only kind in
  `external_name.go`). Workspaces live in the container's temporary directory,
  hence a restart loses them (`main.go:114`). One process acts: leader election is
  off by default, and the deployment has one replica.
- A creation whose result could not be annotated stays pending until its user
  removes the annotation (`Stuck`); the liveness properties end there.
- `Parameters` and `Admission` treat strings, numbers and booleans alike; the
  zero value of each is one value, `Zero`. Blocks that Terraform keeps as a set are
  taken as a list, matched by position, as the Go structs have them.
- A document of a kind whose CRD is known in another version only passes the example
  checker without validation, as in the code; `CheckerLooks` claims it was looked up, no more.

## 3. Runs

| run | module | properties | bounds |
|---|---|---|---|
| `lifecycle_configs` | `MCTerraformSetup` | `TypeOK`, `Protection`, `CredentialsOfReferencedConfig`, `ConfigsOutliveTheirUsers` | 2 configs with different selectors, 3 store entries with one rewrite each, 1 resource, 2 user requests, 1 restart, 1 resync |
| `liveness` | `MCLiveness` | `ConfigsOutliveTheirUsers`, `DeletionCompletes`, `UsersCatchUp`, `UsageCatchesUp` | 1 config, 1 resource, a Secret that is there or missing, 6 requests, 1 restart, 1 resync; or 2 configs, 1 resource, 3 requests |
| `resource` | `MCResource` | `TypeOK`, `ArgumentsComplete`, `WritesAdmitted`, `UserWins`, `InitialOnly`, `Settles` | 21 kinds, 2 parameters that may be absent, 3 edits; one path of every shape, changes in place or not, lists of 2, 1 edit, 1 drift |
| `reconcile` | `Reconcile` | `TypeOK`, `Bookkeeping`, `LossesAreExplained`, `NoRunIsAbandoned`, `KeepsItsPromise`, `EndsUpRecorded`, `DeletionCompletes` | 5 external resources, 2 failures, 2 restarts, 1 run that breaks off, 1 taken away |
| `provider` | `Provider` | `TypeOK`, `OptionsInv`, `RunsComplete`, `EveryKindServed`, `StoreIsKept`, `EventuallyRuns` | 2 replicas with any flags, 22 controllers, 1 failure, 1 edit |
| `leader` | `Leader` | `TypeOK`, `LeaseInv`, `OneLeader`, `SomeoneLeads` | 2 replicas, 3 kills, the durations of `main` |
| `tools` | `MCTools` | `ToolTypeOK`, `CheckerLooks`, `SetupFindsItsNeeds`, `ResultsAreEarned` | 4 invocations, 2 leftovers; 2 runs, 2 lists of examples and the empty context, 3 commits; 3 CRD files, 7 examples |
| `use_recorded` | `MCTerraformSetup` | `UseIsRecorded` | violated, see 5 |
| `required_credentials` | `MCTerraformSetup` | `RequiredCredentials` | violated, see 5 |
| `harness_keep` | `TestHarness` | `SetupIsKept` | violated, see 5 |
| `admission_secrets` | `MCAdmission` | `SecretsComplete` | violated, see 5 |
| `uptest_pending` | `UptestTrigger` | `PendingExplained` | violated, see 5 |

What the passing runs show. `lifecycle_configs` and `liveness`: a config
under deletion stays while a user registered before it needs it, goes afterwards, also
when setups failed after tracking, and no setup mixes writes or configs; a usage the
tracker left wrong is repaired by a later reconcile. `resource`: after any sequence of edits
and writes of the program, what may be applied has every required argument that
is no secret; the user's non-empty values win; fields of `initProvider` are not
changed after the creation unless late initialisation is on; late initialisation
and updates do not chase each other, and the external resource ends with the user's
values where changes can be made in place. `reconcile`: asynchronous runs, stale
copies, timeouts and failed writes never produce a second external resource or
forget the first; only a restart, or a run that breaks off before it saved the
identifier, does, and each loses one at most. `provider`: nothing runs with
part of the controllers or of the options. `leader`: a leader cut off from the API
server has stopped before another is elected. `tools`: a commit shows only results
of its own tests.

Why the bounds suffice. Every safety property of a passing run is also proved for
all constants (section 4), so the runs need no more than instances in which every
action happens and every mutant is caught; what rests on the bounds alone is
liveness. The longest interaction of the
ProviderConfig controller is a reconcile that read a deletion, counted no usages
and is still in flight when the config has gone, has been created again, guarded,
used, and its second deletion requested: five requests, which `liveness`
allows. Three requests (the resource, a change of its reference and one back) are
the shortest history in which the tracker is misled by its cache. In `reconcile`
each restart, each run that breaks off and each resource taken away may need one more
creation, hence `MaxMade` is one more than the sum of `MaxCrashes`, `MaxBroken` and
`MaxVanished` and bounds nothing else; two failures can hit a create and the write of its result, or two runs in a
row. One path per shape of fields is enough for `Parameters`, since the operators
look at classes, not names. Two required parameters are enough for `Admission`:
the rules and the merge look at each on its own. Every bound (`MaxEdits`,
`MaxCrashes`, `MaxBroken`, `MaxResyncs`, `MaxVersion`, `MaxFaults`, `MaxFailures`, `MaxKills`,
...) limits users, failures and rotations and nothing the program does.

Deadlock is not checked where users, failures and pushes use up their bounds: the
system is then quiet, as it should be. `leader` has no such state and checks it.

Fairness.

- `TerraformSetup` (`Fairness`): informers deliver, a queued key is taken and its
  reconcile finished (workers of controller-runtime), a resource that exists is
  reconciled again (poll interval), the garbage collector collects. None for
  users, restarts or resyncs, so no liveness property leans on the sync period.
  `FinishDelete` shares its fairness with the other steps of a setup, so a
  resource whose external deletion never ends keeps its config for ever.
- `Reconcile`: the watch, the reconcile as a whole (the queue and the poll
  interval), Terraform runs (they have a deadline), the callback.
- `Parameters`: the reconciles of a resource the poll interval observes again and
  again, as a whole: whichever of creation, late initialisation and update applies, not
  each of them for itself.
- `Startup`: the steps of a process, its restart by the kubelet included.
- `Leader`: time, the exit of an overdue leader, restarts, reads; strong fairness
  of taking the lease, because another candidate's write disables it again and
  again and requests are retried for ever.

Failures are never fair and are bounded, so liveness is about what happens once
they stop.

Every property of a passing run has a mutant in `PROJECT.json`: a changed
definition, defined next to the original, under which the run fails.

## 4. Proofs

For all constants that meet the named assumptions:

| module | theorem | states |
|---|---|---|
| `TerraformSetupProofs` | `TypeCorrect` | `Spec => []TypeOK` |
| | `Protected` | `Spec => []Protection` |
| | `Refinement` | `Spec => ConfigsOutliveTheirUsers`, that is `Life!Spec` |
| `CredentialsProofs` | `CredentialsSelected` | `Spec => []CredentialsOfReferencedConfig` |
| `ReconcileProofs` | `TypeCorrect`, `BooksAgree` | `Spec => []TypeOK`, `Spec => []Bookkeeping` |
| | `EveryLossIsExplained` | `Spec => []LossesAreExplained` |
| | `RunsKeepTheirWorkspace` | `Spec => NoRunIsAbandoned` |
| | `PromiseKept` | `Spec => KeepsItsPromise`, that is `External!ASpec` |
| `AdmissionProofs` | `TypeCorrect`, `WritesAreAdmitted` | `Spec => []TypeOK`, `Spec => []WritesAdmitted` |
| | `RequirementsAreMet` | `ManagementPolicies => (Spec => []ArgumentsComplete)` |
| `ParametersProofs` | `WrittenWins` | `AspectSpec => []UserWins` |
| | `InitialStays` | `AspectSpec => InitialOnly` |
| `ProviderProofs` | `TypeCorrect`, `OptionsHold` | `Spec => []TypeOK`, `Spec => []OptionsInv` |
| | `RunningIsComplete` | `Spec => []RunsComplete` |
| | `StoreStays` | `Spec => StoreIsKept` |
| | `KindsServed` | `Spec => []EveryKindServed` |
| `LeaderProofs` | `TypeCorrect`, `LeaseHolds` | `Spec => []TypeOK`, `Spec => []LeaseInv` |
| | `MutualExclusion` | `Spec => []OneLeader` |
| `ToolsProofs` | `TypeCorrect` | `ToolSpec => []ToolTypeOK` |
| | `PassedWasLookedAt` | `ToolSpec => []CheckerLooks` |
| | `SetupFinds` | `ToolSpec => []SetupFindsItsNeeds` |
| | `ResultsEarned` | `ToolSpec => []ResultsAreEarned` |

The argument for the refinement. The abstract step `Remove(c)` needs
`owed[c] = {}`, while the code removes the finalizer because a number counted
earlier in a stale cache was zero. `Protection` is the inductive invariant that bridges the two, together
with `TypeOK`:

- `OwedAreRegistered`: an owed user still has its usage, in the API server and in
  the cache. It stays because nothing but the user's own later setup or its
  removal changes its usage, and that setup can only carry the same reference
  (`UsersReference`) without first releasing it.
- `NobodyOwed`: a reconcile that read a deletion and counted zero finds nobody
  owed. At `PCList` the count is of the cache, which contains every owed user;
  `FiniteSetTheorems` turns a cardinality of zero into the empty set.
- `SnapshotOfDeletion`, `CacheForgetsDeletion`: a snapshot or a cache entry that
  shows a deletion never meets a config that is guarded again, hence a new
  deletion of a recreated config cannot borrow the old count. This needs both,
  since the next snapshot is taken from the cache, and it needs that the
  finalizer can only be added by the very reconcile that removes the doubt.

The argument for the credentials. `OwnSelections` follows a spec on its way: every
copy of a config (API server, cache, snapshot of a reconcile, which is written
back) has a spec users wrote into that config, hence so has what a setup took
from the cache; and `OneWrite` shows that the configuration made from a decoded
document holds values of that one write only.

The argument for `Reconcile`. The program acts on copies: what the reconciler read,
what it observed of a workspace, what the workspace recorded. `LossesAreExplained` is
far from inductive; `Bookkeeping` says what those copies are worth at each step.

- `NamesWereMade`: nobody has an identifier of an external resource that was never
  created, so a fresh one is nobody's.
- `CopyTrails`, `ReconcileTrails`: a copy is the object or an earlier state of it, an
  existing resource it names is the one the object names, and a write that is not
  refused was made from a copy that differs in at most the identifier.
- `ObservationHolds`: what was observed is still so when the reconciler acts on it.
  Nothing else runs Terraform in the workspace, and the finalizer has been added.
- `WorkspaceAgrees`: the workspace and the object stand for the same external
  resource, with one exception: after a crash the directory is gone, and then
  every copy has the recorded name. A creation under way meets no other resource, and
  nothing without a finalizer has anything to lose.

`TypeOK` and `Bookkeeping` are inductive together. Then exactly one step,
`ApplyCreates`, adds an external resource, and it does so when none is known; one,
`DestroyEnds` or `DestroyFailsLate`, destroys one, after the deletion; `Vanish` is someone
else's doing; and two, `Crash` and `RunBreaksOff`, turn at most one known resource into an
orphan. That is `EveryLossIsExplained`, and it is the step simulation of `PromiseKept`: every step is one of `ExternalResource` or
changes nothing that it sees (`StepIsSeen`).

The argument for `Admission`. The invariant is that what is stored is admitted, whoever
wrote it. It is kept because the program writes back a spec in which every parameter a
rule looks at is given where it was given before, or more. `RequirementsAreMet` then
needs two facts about the tables, each proved kind by kind: every parameter a rule
requires is an argument (`RulesRequireArguments`), and every argument Terraform requires
is a secret or has such a rule (`RulesCoverRequirements`). The hypothesis is the flag
`--enable-management-policies`, on by default (`main.go`); without it the theorem is
false, since the rules count `initProvider` and the merge does not happen (section 5).

The argument for `Parameters`. `forProvider` is what the user wrote with more fields,
in the structs inside it as well (`Within`), and nothing more where the policies leave
late initialisation out. Late initialisation keeps that (`LateInitializedAdds`), the
merge keeps non-empty values (`MergeHolds`), and an update to the merge leaves alone what
only `initProvider` gives (`UpdatedLeaves`); each is proved step by step from the inside
out, for any schema and any documents of that depth.

The argument for the start-up. `OptionsInv` says for each statement which options
a process holds there (`OptionsAt`), that the registered controllers are a prefix
of the order of `Setup`, and that all of them saw the same final options. It is
inductive with `TypeOK`; `RunsComplete` reads it off at the end of the prefix. Its last
part is that `Setup` never dereferences secret store options that are not there.

The argument for the leader. `LeaseInv` says that a leader's name is on the lease,
that it is at most `GivesUp` old, and that no replica whose record is current has
known it for longer than the leader itself. Time passes for all at once and a
write makes all other records old; so a candidate that has waited
`LeaseDuration > GivesUp` on a current record waits on a lease without a leader,
and two leaders would both be the holder. The proofs need `DurationsAssumption`
and that `Nobody` is no replica.

The argument for what is served. A process that works has registered all of
`SetupOrder` (`RunningIsComplete`); `EveryKindServed` is then a fact about the tables of
`Controllers` and `Schemas`: for each kind one controller serves it and no other runs
its Terraform resource.

The argument for the tools, one invariant each.

- `HarnessInv`: an invocation is at a place of its command's script, and in a complete
  setup everything the steps before that place bring is there, whatever earlier
  invocations, failures and kills have left. Nothing a setup does takes away what an
  earlier step of it brought.
- `UptestInv`: what each run knows is of commits that exist, in their order; a result
  shown, in whatever context, belongs to a test of that commit with the examples of the
  run that reported it.
- `CheckerInv`: what is loaded is served and found under its own key, and what is
  validated was validated when all CRDs were loaded. That a file with two versions of a
  key yields one of them needs the largest of a finite set of places, from
  `WFMin` of `WellFoundedInduction`.

The assumptions are the named `ASSUME`s of the modules (bounds are numbers, sets of
names do not overlap, the durations of `main`, the tables' depth); TLC evaluates each on
the runs.

Only model-checked: the liveness properties (`DeletionCompletes` of both kinds,
`UsersCatchUp`, `UsageCatchesUp`, `Settles`, `EndsUpRecorded`, `EventuallyRuns`,
`SomeoneLeads`), since liveness under fairness is out of the prover's reach. The five
violations are counterexamples, which a run shows and a proof cannot.

## 5. What the runs found

- `UseIsRecorded`. The tracker compares with the cached usage. After the
  reference goes to another config and back faster than the informer delivers,
  the cached usage still names the first config, so `Track` writes nothing while
  the API server's usage names the other: the resource uses a config that no
  usage names. `UsageCatchesUp` shows that a later reconcile repairs it;
  `ConfigsOutliveTheirUsers` therefore only speaks of registered users.
- `RequiredCredentials`. A document without `secret_key` yields a successful
  setup with an empty key (`rediscloud.go:66-69`).
- `SetupIsKept`. The exit trap (`test-provider.sh:54`) runs `cleanup` without
  argument after every command; `cleanup keep` (line 337) only skips one of the
  two calls.
- `SecretsComplete`. Embedded secret selectors (`zz_user_types.go:59`) are written
  by the program even when they are absent; a resource that was admitted without
  one because it only observes then satisfies the rule of line 104 with a selector
  that names no secret.
- `PendingExplained`. The job declares its output as `example_hash`
  (`uptest-trigger.yaml:44`), the results are posted under `example-hash` (lines 150
  and 164), which is empty. A run that tested the very commit it had marked as "Running..."
  (lines 91-92) reports in another context, and the pending status stays; results of
  different lists of examples overwrite each other. `ResultsAreEarned` still holds: what
  the one context shows was tested, with some run's examples.
- A Terraform run that breaks off before the identifier of what it created is saved
  loses it without a restart, and the next reconcile creates a second resource
  (`RunBreaksOff`, followed by `Create`); `LossesAreExplained` counts it. The repository
  makes no statement against it, so it is no finding.

Read in the code while modelling, and visible in the models, without a run of
their own:

- The merge treats `false`, 0 and `""` in `forProvider` as absent and takes the
  value of `initProvider` (`MergedScalar`), although
  `zz_subscription_terraformed.go:100-102` says forProvider is not overwritten.
  `UserWins` leaves empty values out.
- Late initialisation copies observed values of fields that only `initProvider`
  gives into `forProvider`; from then on they are no longer ignored on updates.
  `InitialOnly` holds where the policies leave late initialisation out.
- `ExternalNameConfigurations` leaves the version at `v1alpha1`, although
  `external_name.go:49-51` says it sets `v1beta1`.
- With `--enable-management-policies=false` a required parameter in
  `initProvider` alone is admitted but not merged; the `resource` run has the
  flag on, which is its default.

## 6. Not modelled, and the plan

Not modelled: generated deep copies (structural copies; a copy that shared memory
is beyond a model of values), the remaining scripts (command sequences around
external tools without state of their own), the vendored build library, images
and packaging, list accessors and registration code, logging and metrics,
webhooks (never enabled by `main`), re-runs of a single workflow job.

All safety and action properties of the passing runs, and both refinements, are proved;
liveness is checked. What could be added: what the abstract specifications promise,
stated and proved at their level; re-runs of single workflow jobs; a second replica in
`Reconcile`, which without `--leader-election` runs unguarded. This hazard and the two
divergences above about zero values and late initialisation are the ones in
`PROJECT.json` without a property: no property of the code as it is could hold of them.
