------------------------------ MODULE Reconcile ------------------------------
(***************************************************************************)
(* One managed resource of any kind under the controller Setup builds in   *)
(* zz_controller.go: the reconciler, the workspace its connector opens and *)
(* its finalizer removes, Terraform runs that go on in the background, the *)
(* callback that reports their end, writes that fail on a stale copy, and  *)
(* crashes.  The identifier of the external resource comes from the        *)
(* provider (external_name.go) and is first known to the workspace alone.  *)
(***************************************************************************)
EXTENDS Naturals, FiniteSets

CONSTANTS
    MaxMade,      \* bound: external resources ever created
    MaxFaults,    \* bound: failed steps and Terraform runs
    MaxCrashes,   \* bound: restarts of the program
    MaxBroken,    \* bound: Terraform runs that break off before they save what they created
    MaxVanished   \* bound: external resources removed by someone else

ASSUME ReconcileConstants ==
    /\ MaxMade \in Nat /\ MaxFaults \in Nat /\ MaxCrashes \in Nat
    /\ MaxBroken \in Nat /\ MaxVanished \in Nat

VARIABLES
    mg,         \* the managed resource in the API server
    cached,     \* the program's cached copy of it, and whether it is the latest
    reconcile,  \* the reconcile under way: where it is, its copy, what it observed
    ws,         \* the workspace: Terraform's state and its last operation
    remotes,    \* the external resources there are
    made,       \* how many were ever created; the last one's identifier
    callback,   \* whether the end of an operation is still to be reported
    faults, crashes, broken, vanished  \* counters of the bounds

counters == <<faults, crashes, broken, vanished>>
vars == <<mg, cached, reconcile, ws, remotes, made, callback, faults, crashes, broken, vanished>>

NoId == 0
Ids == 1 .. MaxMade
Objects == [state : {"live", "deleted", "gone"}, finalizer : BOOLEAN, name : Ids \cup {NoId},
            pending : BOOLEAN]   \* pending: a creation whose result is not annotated
Object == [state |-> "live", finalizer |-> FALSE, name |-> NoId, pending |-> FALSE]

NoWorkspace == [there |-> FALSE, id |-> NoId, making |-> NoId, op |-> "none", phase |-> "idle"]
Workspaces == [there : BOOLEAN, id : Ids \cup {NoId}, making : Ids \cup {NoId},
               op : {"none", "apply", "destroy"}, phase : {"idle", "running", "ended"}]
Running == ws.phase = "running"

Places == {"idle", "connect", "observe", "act", "call", "record", "release"}
Observations == {"none", "busy", "absent", "named", "same", "differs"}
Idle == [at |-> "idle", obj |-> Object, fresh |-> FALSE, seen |-> "none"]

TypeOK ==
    /\ mg \in Objects
    /\ cached \in [obj : Objects, fresh : BOOLEAN]
    /\ reconcile \in [at : Places, obj : Objects, fresh : BOOLEAN, seen : Observations]
    /\ ws \in Workspaces /\ (~ws.there => ws = NoWorkspace)
    /\ (ws.op = "none" <=> ws.phase = "idle")
    /\ remotes \subseteq 1 .. made /\ made \in 0 .. MaxMade
    /\ callback \in BOOLEAN
    /\ faults \in 0 .. MaxFaults /\ crashes \in 0 .. MaxCrashes
    /\ broken \in 0 .. MaxBroken /\ vanished \in 0 .. MaxVanished
---------------------------------------------------------------------------
Init ==
    /\ mg = Object /\ cached = [obj |-> Object, fresh |-> TRUE]
    /\ reconcile = Idle /\ ws = NoWorkspace
    /\ remotes = {} /\ made = 0 /\ callback = FALSE
    /\ faults = 0 /\ crashes = 0 /\ broken = 0 /\ vanished = 0

\* A write of someone else makes every copy stale.
Touched(obj) ==
    /\ mg' = obj
    /\ cached' = [cached EXCEPT !.fresh = FALSE]
    /\ reconcile' = [reconcile EXCEPT !.fresh = FALSE]

\* The user deletes the managed resource; with a finalizer it stays for now.
Delete ==
    /\ mg.state = "live"
    /\ Touched([mg EXCEPT !.state = IF mg.finalizer THEN "deleted" ELSE "gone"])
    /\ UNCHANGED <<ws, remotes, made, callback, counters>>

\* The watch brings the cached copy up to date.
Sync ==
    /\ ~cached.fresh
    /\ cached' = [obj |-> mg, fresh |-> TRUE]
    /\ UNCHANGED <<mg, reconcile, ws, remotes, made, callback, counters>>
---------------------------------------------------------------------------
\* The reconciler.

\* It reads the cached copy, and goes no further if it says a creation is incomplete.
Start ==
    /\ reconcile.at = "idle"
    /\ cached.obj.state # "gone" /\ ~cached.obj.pending
    /\ reconcile' = [at |-> "connect", obj |-> cached.obj, fresh |-> cached.fresh, seen |-> "none"]
    /\ UNCHANGED <<mg, cached, ws, remotes, made, callback, counters>>

\* The connector opens the workspace, with a state of the recorded identifier if
\* there is none.
Connect ==
    /\ reconcile.at = "connect"
    /\ ws' = [ws EXCEPT !.there = TRUE, !.id = IF ws.id = NoId THEN reconcile.obj.name ELSE ws.id]
    /\ reconcile' = [reconcile EXCEPT !.at = "observe"]
    /\ UNCHANGED <<mg, cached, remotes, made, callback, counters>>

\* Mutant of ObserveRunning: an observation does not look at the operation under way.
ObserveRunningAbsent ==
    /\ reconcile.at = "observe" /\ Running
    /\ reconcile' = [reconcile EXCEPT !.at = "act",
                        !.seen = IF ws.id \in remotes THEN "same" ELSE "absent"]
    /\ UNCHANGED <<mg, cached, ws, remotes, made, callback, counters>>

\* An observation during an operation answers that there is nothing to do.
ObserveRunning ==
    /\ reconcile.at = "observe" /\ Running
    /\ reconcile' = [reconcile EXCEPT !.at = "act", !.seen = "busy"]
    /\ UNCHANGED <<mg, cached, ws, remotes, made, callback, counters>>

\* Mutant of Observe: the last operation is not cleared, so a failed destroy counts as done.
ObserveUncleared ==
    /\ reconcile.at = "observe" /\ ~Running
    /\ LET found == ws.id \in remotes
       IN  /\ ws' = [ws EXCEPT !.id = IF found THEN ws.id ELSE NoId]
           /\ \E seen \in IF ~found THEN {"absent"}
                          ELSE IF ws.id # reconcile.obj.name THEN {"named"}
                          ELSE {"same", "differs"} :
                reconcile' = [reconcile EXCEPT !.at = "act", !.seen = seen,
                                !.obj.name = IF found THEN ws.id ELSE @]
    /\ UNCHANGED <<mg, cached, remotes, made, callback, counters>>

\* Otherwise Terraform refreshes its state; a new identifier is noted on the copy, and
\* only a resource whose identifier is recorded is compared with its parameters.
Observe ==
    /\ reconcile.at = "observe" /\ ~Running
    /\ LET found == ws.id \in remotes
       IN  /\ ws' = [ws EXCEPT !.op = "none", !.phase = "idle", !.id = IF found THEN ws.id ELSE NoId]
           /\ \E seen \in IF ~found THEN {"absent"}
                          ELSE IF ws.id # reconcile.obj.name THEN {"named"}
                          ELSE {"same", "differs"} :
                reconcile' = [reconcile EXCEPT !.at = "act", !.seen = seen,
                                !.obj.name = IF found THEN ws.id ELSE @]
    /\ UNCHANGED <<mg, cached, remotes, made, callback, counters>>

Acts(seen) == reconcile.at = "act" /\ reconcile.seen \in seen
Deleting == reconcile.obj.state = "deleted"
Begun(op) == [ws EXCEPT !.op = op, !.phase = "running"]

\* Mutant of Writes: the API server takes a write of a stale copy as well.
WritesUnchecked(obj, at) ==
    /\ mg' = obj
    /\ cached' = [cached EXCEPT !.fresh = FALSE]
    /\ reconcile' = IF at = "idle" THEN Idle ELSE [reconcile EXCEPT !.at = at, !.obj = obj]

\* The reconciler writes its copy: of a stale one the API server refuses the write,
\* and the reconcile ends.
Writes(obj, at) ==
    IF reconcile.fresh
    THEN /\ mg' = obj
         /\ cached' = [cached EXCEPT !.fresh = FALSE]
         /\ reconcile' = IF at = "idle" THEN Idle ELSE [reconcile EXCEPT !.at = at, !.obj = obj]
    ELSE reconcile' = Idle /\ UNCHANGED <<mg, cached>>

\* Delete of the external resource: not while it is being applied, and once only.
Destroy ==
    /\ Acts({"busy", "named", "same", "differs"}) /\ Deleting
    /\ ws' = IF ws.op = "destroy" \/ Running THEN ws ELSE Begun("destroy")
    /\ reconcile' = Idle
    /\ UNCHANGED <<mg, cached, remotes, made, callback, counters>>

\* Mutant of RemoveWorkspace: the finalizer runs without the observation it belongs after.
RemoveUnobserved ==
    /\ Acts(Observations) /\ Deleting
    /\ ws' = NoWorkspace
    /\ reconcile' = [reconcile EXCEPT !.at = "release"]
    /\ UNCHANGED <<mg, cached, remotes, made, callback, counters>>

\* The finalizer of a deleted resource that has no external resource: the workspace
\* goes first, the finalizer in the API server second.
RemoveWorkspace ==
    /\ Acts({"absent"}) /\ Deleting
    /\ ws' = NoWorkspace
    /\ reconcile' = [reconcile EXCEPT !.at = "release"]
    /\ UNCHANGED <<mg, cached, remotes, made, callback, counters>>

Release ==
    /\ reconcile.at = "release"
    /\ Writes([Object EXCEPT !.state = "gone"], "idle")
    /\ UNCHANGED <<ws, remotes, made, callback, counters>>

AddFinalizer ==
    /\ Acts(Observations) /\ ~Deleting /\ ~reconcile.obj.finalizer
    /\ Writes([reconcile.obj EXCEPT !.finalizer = TRUE], "act")
    /\ UNCHANGED <<ws, remotes, made, callback, counters>>

Guarded(seen) == Acts(seen) /\ ~Deleting /\ reconcile.obj.finalizer

\* A creation is annotated as pending, started, and annotated as succeeded once it has
\* started: Create does not wait for Terraform.
Pend ==
    /\ Guarded({"absent"})
    /\ Writes([reconcile.obj EXCEPT !.pending = TRUE], "call")
    /\ UNCHANGED <<ws, remotes, made, callback, counters>>

Create ==
    /\ reconcile.at = "call"
    /\ ws' = IF Running THEN ws ELSE Begun("apply")
    /\ reconcile' = [reconcile EXCEPT !.at = "record"]
    /\ UNCHANGED <<mg, cached, remotes, made, callback, counters>>

\* This write is tried again on the latest copy.
Record ==
    /\ reconcile.at = "record"
    /\ IF mg.state = "gone" THEN UNCHANGED <<mg, cached>>
       ELSE /\ mg' = [mg EXCEPT !.pending = FALSE]
            /\ cached' = [cached EXCEPT !.fresh = FALSE]
    /\ reconcile' = Idle
    /\ UNCHANGED <<ws, remotes, made, callback, counters>>

\* Mutant of RecordName: an identifier that differs is compared, but never written.
RecordNoName ==
    /\ Guarded({"named"})
    /\ reconcile' = Idle
    /\ UNCHANGED <<mg, cached, ws, remotes, made, callback, counters>>

\* A new identifier is written together with late-initialised parameters.
RecordName ==
    /\ Guarded({"named"})
    /\ Writes(reconcile.obj, "idle")
    /\ UNCHANGED <<ws, remotes, made, callback, counters>>

Update ==
    /\ Guarded({"differs"})
    /\ ws' = IF Running THEN ws ELSE Begun("apply")
    /\ reconcile' = Idle
    /\ UNCHANGED <<mg, cached, remotes, made, callback, counters>>

Done ==
    /\ Guarded({"busy", "same"})
    /\ reconcile' = Idle
    /\ UNCHANGED <<mg, cached, ws, remotes, made, callback, counters>>

\* A step fails or the reconcile's three minutes are over; a creation whose result
\* cannot be written stays pending.
Fail ==
    /\ reconcile.at \notin {"idle", "call"} /\ faults < MaxFaults
    /\ reconcile' = Idle
    /\ faults' = faults + 1
    /\ UNCHANGED <<mg, cached, ws, remotes, made, callback, crashes, broken, vanished>>
---------------------------------------------------------------------------
\* Terraform in the background.

Ended(id) == [ws EXCEPT !.id = id, !.making = NoId, !.phase = "ended"]
StateId == IF ws.making # NoId THEN ws.making ELSE ws.id

\* An apply creates what its state does not have; the state is saved when it ends.
ApplyCreates ==
    /\ Running /\ ws.op = "apply" /\ ws.making = NoId /\ ws.id \notin remotes
    /\ made < MaxMade
    /\ made' = made + 1
    /\ remotes' = remotes \cup {made'}
    /\ ws' = [ws EXCEPT !.making = made']
    /\ UNCHANGED <<mg, cached, reconcile, callback, counters>>

ApplyEnds ==
    /\ Running /\ ws.op = "apply" /\ (ws.making # NoId \/ ws.id \in remotes)
    /\ ws' = Ended(StateId) /\ callback' = TRUE
    /\ UNCHANGED <<mg, cached, reconcile, remotes, made, counters>>

DestroyEnds ==
    /\ Running /\ ws.op = "destroy"
    /\ remotes' = remotes \ {ws.id}
    /\ ws' = Ended(NoId) /\ callback' = TRUE
    /\ UNCHANGED <<mg, cached, reconcile, made, counters>>

\* A run that fails, or that its deadline kills; a destroy may have had its effect all
\* the same.
RunFails ==
    /\ Running /\ faults < MaxFaults
    /\ ws' = Ended(StateId) /\ callback' = TRUE
    /\ faults' = faults + 1
    /\ UNCHANGED <<mg, cached, reconcile, remotes, made, crashes, broken, vanished>>

DestroyFailsLate ==
    /\ Running /\ ws.op = "destroy" /\ faults < MaxFaults
    /\ remotes' = remotes \ {ws.id}
    /\ ws' = Ended(ws.id) /\ callback' = TRUE
    /\ faults' = faults + 1
    /\ UNCHANGED <<mg, cached, reconcile, made, crashes, broken, vanished>>

\* Killed, or failing before the provider has set the identifier, a run leaves what it
\* created out of the state.
RunBreaksOff ==
    /\ Running /\ ws.making # NoId /\ broken < MaxBroken
    /\ ws' = Ended(ws.id) /\ callback' = TRUE
    /\ broken' = broken + 1
    /\ UNCHANGED <<mg, cached, reconcile, remotes, made, faults, crashes, vanished>>

\* The callback writes a condition to the status of the latest copy.
Callback ==
    /\ callback
    /\ callback' = FALSE
    /\ IF mg.state = "gone" THEN UNCHANGED <<mg, cached, reconcile>> ELSE Touched(mg)
    /\ UNCHANGED <<ws, remotes, made, counters>>
---------------------------------------------------------------------------
\* Mutant of Crash: the directory is lost, its operation is not.
CrashLosesDirectory ==
    /\ crashes < MaxCrashes
    /\ cached' = [obj |-> mg, fresh |-> TRUE]
    /\ reconcile' = Idle /\ ws' = [ws EXCEPT !.there = FALSE] /\ callback' = FALSE
    /\ crashes' = crashes + 1
    /\ UNCHANGED <<mg, remotes, made, faults, broken, vanished>>

\* A restart: the workspace directory, Terraform runs and callbacks are lost.
Crash ==
    /\ crashes < MaxCrashes
    /\ cached' = [obj |-> mg, fresh |-> TRUE]
    /\ reconcile' = Idle /\ ws' = NoWorkspace /\ callback' = FALSE
    /\ crashes' = crashes + 1
    /\ UNCHANGED <<mg, remotes, made, faults, broken, vanished>>

Vanish ==
    /\ vanished < MaxVanished
    /\ \E id \in remotes : remotes' = remotes \ {id}
    /\ vanished' = vanished + 1
    /\ UNCHANGED <<mg, cached, reconcile, ws, made, callback, faults, crashes, broken>>

Reconciles ==
    \/ Start \/ Connect \/ ObserveRunning \/ Observe
    \/ Destroy \/ RemoveWorkspace \/ Release
    \/ AddFinalizer \/ Pend \/ Create \/ Record \/ RecordName \/ Update \/ Done
Terraform == ApplyCreates \/ ApplyEnds \/ DestroyEnds

Next == \/ Delete \/ Sync \/ Reconciles \/ Fail \/ Terraform \/ RunFails \/ DestroyFailsLate
        \/ RunBreaksOff \/ Callback \/ Crash \/ Vanish

\* The watch delivers, the work queue runs a reconcile to its end and, by the poll
\* interval, starts the next, and Terraform runs end (they have a deadline).
Spec == /\ Init /\ [][Next]_vars
        /\ WF_vars(Sync) /\ WF_vars(Reconciles) /\ WF_vars(Terraform) /\ WF_vars(Callback)
---------------------------------------------------------------------------
\* The external resources the program still knows of, in the workspace or by name.
Known == remotes \cap {ws.id, ws.making, mg.name}
Orphans == remotes \ Known

\* Every external resource that is lost was lost by a crash or by a run that broke off
\* before it saved its state, one each at most: runs in the background, stale copies, failed
\* steps, timeouts of a reconcile and failed destructions never create a second external
\* resource or forget the first.
LossesAreExplained == Cardinality(Orphans) <= crashes + broken

\* The workspace finalizer never removes a workspace under a Terraform run, which would go
\* on without a place to save its state; only a crash ends a run that way.
NoRunIsAbandoned == [][(Running /\ ~ws'.there) => crashes' > crashes]_vars

\* The managed resource keeps the promise of ExternalResource.
External == INSTANCE ExternalResource
                WITH claim <- mg.state, managed <- Known, orphans <- Orphans, taken <- vanished
KeepsItsPromise == External!ASpec

---------------------------------------------------------------------------
\* What LossesAreExplained and KeepsItsPromise rest on, in parts.

\* Nobody has an identifier of an external resource that was never created.
NamesWereMade == {mg.name, cached.obj.name, reconcile.obj.name, ws.id, ws.making} \subseteq 0 .. made

\* The cached copy is the object, or an earlier state of it.
CopyTrails ==
    /\ cached.fresh => cached.obj = mg
    /\ cached.obj.state # "live" => mg.state # "live"
    /\ cached.obj.state = "live" /\ cached.obj.finalizer => mg.finalizer
    /\ cached.obj.name \in remotes => cached.obj.name = mg.name

\* So is the copy a reconcile works on, except for an identifier it has noted.
ReconcileTrails ==
    reconcile.at # "idle" =>
        /\ reconcile.obj.state # "gone"
        /\ reconcile.obj.state = "deleted" => cached.obj.state # "live"
        /\ reconcile.obj.state = "live" /\ reconcile.obj.finalizer => mg.finalizer
        /\ reconcile.obj.name \in remotes => reconcile.obj.name \in {mg.name, ws.id}
        /\ reconcile.fresh =>
               /\ reconcile.obj = [mg EXCEPT !.name = reconcile.obj.name]
               /\ \/ reconcile.obj.name = mg.name
                  \/ reconcile.at = "act" /\ reconcile.seen = "named"

\* What a reconcile has observed still holds when it acts on it.
ObservationHolds ==
    /\ reconcile.at \in {"observe", "act", "call", "record"} => ws.there
    /\ reconcile.at \in {"call", "record"} => mg.finalizer
    /\ reconcile.at = "act" =>
           /\ reconcile.seen # "none"
           /\ reconcile.seen # "busy" => ws.op = "none"
           /\ reconcile.seen = "absent" => ws.id = NoId
           /\ reconcile.seen \in {"named", "same", "differs"} => ws.id = reconcile.obj.name
           /\ reconcile.seen # "absent" => mg.finalizer
    /\ reconcile.at = "release" =>
           ws = NoWorkspace /\ mg.name \notin remotes /\ reconcile.obj.state = "deleted"

\* Without a finalizer the resource has nothing to lose, and the workspace and the
\* recorded identifier stand for the same external resource, unless a crash has just
\* removed the workspace; then every copy has that identifier.
WorkspaceAgrees ==
    /\ ws.making # NoId => Running /\ ws.op = "apply" /\ ws.id \notin remotes
    /\ ws.op = "destroy" => mg.state # "live"
    /\ mg.state = "gone" => ~mg.finalizer
    /\ ~mg.finalizer => ws.op = "none" /\ Known = {}
    /\ mg.name \in remotes /\ ws.id # mg.name =>
           /\ ~ws.there
           /\ cached.obj.name = mg.name
           /\ \/ reconcile.at = "idle"
              \/ reconcile.at = "connect" /\ reconcile.obj.name = mg.name

\* Whatever steps come in between, the program's copies, its observations and its workspace
\* agree with the API server about which external resource there is.
Bookkeeping ==
    NamesWereMade /\ CopyTrails /\ ReconcileTrails /\ ObservationHolds /\ WorkspaceAgrees
---------------------------------------------------------------------------
\* A creation whose result could not be annotated; only its user can go on.
Stuck == mg.pending /\ reconcile.at = "idle"

\* A live managed resource ends up with an external resource whose identifier is
\* recorded, whatever happened in between.
EndsUpRecorded == <>[](mg.state # "live" \/ Stuck \/ mg.name \in remotes)

\* A deleted one is released.
DeletionCompletes == (mg.state = "deleted") ~> (mg.state = "gone" \/ Stuck)
=============================================================================
