--------------------------- MODULE ReconcileProofs ---------------------------
(***************************************************************************)
(* What Reconcile keeps for every number of external resources, faults,    *)
(* crashes, broken-off runs and removals by others: its types, the books   *)
(* the program keeps of the external resource, that each one lost is       *)
(* accounted for by a crash or a run that broke off, that no Terraform run *)
(* is left without its workspace, and that the managed resource keeps the  *)
(* promise of ExternalResource.                                            *)
(***************************************************************************)
EXTENDS Reconcile, FiniteSetTheorems, TLAPS

---------------------------------------------------------------------------
\* What a change of one field does to an object, a reconcile and a workspace.

LEMMA ObjectChanges ==
    /\ Object \in Objects
    /\ [Object EXCEPT !.state = "gone"] \in Objects
    /\ \A obj \in Objects :
        /\ [obj EXCEPT !.finalizer = TRUE] \in Objects
        /\ \A p \in BOOLEAN : [obj EXCEPT !.pending = p] \in Objects
        /\ \A s \in {"live", "deleted", "gone"} : [obj EXCEPT !.state = s] \in Objects
        /\ \A id \in Ids \cup {NoId} : [obj EXCEPT !.name = id] \in Objects
BY DEF Object, Objects, NoId, Ids

Reconciling == [at : Places, obj : Objects, fresh : BOOLEAN, seen : Observations]

LEMMA ReconcileChanges ==
    /\ Idle \in Reconciling
    /\ \A rec \in Reconciling :
        /\ [rec EXCEPT !.fresh = FALSE] \in Reconciling
        /\ \A at \in Places : [rec EXCEPT !.at = at] \in Reconciling
        /\ \A at \in Places, seen \in Observations :
                [rec EXCEPT !.at = at, !.seen = seen] \in Reconciling
        /\ \A at \in Places, obj \in Objects : [rec EXCEPT !.at = at, !.obj = obj] \in Reconciling
BY ObjectChanges DEF Idle, Reconciling, Places, Observations

LEMMA WorkspaceChanges ==
    /\ NoWorkspace \in Workspaces
    /\ \A w \in Workspaces, id \in Ids \cup {NoId} :
        /\ [w EXCEPT !.there = TRUE, !.id = id] \in Workspaces
        /\ [w EXCEPT !.making = id] \in Workspaces
        /\ [w EXCEPT !.op = "none", !.phase = "idle", !.id = id] \in Workspaces
        /\ [w EXCEPT !.id = id, !.making = NoId, !.phase = "ended"] \in Workspaces
        /\ \A op \in {"apply", "destroy"} : [w EXCEPT !.op = op, !.phase = "running"] \in Workspaces
BY DEF NoWorkspace, Workspaces, NoId, Ids

WorkspaceOf(w) == w \in Workspaces /\ (~w.there => w = NoWorkspace)
                  /\ (w.op = "none" <=> w.phase = "idle")

LEMMA WorkspaceOfChanges ==
    /\ WorkspaceOf(NoWorkspace)
    /\ \A w \in Workspaces : WorkspaceOf(w) =>
        /\ \A id \in Ids \cup {NoId} :
            /\ WorkspaceOf([w EXCEPT !.there = TRUE, !.id = id])
            /\ w.there => WorkspaceOf([w EXCEPT !.op = "none", !.phase = "idle", !.id = id])
            /\ w.phase = "running" => WorkspaceOf([w EXCEPT !.making = id])
            /\ w.phase = "running" =>
                WorkspaceOf([w EXCEPT !.id = id, !.making = NoId, !.phase = "ended"])
        /\ \A op \in {"apply", "destroy"} :
            w.there => WorkspaceOf([w EXCEPT !.op = op, !.phase = "running"])
<1>1. WorkspaceOf(NoWorkspace)
    BY WorkspaceChanges DEF WorkspaceOf, NoWorkspace
<1> SUFFICES ASSUME NEW w \in Workspaces, WorkspaceOf(w)
    PROVE /\ \A id \in Ids \cup {NoId} :
            /\ WorkspaceOf([w EXCEPT !.there = TRUE, !.id = id])
            /\ w.there => WorkspaceOf([w EXCEPT !.op = "none", !.phase = "idle", !.id = id])
            /\ w.phase = "running" => WorkspaceOf([w EXCEPT !.making = id])
            /\ w.phase = "running" =>
                WorkspaceOf([w EXCEPT !.id = id, !.making = NoId, !.phase = "ended"])
        /\ \A op \in {"apply", "destroy"} :
            w.there => WorkspaceOf([w EXCEPT !.op = op, !.phase = "running"])
    BY <1>1
<1>2. w.phase = "running" => w.there
    BY DEF WorkspaceOf, NoWorkspace
<1>3. ASSUME NEW id \in Ids \cup {NoId} PROVE WorkspaceOf([w EXCEPT !.there = TRUE, !.id = id])
    <2> DEFINE new == [w EXCEPT !.there = TRUE, !.id = id]
    <2>1. new.there /\ new.op = w.op /\ new.phase = w.phase
        BY DEF Workspaces
    <2> QED
        BY <2>1, WorkspaceChanges DEF WorkspaceOf
<1>4. ASSUME NEW id \in Ids \cup {NoId}, w.there
      PROVE WorkspaceOf([w EXCEPT !.op = "none", !.phase = "idle", !.id = id])
    <2> DEFINE new == [w EXCEPT !.op = "none", !.phase = "idle", !.id = id]
    <2>1. new.there /\ new.op = "none" /\ new.phase = "idle"
        BY <1>4 DEF Workspaces
    <2> QED
        BY <2>1, WorkspaceChanges DEF WorkspaceOf
<1>5. ASSUME NEW id \in Ids \cup {NoId}, w.phase = "running"
      PROVE  WorkspaceOf([w EXCEPT !.making = id])
    <2> DEFINE new == [w EXCEPT !.making = id]
    <2>1. new.there /\ new.op = w.op /\ new.phase = w.phase
        BY <1>2, <1>5 DEF Workspaces
    <2> QED
        BY <2>1, WorkspaceChanges DEF WorkspaceOf
<1>6. ASSUME NEW id \in Ids \cup {NoId}, w.phase = "running"
      PROVE  WorkspaceOf([w EXCEPT !.id = id, !.making = NoId, !.phase = "ended"])
    <2> DEFINE new == [w EXCEPT !.id = id, !.making = NoId, !.phase = "ended"]
    <2>1. new.there /\ new.op = w.op /\ new.phase = "ended" /\ w.op # "none"
        BY <1>2, <1>6 DEF Workspaces, WorkspaceOf
    <2> QED
        BY <2>1, WorkspaceChanges DEF WorkspaceOf
<1>7. ASSUME NEW op \in {"apply", "destroy"}, w.there
      PROVE  WorkspaceOf([w EXCEPT !.op = op, !.phase = "running"])
    <2> DEFINE new == [w EXCEPT !.op = op, !.phase = "running"]
    <2>1. new.there /\ new.op = op /\ new.phase = "running"
        BY <1>7 DEF Workspaces
    <2>2. new \in Workspaces
        BY WorkspaceChanges, NoId \in Ids \cup {NoId} DEF NoId
    <2> QED
        BY <2>1, <2>2 DEF WorkspaceOf
<1> QED
    BY <1>3, <1>4, <1>5, <1>6, <1>7

---------------------------------------------------------------------------
\* Types, one part of the state at a time.

\* The program starts with the types right.
LEMMA TypeInit == Init => TypeOK
<1> SUFFICES ASSUME Init PROVE TypeOK
    OBVIOUS
<1>1. reconcile \in [at : Places, obj : Objects, fresh : BOOLEAN, seen : Observations]
    BY ObjectChanges DEF Init, Idle, Places, Observations
<1>2. mg \in Objects /\ cached \in [obj : Objects, fresh : BOOLEAN]
    BY ObjectChanges DEF Init
<1>3. ws \in Workspaces /\ (~ws.there => ws = NoWorkspace) /\ (ws.op = "none") = (ws.phase = "idle")
    BY WorkspaceChanges DEF Init, NoWorkspace
<1>4. remotes \subseteq 1 .. made /\ made \in 0 .. MaxMade
    BY ReconcileConstants DEF Init
<1>7. callback \in BOOLEAN
    BY DEF Init
<1>5. /\ faults \in 0 .. MaxFaults /\ crashes \in 0 .. MaxCrashes
      /\ broken \in 0 .. MaxBroken /\ vanished \in 0 .. MaxVanished
    BY ReconcileConstants DEF Init
<1> QED
    BY <1>1, <1>2, <1>3, <1>4, <1>5, <1>7 DEF TypeOK

ObjectTypes == mg \in Objects /\ cached \in [obj : Objects, fresh : BOOLEAN]
               /\ reconcile \in Reconciling

LEMMA WritesTypes ==
    ASSUME ObjectTypes, NEW obj \in Objects, NEW at \in Places, Writes(obj, at)
    PROVE  ObjectTypes'
<1>1. CASE ~reconcile.fresh
    BY <1>1, ReconcileChanges DEF ObjectTypes, Writes
<1>2. CASE reconcile.fresh
    <2>1. mg' = obj /\ cached' = [cached EXCEPT !.fresh = FALSE]
        BY <1>2 DEF Writes
    <2>2. reconcile' = IF at = "idle" THEN Idle ELSE [reconcile EXCEPT !.at = at, !.obj = obj]
        BY <1>2 DEF Writes
    <2>3. cached' \in [obj : Objects, fresh : BOOLEAN]
        BY <2>1 DEF ObjectTypes
    <2> QED
        BY <2>1, <2>2, <2>3, ReconcileChanges DEF ObjectTypes
<1> QED
    BY <1>1, <1>2

LEMMA TouchedTypes ==
    ASSUME ObjectTypes, NEW obj \in Objects, Touched(obj)
    PROVE  ObjectTypes'
BY ReconcileChanges DEF ObjectTypes, Touched

\* Every step keeps the types of the object and its copies.
LEMMA ObjectTypesStep == TypeOK /\ [Next]_vars => ObjectTypes'
<1> SUFFICES ASSUME TypeOK, [Next]_vars PROVE ObjectTypes'
    OBVIOUS
<1>0. ObjectTypes /\ ws \in Workspaces
    BY DEF TypeOK, ObjectTypes, Reconciling
<1>1. CASE Delete
    <2>1. [mg EXCEPT !.state = IF mg.finalizer THEN "deleted" ELSE "gone"] \in Objects
        BY <1>0, ObjectChanges DEF ObjectTypes
    <2> QED
        BY <1>0, <1>1, <2>1, TouchedTypes DEF Delete
<1>2. CASE Sync
    BY <1>0, <1>2 DEF Sync, ObjectTypes
<1>3. CASE Start
    BY <1>0, <1>3 DEF Start, ObjectTypes, Reconciling, Places, Observations
<1>4. CASE Connect
    BY <1>0, <1>4, ReconcileChanges DEF Connect, ObjectTypes, Places
<1>5. CASE ObserveRunning
    BY <1>0, <1>5, ReconcileChanges DEF ObserveRunning, ObjectTypes, Places, Observations
<1>6. CASE Observe
    <2>1. ASSUME NEW seen \in Observations, NEW id \in Ids \cup {NoId}
          PROVE  [reconcile EXCEPT !.at = "act", !.seen = seen, !.obj.name = id] \in Reconciling
        BY <1>0 DEF ObjectTypes, Reconciling, Places, Objects
    <2>2. PICK seen \in Observations :
            reconcile' = [reconcile EXCEPT !.at = "act", !.seen = seen,
                            !.obj.name = IF ws.id \in remotes THEN ws.id ELSE @]
        BY <1>6 DEF Observe, Observations
    <2>3. ws.id \in Ids \cup {NoId} /\ reconcile.obj.name \in Ids \cup {NoId}
        BY <1>0 DEF Workspaces, ObjectTypes, Reconciling, Objects
    <2>4. reconcile' \in Reconciling
        BY <2>1, <2>2, <2>3
    <2> QED
        BY <1>0, <1>6, <2>4 DEF Observe, ObjectTypes
<1>7. CASE Destroy \/ Done \/ Update \/ Fail
    BY <1>0, <1>7, ReconcileChanges DEF Destroy, Done, Update, Fail, ObjectTypes
<1>8. CASE RemoveWorkspace \/ Create
    BY <1>0, <1>8, ReconcileChanges DEF RemoveWorkspace, Create, ObjectTypes, Places
<1>9. CASE Release
    BY <1>0, <1>9, ObjectChanges, WritesTypes DEF Release, Places
<1>10. CASE AddFinalizer \/ Pend \/ RecordName
    <2>1. reconcile.obj \in Objects
        BY <1>0 DEF ObjectTypes, Reconciling
    <2> QED
        BY <1>0, <1>10, <2>1, ObjectChanges, WritesTypes DEF AddFinalizer, Pend, RecordName, Places
<1>11. CASE Record
    BY <1>0, <1>11, ObjectChanges, ReconcileChanges DEF Record, ObjectTypes
<1>12. CASE ApplyCreates \/ ApplyEnds \/ DestroyEnds \/ RunFails \/ DestroyFailsLate
            \/ RunBreaksOff \/ Vanish
    BY <1>0, <1>12
    DEF ApplyCreates, ApplyEnds, DestroyEnds, RunFails, DestroyFailsLate, RunBreaksOff, Vanish,
        ObjectTypes
<1>13. CASE Callback
    BY <1>0, <1>13, TouchedTypes DEF Callback, ObjectTypes
<1>14. CASE Crash
    BY <1>0, <1>14, ReconcileChanges DEF Crash, ObjectTypes
<1>15. CASE UNCHANGED vars
    BY <1>0, <1>15 DEF vars, ObjectTypes
<1> QED
    BY <1>1, <1>2, <1>3, <1>4, <1>5, <1>6, <1>7, <1>8, <1>9, <1>10, <1>11, <1>12, <1>13,
       <1>14, <1>15
    DEF Next, Reconciles, Terraform

\* Every step keeps the type of the workspace; that a run has one needs what a reconcile
\* observed before it started the run.
LEMMA WorkspaceTypesStep == TypeOK /\ ObservationHolds /\ [Next]_vars => WorkspaceOf(ws)'
<1> SUFFICES ASSUME TypeOK, ObservationHolds, [Next]_vars PROVE WorkspaceOf(ws)'
    OBVIOUS
<1>0. /\ WorkspaceOf(ws) /\ ws \in Workspaces
      /\ ws.id \in Ids \cup {NoId} /\ ws.making \in Ids \cup {NoId}
      /\ reconcile.obj.name \in Ids \cup {NoId} /\ NoId \in Ids \cup {NoId}
    BY DEF TypeOK, WorkspaceOf, Workspaces, Objects
<1>1. CASE Connect
    <2>1. ws' = [ws EXCEPT !.there = TRUE, !.id = IF ws.id = NoId THEN reconcile.obj.name ELSE ws.id]
        BY <1>1 DEF Connect
    <2> QED
        BY <1>0, <2>1, WorkspaceOfChanges
<1>2. CASE Observe
    <2>1. ws' = [ws EXCEPT !.op = "none", !.phase = "idle",
                    !.id = IF ws.id \in remotes THEN ws.id ELSE NoId] /\ ws.there
        BY <1>2 DEF Observe, ObservationHolds
    <2> QED
        BY <1>0, <2>1, WorkspaceOfChanges
<1>3. CASE Destroy \/ Create \/ Update
    <2>1. ws.there
        BY <1>3 DEF Destroy, Create, Update, Guarded, Acts, ObservationHolds
    <2>2. ws' = ws \/ ws' = Begun("apply") \/ ws' = Begun("destroy")
        BY <1>3 DEF Destroy, Create, Update
    <2> QED
        BY <1>0, <2>1, <2>2, WorkspaceOfChanges DEF Begun
<1>4. CASE RemoveWorkspace \/ Crash
    BY <1>4, WorkspaceOfChanges DEF RemoveWorkspace, Crash
<1>5. CASE ApplyCreates
    <2>1. made' \in Ids /\ ws' = [ws EXCEPT !.making = made'] /\ ws.phase = "running"
        BY <1>5, ReconcileConstants DEF ApplyCreates, TypeOK, Ids, Running
    <2> QED
        BY <1>0, <2>1, WorkspaceOfChanges
<1>6. CASE ApplyEnds \/ DestroyEnds \/ RunFails \/ DestroyFailsLate \/ RunBreaksOff
    <2>1. ws.phase = "running" /\ \E id \in {StateId, NoId, ws.id} : ws' = Ended(id)
        BY <1>6 DEF ApplyEnds, DestroyEnds, RunFails, DestroyFailsLate, RunBreaksOff, Running
    <2>2. StateId \in Ids \cup {NoId}
        BY <1>0 DEF StateId
    <2>3. PICK id \in Ids \cup {NoId} :
                ws' = [ws EXCEPT !.id = id, !.making = NoId, !.phase = "ended"]
        BY <1>0, <2>1, <2>2 DEF Ended
    <2>4. WorkspaceOf([ws EXCEPT !.id = id, !.making = NoId, !.phase = "ended"])
        BY <1>0, <2>1, WorkspaceOfChanges
    <2> QED
        BY <2>3, <2>4
<1>7. CASE Delete \/ Sync \/ Start \/ ObserveRunning \/ Release \/ AddFinalizer \/ Pend \/ Record
           \/ RecordName \/ Done \/ Fail \/ Callback \/ Vanish \/ UNCHANGED vars
    BY <1>0, <1>7
    DEF Delete, Sync, Start, ObserveRunning, Release, AddFinalizer, Pend, Record, RecordName, Done,
        Fail, Callback, Vanish, vars
<1> QED
    BY <1>1, <1>2, <1>3, <1>4, <1>5, <1>6, <1>7 DEF Next, Reconciles, Terraform

RemoteTypes == remotes \subseteq 1 .. made /\ made \in 0 .. MaxMade
CounterTypes ==
    /\ faults \in 0 .. MaxFaults /\ crashes \in 0 .. MaxCrashes
    /\ broken \in 0 .. MaxBroken /\ vanished \in 0 .. MaxVanished

\* callback is Boolean.
LEMMA CallbackTypesStep == TypeOK /\ [Next]_vars => callback' \in BOOLEAN
<1> SUFFICES ASSUME TypeOK, [Next]_vars PROVE callback' = callback \/ callback' = TRUE \/ callback' = FALSE
    BY DEF TypeOK
<1>1. CASE Delete \/ Sync \/ Reconciles \/ Fail
    BY <1>1
    DEF Delete, Sync, Reconciles, Start, Connect, ObserveRunning, Observe, Destroy, RemoveWorkspace,
        Release, AddFinalizer, Pend, Create, Record, RecordName, Update, Done, Fail
<1>2. CASE Terraform \/ RunFails \/ DestroyFailsLate \/ RunBreaksOff \/ Callback \/ Crash \/ Vanish
    BY <1>2 DEF Terraform, ApplyCreates, ApplyEnds, DestroyEnds, RunFails, DestroyFailsLate,
                RunBreaksOff, Callback, Crash, Vanish
<1>3. CASE UNCHANGED vars
    BY <1>3 DEF vars
<1> QED
    BY <1>1, <1>2, <1>3 DEF Next

\* Identifiers and counters stay within their bounds.
LEMMA CounterTypesStep == TypeOK /\ [Next]_vars => RemoteTypes' /\ CounterTypes'
<1> SUFFICES ASSUME TypeOK, [Next]_vars
             PROVE  RemoteTypes' /\ CounterTypes'
    OBVIOUS
<1>0. RemoteTypes /\ CounterTypes
    BY DEF TypeOK, RemoteTypes, CounterTypes
<1> USE ReconcileConstants DEF RemoteTypes, CounterTypes, counters
<1>1. CASE ApplyCreates
    BY <1>0, <1>1 DEF ApplyCreates
<1>2. CASE ApplyEnds \/ DestroyEnds
    BY <1>0, <1>2 DEF ApplyEnds, DestroyEnds
<1>3. CASE RunFails \/ DestroyFailsLate \/ Fail
    <2>1. /\ faults' = faults + 1 /\ faults < MaxFaults /\ remotes' \subseteq remotes
          /\ UNCHANGED <<made, crashes, broken, vanished>>
        BY <1>3 DEF RunFails, DestroyFailsLate, Fail
    <2> QED
        BY <1>0, <2>1
<1>9. CASE RunBreaksOff
    BY <1>0, <1>9 DEF RunBreaksOff
<1>4. CASE Callback
    BY <1>0, <1>4 DEF Callback
<1>7. CASE Crash
    BY <1>0, <1>7 DEF Crash
<1>8. CASE Vanish
    BY <1>0, <1>8 DEF Vanish
<1>5. CASE Delete \/ Sync \/ Reconciles
    BY <1>0, <1>5
    DEF Delete, Sync, Reconciles, Start, Connect, ObserveRunning, Observe, Destroy, RemoveWorkspace,
        Release, AddFinalizer, Pend, Create, Record, RecordName, Update, Done
<1>6. CASE UNCHANGED vars
    BY <1>0, <1>6 DEF vars
<1> QED
    BY <1>1, <1>2, <1>3, <1>4, <1>5, <1>6, <1>7, <1>8, <1>9 DEF Next, Terraform

LEMMA TypeStep == TypeOK /\ Bookkeeping /\ [Next]_vars => TypeOK'
<1> SUFFICES ASSUME TypeOK, Bookkeeping, [Next]_vars PROVE TypeOK'
    OBVIOUS
<1>1. ObjectTypes' /\ RemoteTypes' /\ CounterTypes'
    BY ObjectTypesStep, CounterTypesStep
<1>2. WorkspaceOf(ws)'
    BY WorkspaceTypesStep DEF Bookkeeping
<1>3. callback' \in BOOLEAN
    BY CallbackTypesStep
<1> QED
    BY <1>1, <1>2, <1>3 DEF TypeOK, ObjectTypes, Reconciling, RemoteTypes, CounterTypes, WorkspaceOf
---------------------------------------------------------------------------
\* The books, one part at a time, one case per action.

\* What every step starts from.
Before ==
    /\ mg \in Objects /\ cached.obj \in Objects /\ reconcile.obj \in Objects
    /\ cached \in [obj : Objects, fresh : BOOLEAN]
    /\ reconcile \in [at : Places, obj : Objects, fresh : BOOLEAN, seen : Observations]
    /\ ws \in Workspaces /\ (~ws.there => ws = NoWorkspace)
    /\ (Running => ws.there /\ ws.op # "none")
    /\ remotes \subseteq 1 .. made /\ made \in Nat /\ NoId \notin remotes
    /\ NamesWereMade /\ CopyTrails /\ ReconcileTrails /\ ObservationHolds /\ WorkspaceAgrees

LEMMA BeforeAStep == TypeOK /\ Bookkeeping => Before
BY ReconcileConstants
DEF TypeOK, Bookkeeping, Before, Running, NoWorkspace, NoId, Workspaces

LEMMA BooksInit == Init => Bookkeeping
BY DEF Init, Bookkeeping, NamesWereMade, CopyTrails, ReconcileTrails, ObservationHolds,
       WorkspaceAgrees, Known, Object, Idle, NoWorkspace, NoId

\* Every step keeps the identifiers known: a new one comes with the resource it names.
LEMMA NamesStep == TypeOK /\ Bookkeeping /\ [Next]_vars => NamesWereMade'
<1> SUFFICES ASSUME TypeOK, Bookkeeping, [Next]_vars PROVE NamesWereMade'
    OBVIOUS
<1>0. Before /\ Idle.obj.name = NoId /\ NoWorkspace.id = NoId /\ NoWorkspace.making = NoId
    BY BeforeAStep DEF NoId, Idle, Object, NoWorkspace
<1> USE DEF Before
<1>a. {mg.name, cached.obj.name, reconcile.obj.name, ws.id, ws.making, NoId} \subseteq 0 .. made
    BY <1>0 DEF NamesWereMade, NoId
<1> USE DEF NamesWereMade
<1>1. CASE Delete \/ Callback
    BY <1>0, <1>a, <1>1 DEF Delete, Callback, Touched, Objects
<1>2. CASE Sync
    BY <1>0, <1>a, <1>2 DEF Sync
<1>3. CASE Start \/ ObserveRunning
    <2>1. reconcile'.obj \in {reconcile.obj, cached.obj} /\ UNCHANGED <<mg, cached, ws, made>>
        <3>1. CASE Start
            BY <3>1 DEF Start
        <3>2. CASE ObserveRunning
            BY <1>0, <1>a, <3>2 DEF ObserveRunning
        <3> QED
            BY <1>3, <3>1, <3>2
    <2> QED
        BY <1>0, <1>a, <2>1
<1>4. CASE Done \/ Fail \/ Crash
    BY <1>0, <1>a, <1>4 DEF Done, Fail, Crash
<1>5. CASE RemoveWorkspace
    BY <1>0, <1>a, <1>5 DEF RemoveWorkspace
<1>6. CASE Connect
    BY <1>0, <1>a, <1>6 DEF Connect, Workspaces
<1>7. CASE Observe
    BY <1>0, <1>a, <1>7 DEF Observe, Workspaces, Objects, NoId
<1>8. CASE Destroy \/ Create \/ Update
    <2>1. ws'.id = ws.id /\ ws'.making = ws.making
        BY <1>0, <1>a, <1>8 DEF Destroy, Create, Update, Begun, Workspaces
    <2>2. /\ UNCHANGED <<mg, cached, made>>
          /\ reconcile' = Idle \/ reconcile'.obj = reconcile.obj
        BY <1>0, <1>a, <1>8 DEF Destroy, Create, Update
    <2> QED
        BY <1>0, <1>a, <2>1, <2>2
<1>9. CASE Release \/ AddFinalizer \/ Pend \/ RecordName
    <2>1. UNCHANGED <<ws, made>>
        BY <1>9 DEF Release, AddFinalizer, Pend, RecordName
    <2>2. mg' = mg \/ mg'.name \in {NoId, reconcile.obj.name}
        BY <1>0, <1>a, <1>9
        DEF Release, AddFinalizer, Pend, RecordName, Writes, Object, Objects, NoId
    <2>3. cached'.obj = cached.obj
        BY <1>0, <1>a, <1>9 DEF Release, AddFinalizer, Pend, RecordName, Writes
    <2>4. reconcile'.obj.name \in {NoId, reconcile.obj.name}
        <3>1. CASE Release \/ RecordName
            BY <1>0, <1>a, <3>1 DEF Release, RecordName, Writes
        <3>2. CASE AddFinalizer
            <4>1. [reconcile.obj EXCEPT !.finalizer = TRUE].name = reconcile.obj.name
                BY <1>0 DEF Objects
            <4>2. CASE reconcile.fresh
                <5>1. reconcile'.obj = [reconcile.obj EXCEPT !.finalizer = TRUE]
                    BY <1>0, <3>2, <4>2 DEF AddFinalizer, Writes
                <5> QED
                    BY <4>1, <5>1
            <4>3. CASE ~reconcile.fresh
                BY <1>0, <3>2, <4>3 DEF AddFinalizer, Writes
            <4> QED
                BY <4>2, <4>3
        <3>3. CASE Pend
            <4>1. [reconcile.obj EXCEPT !.pending = TRUE].name = reconcile.obj.name
                BY <1>0 DEF Objects
            <4>2. CASE reconcile.fresh
                <5>1. reconcile'.obj = [reconcile.obj EXCEPT !.pending = TRUE]
                    BY <1>0, <3>3, <4>2 DEF Pend, Writes
                <5> QED
                    BY <4>1, <5>1
            <4>3. CASE ~reconcile.fresh
                BY <1>0, <3>3, <4>3 DEF Pend, Writes
            <4> QED
                BY <4>2, <4>3
        <3> QED
            BY <1>9, <3>1, <3>2, <3>3
    <2> QED
        BY <1>0, <1>a, <2>1, <2>2, <2>3, <2>4
<1>10. CASE Record
    BY <1>0, <1>a, <1>10 DEF Record, Objects
<1>11. CASE ApplyCreates
    BY <1>0, <1>a, <1>11 DEF ApplyCreates, Workspaces
<1>12. CASE ApplyEnds \/ DestroyEnds \/ RunFails \/ DestroyFailsLate \/ RunBreaksOff
    <2>1. /\ ws'.id \in {StateId, NoId, ws.id} /\ ws'.making = NoId
          /\ UNCHANGED <<mg, cached, reconcile, made>>
        BY <1>0, <1>a, <1>12
        DEF ApplyEnds, DestroyEnds, RunFails, DestroyFailsLate, RunBreaksOff, Ended, Workspaces
    <2>2. StateId \in 0 .. made
        BY <1>0, <1>a DEF StateId
    <2> QED
        BY <1>0, <1>a, <2>1, <2>2
<1>13. CASE Vanish \/ UNCHANGED vars
    BY <1>0, <1>a, <1>13 DEF Vanish, vars
<1> QED
    BY <1>1, <1>2, <1>3, <1>4, <1>5, <1>6, <1>7, <1>8, <1>9, <1>10, <1>11, <1>12, <1>13
    DEF Next, Reconciles, Terraform

\* Every step keeps the cached copy an earlier state of the object.
LEMMA CopyStep == TypeOK /\ Bookkeeping /\ [Next]_vars => CopyTrails'
<1> SUFFICES ASSUME TypeOK, Bookkeeping, [Next]_vars PROVE CopyTrails'
    OBVIOUS
<1>0. Before /\ cached.obj.name \in 0 .. made
    BY BeforeAStep DEF Before, NamesWereMade
<1> USE DEF Before
<1>1. CASE Delete
    BY <1>0, <1>1 DEF Delete, Touched, CopyTrails, Objects
<1>2. CASE Sync
    BY <1>0, <1>2 DEF Sync, CopyTrails, Objects
<1>3. CASE Start \/ Connect \/ ObserveRunning \/ Observe \/ Destroy \/ RemoveWorkspace \/ Create
           \/ Update \/ Done \/ Fail \/ ApplyEnds \/ RunFails \/ RunBreaksOff \/ UNCHANGED vars
    <2>1. UNCHANGED <<mg, cached, remotes>>
        BY <1>3 DEF Start, Connect, ObserveRunning, Observe, Destroy, RemoveWorkspace, Create,
                    Update, Done, Fail, ApplyEnds, RunFails, RunBreaksOff, vars
    <2> QED
        BY <1>0, <2>1 DEF CopyTrails
<1>4. CASE Release
    <2>1. reconcile.fresh => /\ cached.obj.state # "live"
                             /\ mg.name \notin remotes
        BY <1>4 DEF Release, Bookkeeping, ReconcileTrails, ObservationHolds
    <2>2. reconcile.fresh => /\ mg' = [Object EXCEPT !.state = "gone"]
                             /\ cached' = [cached EXCEPT !.fresh = FALSE]
                             /\ UNCHANGED remotes
        BY <1>4 DEF Release, Writes
    <2>3. ~reconcile.fresh => UNCHANGED <<mg, cached, remotes>>
        BY <1>4 DEF Release, Writes
    <2>4. CASE reconcile.fresh
        BY <1>0, <2>1, <2>2, <2>4 DEF CopyTrails, Object, Objects
    <2> QED
        BY <1>0, <2>3, <2>4 DEF CopyTrails
<1>5. CASE AddFinalizer \/ Pend \/ RecordName
    <2>1. CASE reconcile.fresh
        <3>1. /\ cached' = [cached EXCEPT !.fresh = FALSE] /\ UNCHANGED remotes
              /\ mg'.state = mg.state /\ mg'.name = reconcile.obj.name
              /\ mg.finalizer => mg'.finalizer
              /\ reconcile.at = "act"
            BY <1>0, <1>5, <2>1 DEF AddFinalizer, Pend, RecordName, Guarded, Acts, Writes, Bookkeeping,
                               ReconcileTrails, Objects
        <3>2. reconcile.obj.name = mg.name \/ reconcile.obj.name = ws.id
            BY <2>1, <3>1 DEF Bookkeeping, ReconcileTrails, ObservationHolds
        <3>3. mg.name \in remotes => mg.name = ws.id
            BY <3>1 DEF Bookkeeping, ObservationHolds, WorkspaceAgrees
        <3> QED
            BY <1>0, <3>1, <3>2, <3>3 DEF CopyTrails
    <2>2. CASE ~reconcile.fresh
        BY <1>0, <1>5, <2>2 DEF AddFinalizer, Pend, RecordName, Guarded, Writes, CopyTrails
    <2> QED
        BY <2>1, <2>2
<1>6. CASE Record
    BY <1>0, <1>6 DEF Record, CopyTrails, Objects
<1>7. CASE ApplyCreates
    BY <1>0, <1>7 DEF ApplyCreates, CopyTrails, Objects, Ids
<1>8. CASE DestroyEnds \/ DestroyFailsLate \/ Vanish
    BY <1>0, <1>8 DEF DestroyEnds, DestroyFailsLate, Vanish, CopyTrails
<1>9. CASE Callback
    BY <1>0, <1>9 DEF Callback, Touched, CopyTrails, Objects
<1>10. CASE Crash
    BY <1>0, <1>10 DEF Crash, CopyTrails, Objects
<1> QED
    BY <1>1, <1>2, <1>3, <1>4, <1>5, <1>6, <1>7, <1>8, <1>9, <1>10 DEF Next, Reconciles, Terraform

\* Every step keeps the reconcile's copy an earlier state of the object.
LEMMA ReconcileTrailsStep == TypeOK /\ Bookkeeping /\ [Next]_vars => ReconcileTrails'
<1> SUFFICES ASSUME TypeOK, Bookkeeping, [Next]_vars PROVE ReconcileTrails'
    OBVIOUS
<1>0. Before
    BY BeforeAStep
<1> USE DEF Before
<1>1. CASE Delete
    BY <1>0, <1>1 DEF Delete, Touched, ReconcileTrails
<1>2. CASE Sync
    BY <1>0, <1>2 DEF Sync, CopyTrails, ReconcileTrails
<1>3. CASE Start
    <2>1. mg = [mg EXCEPT !.name = mg.name]
        BY <1>0 DEF Objects
    <2> QED
        BY <1>0, <1>3, <2>1 DEF Start, CopyTrails, ReconcileTrails
<1>4. CASE Connect
    BY <1>0, <1>4 DEF Connect, ReconcileTrails, Workspaces
<1>5. CASE ObserveRunning
    BY <1>0, <1>5 DEF ObserveRunning, ReconcileTrails
<1>6. CASE Observe
    <2>1. /\ UNCHANGED <<mg, cached, remotes>> /\ reconcile.at = "observe"
          /\ reconcile'.at = "act" /\ reconcile'.fresh = reconcile.fresh
          /\ reconcile'.obj = [reconcile.obj EXCEPT !.name = IF ws.id \in remotes THEN ws.id ELSE @]
          /\ ws'.id = IF ws.id \in remotes THEN ws.id ELSE NoId
        BY <1>0, <1>6 DEF Observe, Workspaces
    <2>2. ws.id \in remotes /\ ws.id # reconcile.obj.name => reconcile'.seen = "named"
        BY <1>0, <1>6 DEF Observe
    <2>3. /\ reconcile'.obj.state = reconcile.obj.state
          /\ reconcile'.obj.finalizer = reconcile.obj.finalizer
          /\ reconcile'.obj.name = IF ws.id \in remotes THEN ws.id ELSE reconcile.obj.name
        BY <1>0, <2>1 DEF Objects
    <2>4. reconcile.obj = [mg EXCEPT !.name = reconcile.obj.name]
             => reconcile'.obj = [mg EXCEPT !.name = reconcile'.obj.name]
        BY <1>0, <2>1 DEF Objects
    <2> QED
        BY <1>0, <2>1, <2>2, <2>3, <2>4 DEF ReconcileTrails
<1>7. CASE Destroy \/ Record \/ Update \/ Done \/ Fail \/ Crash
    BY <1>7 DEF Destroy, Record, Update, Done, Fail, Crash, Idle, ReconcileTrails
<1>8. CASE RemoveWorkspace
    BY <1>0, <1>8 DEF RemoveWorkspace, Acts, ReconcileTrails, ObservationHolds
<1>9. CASE Release \/ RecordName
    BY <1>9 DEF Release, RecordName, Writes, Idle, ReconcileTrails
<1>10. CASE AddFinalizer
    <2>1. CASE reconcile.fresh
        <3> DEFINE new == [reconcile.obj EXCEPT !.finalizer = TRUE]
        <3>1. /\ mg' = new /\ reconcile' = [reconcile EXCEPT !.at = "act", !.obj = new]
              /\ reconcile.obj.state # "deleted" /\ reconcile.obj.state # "gone"
            BY <1>0, <1>10, <2>1 DEF AddFinalizer, Writes, Acts, Deleting, ReconcileTrails
        <3>2. new.state = reconcile.obj.state /\ new.finalizer
              /\ new = [new EXCEPT !.name = new.name]
            BY <1>0 DEF Objects
        <3>3. reconcile'.obj = new
            BY <1>0, <3>1
        <3> HIDE DEF new
        <3> QED
            BY <3>1, <3>2, <3>3 DEF ReconcileTrails
    <2>2. CASE ~reconcile.fresh
        BY <1>10, <2>2 DEF AddFinalizer, Writes, Idle, ReconcileTrails
    <2> QED
        BY <2>1, <2>2
<1>11. CASE Pend
    <2>1. CASE reconcile.fresh
        <3> DEFINE new == [reconcile.obj EXCEPT !.pending = TRUE]
        <3>1. /\ mg' = new /\ reconcile' = [reconcile EXCEPT !.at = "call", !.obj = new]
              /\ reconcile.obj.state # "deleted" /\ reconcile.obj.state # "gone"
              /\ reconcile.obj.finalizer
            BY <1>0, <1>11, <2>1 DEF Pend, Writes, Guarded, Acts, Deleting, ReconcileTrails
        <3>2. new.state = reconcile.obj.state /\ new.finalizer = reconcile.obj.finalizer
              /\ new = [new EXCEPT !.name = new.name]
            BY <1>0 DEF Objects
        <3>3. reconcile'.obj = new
            BY <1>0, <3>1
        <3> HIDE DEF new
        <3> QED
            BY <3>1, <3>2, <3>3 DEF ReconcileTrails
    <2>2. CASE ~reconcile.fresh
        BY <1>11, <2>2 DEF Pend, Writes, Idle, ReconcileTrails
    <2> QED
        BY <2>1, <2>2
<1>12. CASE Create
    <2>1. ws'.id = ws.id
        BY <1>0, <1>12 DEF Create, Begun, Workspaces
    <2> QED
        BY <1>0, <1>12, <2>1 DEF Create, ReconcileTrails
<1>13. CASE ApplyCreates
    <2>1. ws'.id = ws.id
        BY <1>0, <1>13 DEF ApplyCreates, Workspaces
    <2> QED
        BY <1>0, <1>13, <2>1 DEF ApplyCreates, NamesWereMade, ReconcileTrails
<1>14. CASE ApplyEnds \/ RunFails
    <2>1. ws'.id = StateId /\ UNCHANGED <<mg, cached, reconcile, remotes>>
        BY <1>0, <1>14 DEF ApplyEnds, RunFails, Ended, Workspaces
    <2>2. ws.id \in remotes => StateId = ws.id
        BY <1>0 DEF StateId, WorkspaceAgrees
    <2> QED
        BY <1>0, <2>1, <2>2 DEF ReconcileTrails
<1>15. CASE DestroyEnds
    BY <1>0, <1>15 DEF DestroyEnds, ReconcileTrails
<1>18. CASE DestroyFailsLate \/ RunBreaksOff
    <2>1. ws'.id = ws.id /\ UNCHANGED <<mg, cached, reconcile>> /\ remotes' \subseteq remotes
        BY <1>0, <1>18 DEF DestroyFailsLate, RunBreaksOff, Ended, Workspaces
    <2> QED
        BY <1>0, <2>1 DEF ReconcileTrails
<1>16. CASE Callback
    BY <1>0, <1>16 DEF Callback, Touched, ReconcileTrails
<1>17. CASE Vanish \/ UNCHANGED vars
    BY <1>0, <1>17 DEF Vanish, vars, ReconcileTrails
<1> QED
    BY <1>1, <1>2, <1>3, <1>4, <1>5, <1>6, <1>7, <1>8, <1>9, <1>10, <1>11, <1>12, <1>13,
       <1>14, <1>15, <1>16, <1>17, <1>18
    DEF Next, Reconciles, Terraform

\* No step of anyone undoes what the reconcile under way has observed.
LEMMA ObservationHoldsStep == TypeOK /\ Bookkeeping /\ [Next]_vars => ObservationHolds'
<1> SUFFICES ASSUME TypeOK, Bookkeeping, [Next]_vars PROVE ObservationHolds'
    OBVIOUS
<1>0. Before
    BY BeforeAStep
<1> USE DEF Before
<1>1. CASE Delete
    <2>1. mg'.finalizer = mg.finalizer /\ mg'.name = mg.name
        BY <1>0, <1>1 DEF Delete, Touched, Objects
    <2> QED
        BY <1>0, <1>1, <2>1 DEF Delete, Touched, ObservationHolds
<1>2. CASE Sync
    BY <1>0, <1>2 DEF Sync, ObservationHolds
<1>3. CASE Start
    BY <1>0, <1>3 DEF Start, ObservationHolds
<1>4. CASE Connect
    BY <1>0, <1>4 DEF Connect, ObservationHolds, Workspaces
<1>5. CASE ObserveRunning
    BY <1>0, <1>5 DEF ObserveRunning, ObservationHolds, WorkspaceAgrees
<1>6. CASE Observe
    <2>1. /\ UNCHANGED <<mg, remotes>> /\ ws.there
          /\ reconcile'.at = "act"
          /\ ws'.there = ws.there /\ ws'.op = "none"
          /\ ws'.id = IF ws.id \in remotes THEN ws.id ELSE NoId
        BY <1>0, <1>6 DEF Observe, Workspaces, ObservationHolds
    <2>2. IF ws.id \in remotes
          THEN reconcile'.seen \in {"named", "same", "differs"} /\ reconcile'.obj.name = ws.id
          ELSE reconcile'.seen = "absent"
        BY <1>0, <1>6 DEF Observe, Objects
    <2>3. ws.id \in remotes => mg.finalizer
        BY <1>0 DEF WorkspaceAgrees, Known
    <2> QED
        BY <1>0, <2>1, <2>2, <2>3 DEF ObservationHolds
<1>7. CASE Destroy \/ Record \/ Update \/ Done \/ Fail \/ Crash
    BY <1>7 DEF Destroy, Record, Update, Done, Fail, Crash, Idle, ObservationHolds
<1>8. CASE RemoveWorkspace
    BY <1>0, <1>8 DEF RemoveWorkspace, Acts, Deleting, ObservationHolds, WorkspaceAgrees
<1>9. CASE Release \/ RecordName
    BY <1>9 DEF Release, RecordName, Writes, Idle, ObservationHolds
<1>10. CASE AddFinalizer
    <2>1. CASE reconcile.fresh
        <3> DEFINE new == [reconcile.obj EXCEPT !.finalizer = TRUE]
        <3>1. /\ mg' = new /\ reconcile' = [reconcile EXCEPT !.at = "act", !.obj = new]
              /\ UNCHANGED <<ws, remotes>> /\ reconcile.at = "act"
            BY <1>10, <2>1 DEF AddFinalizer, Writes, Acts
        <3>2. new.finalizer /\ new.name = reconcile.obj.name
            BY <1>0 DEF Objects
        <3>3. reconcile'.obj = new /\ reconcile'.at = "act" /\ reconcile'.seen = reconcile.seen
            BY <1>0, <3>1
        <3> HIDE DEF new
        <3> QED
            BY <1>0, <3>1, <3>2, <3>3 DEF ObservationHolds
    <2>2. CASE ~reconcile.fresh
        BY <1>10, <2>2 DEF AddFinalizer, Writes, Idle, ObservationHolds
    <2> QED
        BY <2>1, <2>2
<1>11. CASE Pend
    <2>1. CASE reconcile.fresh
        BY <1>0, <1>11, <2>1 DEF Pend, Writes, Guarded, Acts, Objects, ObservationHolds
    <2>2. CASE ~reconcile.fresh
        BY <1>11, <2>2 DEF Pend, Writes, Idle, ObservationHolds
    <2> QED
        BY <2>1, <2>2
<1>12. CASE Create
    <2>1. ws'.there = ws.there
        BY <1>0, <1>12 DEF Create, Begun, Workspaces
    <2> QED
        BY <1>0, <1>12, <2>1 DEF Create, ObservationHolds
<1>13. CASE ApplyCreates \/ ApplyEnds \/ DestroyEnds \/ RunFails \/ DestroyFailsLate
            \/ RunBreaksOff
    <2>1. ws'.there /\ UNCHANGED <<mg, cached, reconcile>> /\ Running
        BY <1>0, <1>13 DEF ApplyCreates, ApplyEnds, DestroyEnds, RunFails, DestroyFailsLate,
                           RunBreaksOff, Ended, Workspaces
    <2>2. reconcile.at # "release"
        BY <1>0, <2>1 DEF ObservationHolds, NoWorkspace
    <2>3. reconcile.at = "act" => reconcile.seen = "busy"
        BY <1>0, <2>1 DEF ObservationHolds
    <2> QED
        BY <1>0, <2>1, <2>2, <2>3 DEF ObservationHolds
<1>14. CASE Callback
    BY <1>0, <1>14 DEF Callback, Touched, ObservationHolds
<1>15. CASE Vanish \/ UNCHANGED vars
    BY <1>0, <1>15 DEF Vanish, vars, ObservationHolds
<1> QED
    BY <1>1, <1>2, <1>3, <1>4, <1>5, <1>6, <1>7, <1>8, <1>9, <1>10, <1>11, <1>12, <1>13,
       <1>14, <1>15
    DEF Next, Reconciles, Terraform

\* Every step keeps the workspace and the recorded identifier in agreement.
LEMMA WorkspaceAgreesStep == TypeOK /\ Bookkeeping /\ [Next]_vars => WorkspaceAgrees'
<1> SUFFICES ASSUME TypeOK, Bookkeeping, [Next]_vars PROVE WorkspaceAgrees'
    OBVIOUS
<1>0. Before
    BY BeforeAStep
<1> USE DEF Before
<1> USE DEF Running, Known
<1>1. CASE Delete
    <2>1. mg'.finalizer = mg.finalizer /\ mg'.name = mg.name /\ mg'.state # "live"
          /\ (mg'.state = "gone" => ~mg.finalizer)
        BY <1>0, <1>1 DEF Delete, Touched, Objects
    <2> QED
        BY <1>0, <1>1, <2>1 DEF Delete, Touched, WorkspaceAgrees
<1>2. CASE Sync
    BY <1>0, <1>2 DEF Sync, WorkspaceAgrees
<1>3. CASE Start
    BY <1>0, <1>3 DEF Start, WorkspaceAgrees
<1>4. CASE Connect
    <2>1. /\ ws'.there /\ ws'.op = ws.op /\ ws'.phase = ws.phase /\ ws'.making = ws.making
          /\ ws'.id = IF ws.id = NoId THEN reconcile.obj.name ELSE ws.id
          /\ UNCHANGED <<mg, cached, remotes>> /\ reconcile.at = "connect"
        BY <1>0, <1>4 DEF Connect, Workspaces
    <2>2. reconcile.obj.name \in remotes => reconcile.obj.name \in {mg.name, ws.id}
        BY <2>1, <1>0 DEF ReconcileTrails
    <2>3. mg.name \in remotes => ws'.id = mg.name
        BY <1>0, <2>1 DEF WorkspaceAgrees, NoWorkspace
    <2>4. ws.making # NoId => ws'.id \notin remotes
        BY <1>0, <2>1, <2>2 DEF WorkspaceAgrees
    <2>5. ~mg.finalizer => Known' = {}
        BY <1>0, <2>1, <2>2 DEF WorkspaceAgrees
    <2> QED
        BY <1>0, <2>1, <2>3, <2>4, <2>5 DEF WorkspaceAgrees
<1>5. CASE ObserveRunning
    BY <1>0, <1>5 DEF ObserveRunning, WorkspaceAgrees
<1>6. CASE Observe
    <2>1. /\ UNCHANGED <<mg, cached, remotes>> /\ ws.there
          /\ ws'.there = ws.there /\ ws'.op = "none" /\ ws'.making = ws.making
          /\ ws'.id = IF ws.id \in remotes THEN ws.id ELSE NoId
          /\ ~Running
        BY <1>0, <1>6 DEF Observe, Workspaces, ObservationHolds
    <2>2. mg.name \in remotes => ws.id = mg.name
        BY <1>0, <2>1 DEF WorkspaceAgrees
    <2>3. ws'.making = NoId
        BY <1>0, <2>1 DEF WorkspaceAgrees
    <2>4. ~mg.finalizer => Known' = {}
        BY <1>0, <2>1, <2>3 DEF WorkspaceAgrees
    <2> QED
        BY <1>0, <2>1, <2>2, <2>3, <2>4 DEF WorkspaceAgrees
<1>7. CASE Destroy \/ Create \/ Update
    <2>1. /\ ws.there /\ mg.finalizer
          /\ UNCHANGED <<mg, cached, remotes>>
        BY <1>0, <1>7
        DEF Destroy, Create, Update, Guarded, Acts, ObservationHolds
    <2>2. ws' = ws \/ (~Running /\ ws' = Begun("apply")) \/ (~Running /\ ws' = Begun("destroy"))
        BY <1>7 DEF Destroy, Create, Update
    <2>3. ws'.there = ws.there /\ ws'.id = ws.id /\ ws'.making = ws.making
        BY <1>0, <2>2 DEF Begun, Workspaces
    <2>4. ws'.making # NoId => ws' = ws
        BY <1>0, <2>2, <2>3 DEF WorkspaceAgrees
    <2>5. ws'.op = "destroy" => mg.state # "live"
        <3>1. CASE Destroy
            BY <1>0, <3>1 DEF Destroy, Acts, Deleting, ReconcileTrails, CopyTrails
        <3>2. CASE Create \/ Update
            <4>1. ws' = ws \/ ws' = Begun("apply")
                BY <3>2 DEF Create, Update
            <4> QED
                BY <1>0, <4>1 DEF Begun, Workspaces, WorkspaceAgrees
        <3> QED
            BY <1>7, <3>1, <3>2
    <2> QED
        BY <1>0, <2>1, <2>3, <2>4, <2>5 DEF WorkspaceAgrees
<1>8. CASE RemoveWorkspace
    <2>1. mg.name \notin remotes
        BY <1>0, <1>8 DEF RemoveWorkspace, Acts, ObservationHolds, WorkspaceAgrees
    <2> QED
        BY <1>0, <1>8, <2>1 DEF RemoveWorkspace, NoWorkspace, WorkspaceAgrees
<1>9. CASE Release
    <2>1. ws = NoWorkspace /\ mg.name \notin remotes /\ UNCHANGED <<ws, remotes>>
        BY <1>0, <1>9 DEF Release, ObservationHolds
    <2>2. mg' = mg \/ mg' = [Object EXCEPT !.state = "gone"]
        BY <1>9 DEF Release, Writes
    <2>3. mg'.name \notin remotes
        BY <1>0, <2>1, <2>2 DEF Object
    <2>4. mg'.state = "gone" => ~mg'.finalizer
        BY <1>0, <2>2 DEF WorkspaceAgrees, Object
    <2> QED
        BY <1>0, <2>1, <2>3, <2>4 DEF NoWorkspace, WorkspaceAgrees
<1>10. CASE AddFinalizer \/ Pend \/ RecordName
    <2>1. UNCHANGED <<ws, remotes>> /\ reconcile.at = "act" /\ ws.there
        BY <1>0, <1>10 DEF AddFinalizer, Pend, RecordName, Guarded, Acts, ObservationHolds
    <2>2. CASE reconcile.fresh
        <3>1. reconcile.obj.state = mg.state /\ mg.state # "gone"
            BY <1>0, <2>1, <2>2 DEF ReconcileTrails, Objects
        <3>2. mg'.state = mg.state /\ mg'.name = reconcile.obj.name /\ mg'.finalizer
            BY <1>0, <1>10, <2>2, <3>1
            DEF AddFinalizer, Pend, RecordName, Guarded, Writes, Objects
        <3>3. mg'.name \in remotes => ws.id = mg'.name
            BY <1>0, <2>1, <2>2, <3>2 DEF ReconcileTrails, ObservationHolds, WorkspaceAgrees
        <3> QED
            BY <1>0, <2>1, <3>1, <3>2, <3>3 DEF WorkspaceAgrees
    <2>3. CASE ~reconcile.fresh
        BY <1>0, <1>10, <2>1, <2>3
        DEF AddFinalizer, Pend, RecordName, Writes, WorkspaceAgrees
    <2> QED
        BY <2>2, <2>3
<1>11. CASE Record
    <2>1. ws.there /\ UNCHANGED <<ws, remotes>>
        BY <1>0, <1>11 DEF Record, ObservationHolds
    <2>2. mg'.state = mg.state /\ mg'.name = mg.name /\ mg'.finalizer = mg.finalizer
        BY <1>0, <1>11 DEF Record, Objects
    <2> QED
        BY <1>0, <2>1, <2>2 DEF WorkspaceAgrees
<1>12. CASE Done \/ Fail \/ UNCHANGED vars
    BY <1>0, <1>12 DEF Done, Fail, Idle, vars, WorkspaceAgrees
<1>13. CASE ApplyCreates
    <2>1. /\ ws'.id = ws.id /\ ws'.op = "apply" /\ ws'.phase = "running" /\ ws'.there
          /\ UNCHANGED <<mg, cached, reconcile>>
          /\ remotes' = remotes \cup {made + 1} /\ ws.id \notin remotes /\ ws.op = "apply"
        BY <1>0, <1>13 DEF ApplyCreates, Workspaces
    <2>2. ws.id # made + 1 /\ mg.name # made + 1
        BY <1>0 DEF NamesWereMade
    <2>3. mg.finalizer /\ (mg.name \in remotes' => ws.id = mg.name)
        BY <1>0, <1>13, <2>1, <2>2 DEF ApplyCreates, WorkspaceAgrees
    <2> QED
        BY <1>0, <2>1, <2>2, <2>3 DEF WorkspaceAgrees
<1>14. CASE ApplyEnds \/ RunFails
    <2>1. /\ ws'.id = StateId /\ ws'.op = ws.op /\ ws'.making = NoId
          /\ UNCHANGED <<mg, cached, reconcile, remotes>> /\ ws.there /\ ws.op # "none"
        BY <1>0, <1>14 DEF ApplyEnds, RunFails, Ended, Workspaces
    <2>2. mg.name \in remotes => StateId = mg.name
        BY <1>0, <2>1 DEF StateId, WorkspaceAgrees
    <2> QED
        BY <1>0, <2>1, <2>2 DEF WorkspaceAgrees
<1>15. CASE DestroyEnds \/ DestroyFailsLate
    <2>1. /\ ws'.id \in {NoId, ws.id} /\ ws'.op = ws.op /\ ws'.making = NoId
          /\ UNCHANGED <<mg, cached, reconcile>> /\ ws.there /\ ws.op # "none"
          /\ remotes' = remotes \ {ws.id}
        BY <1>0, <1>15 DEF DestroyEnds, DestroyFailsLate, Ended, Workspaces
    <2> QED
        BY <1>0, <2>1 DEF WorkspaceAgrees
<1>19. CASE RunBreaksOff
    <2>1. /\ ws'.id = ws.id /\ ws'.op = ws.op /\ ws'.making = NoId
          /\ UNCHANGED <<mg, cached, reconcile, remotes>> /\ ws.there /\ ws.op # "none"
        BY <1>0, <1>19 DEF RunBreaksOff, Ended, Workspaces
    <2> QED
        BY <1>0, <2>1 DEF WorkspaceAgrees
<1>16. CASE Callback
    BY <1>0, <1>16 DEF Callback, Touched, WorkspaceAgrees
<1>17. CASE Crash
    BY <1>0, <1>17 DEF Crash, Idle, NoWorkspace, WorkspaceAgrees
<1>18. CASE Vanish
    BY <1>0, <1>18 DEF Vanish, WorkspaceAgrees
<1> QED
    BY <1>1, <1>2, <1>3, <1>4, <1>5, <1>6, <1>7, <1>8, <1>9, <1>10, <1>11, <1>12, <1>13,
       <1>14, <1>15, <1>16, <1>17, <1>18, <1>19
    DEF Next, Reconciles, Terraform

\* The types and the books together are inductive.
LEMMA Invariant == Spec => [](TypeOK /\ Bookkeeping)
<1>1. Init => TypeOK /\ Bookkeeping
    BY TypeInit, BooksInit
<1>2. TypeOK /\ Bookkeeping /\ [Next]_vars => (TypeOK /\ Bookkeeping)'
    BY TypeStep, NamesStep, CopyStep, ReconcileTrailsStep, ObservationHoldsStep, WorkspaceAgreesStep
    DEF Bookkeeping
<1> QED
    BY <1>1, <1>2, PTL DEF Spec

\* The state of the managed resource, of its copies, of the workspace and of the counters
\* is of its type throughout; there is no Terraform run without a workspace directory.
THEOREM TypeCorrect == Spec => []TypeOK
BY Invariant, PTL

\* The program's copies, its observations and its workspace agree with the API server about
\* which external resource there is, whatever reconciles, runs, users and crashes interleave.
THEOREM BooksAgree == Spec => []Bookkeeping
BY Invariant, PTL
---------------------------------------------------------------------------
\* What ExternalResource sees of a step.

\* The program knows of one external resource at most: the one an apply is making is not the
\* recorded one, and the workspace and the object name the same.
LEMMA OneIsKnown ==
    TypeOK /\ Bookkeeping => \A id \in Known, other \in Known : id = other
<1> SUFFICES ASSUME TypeOK, Bookkeeping PROVE \A id \in Known, other \in Known : id = other
    OBVIOUS
<1>0. Before
    BY BeforeAStep
<1> USE DEF Before, Known
<1>1. CASE ws.making # NoId
    <2>1. ws.there /\ ws.id \notin remotes
        BY <1>0, <1>1 DEF WorkspaceAgrees
    <2>2. mg.name \notin remotes
        BY <1>0, <2>1 DEF WorkspaceAgrees
    <2> QED
        BY <2>1, <2>2
<1>2. CASE ws.making = NoId
    <2>1. mg.name \in remotes /\ ws.id \in remotes => ws.id = mg.name
        BY <1>0 DEF WorkspaceAgrees, NoWorkspace
    <2> QED
        BY <1>0, <1>2, <2>1
<1> QED
    BY <1>1, <1>2

\* What a step changes of what ExternalResource sees.
Unseen == UNCHANGED <<mg.state, Known, Orphans, vanished>>

\* The steps that change none of it.
Internal ==
    \/ Sync \/ Start \/ Connect \/ ObserveRunning \/ Observe \/ Destroy \/ RemoveWorkspace
    \/ AddFinalizer \/ Pend \/ Create \/ Record \/ RecordName \/ Update \/ Done \/ Fail
    \/ ApplyEnds \/ RunFails \/ Callback

LEMMA InternalIsUnseen == TypeOK /\ Bookkeeping /\ Internal => Unseen
<1> SUFFICES ASSUME TypeOK, Bookkeeping, Internal
             PROVE  /\ mg'.state = mg.state /\ Known' = Known
                    /\ UNCHANGED <<remotes, vanished>>
    BY DEF Unseen, Orphans
<1>0. Before
    BY BeforeAStep
<1> USE DEF Before, Known, Running, counters
<1>1. CASE Sync \/ Start \/ ObserveRunning \/ Done \/ Fail
    BY <1>1 DEF Sync, Start, ObserveRunning, Done, Fail
<1>2. CASE Connect
    <2>1. /\ ws'.making = ws.making
          /\ ws'.id = IF ws.id = NoId THEN reconcile.obj.name ELSE ws.id
          /\ UNCHANGED <<mg, remotes, vanished>> /\ reconcile.at = "connect"
        BY <1>0, <1>2 DEF Connect, Workspaces
    <2>2. reconcile.obj.name \in remotes => reconcile.obj.name \in {mg.name, ws.id}
        BY <2>1, <1>0 DEF ReconcileTrails
    <2> QED
        BY <1>0, <2>1, <2>2
<1>3. CASE Observe
    <2>1. /\ UNCHANGED <<mg, remotes, vanished>> /\ ws'.making = ws.making
          /\ ws'.id = IF ws.id \in remotes THEN ws.id ELSE NoId
        BY <1>0, <1>3 DEF Observe, Workspaces
    <2> QED
        BY <1>0, <2>1
<1>4. CASE Destroy \/ Create \/ Update
    <2>1. UNCHANGED <<mg, remotes, vanished>>
        BY <1>4 DEF Destroy, Create, Update
    <2>2. ws' = ws \/ ws' = Begun("apply") \/ ws' = Begun("destroy")
        BY <1>4 DEF Destroy, Create, Update
    <2>3. ws'.id = ws.id /\ ws'.making = ws.making
        BY <1>0, <2>2 DEF Begun, Workspaces
    <2> QED
        BY <2>1, <2>3
<1>5. CASE RemoveWorkspace
    <2>1. ws.id = NoId /\ ws.op = "none"
        BY <1>0, <1>5 DEF RemoveWorkspace, Acts, ObservationHolds
    <2>2. ws.making = NoId
        BY <1>0, <2>1 DEF WorkspaceAgrees
    <2> QED
        BY <1>0, <1>5, <2>1, <2>2 DEF RemoveWorkspace, NoWorkspace
<1>6. CASE AddFinalizer \/ Pend \/ RecordName
    <2>1. UNCHANGED <<ws, remotes, vanished>> /\ reconcile.at = "act" /\ ws.there
        BY <1>0, <1>6 DEF AddFinalizer, Pend, RecordName, Guarded, Acts, ObservationHolds
    <2>2. CASE reconcile.fresh
        <3>1. reconcile.obj.state = mg.state
            BY <1>0, <2>1, <2>2 DEF ReconcileTrails, Objects
        <3>2. mg'.state = mg.state /\ mg'.name = reconcile.obj.name
            BY <1>0, <1>6, <2>2, <3>1 DEF AddFinalizer, Pend, RecordName, Guarded, Writes, Objects
        <3>3. mg.name \in remotes => ws.id = mg.name
            BY <1>0, <2>1 DEF WorkspaceAgrees
        <3>4. mg'.name = mg.name \/ mg'.name = ws.id
            BY <1>0, <2>1, <2>2, <3>2 DEF ReconcileTrails, ObservationHolds
        <3> QED
            BY <2>1, <3>2, <3>3, <3>4
    <2>3. CASE ~reconcile.fresh
        BY <1>6, <2>1, <2>3 DEF AddFinalizer, Pend, RecordName, Writes
    <2> QED
        BY <2>2, <2>3
<1>7. CASE Record
    <2>1. mg'.state = mg.state /\ mg'.name = mg.name
        BY <1>0, <1>7 DEF Record, Objects
    <2> QED
        BY <1>7, <2>1 DEF Record
<1>8. CASE ApplyEnds \/ RunFails
    <2>1. ws'.id = StateId /\ ws'.making = NoId /\ UNCHANGED <<mg, remotes, vanished>>
        BY <1>0, <1>8 DEF ApplyEnds, RunFails, Ended, Workspaces
    <2>2. ws.making # NoId => ws.id \notin remotes
        BY <1>0 DEF WorkspaceAgrees
    <2> QED
        BY <1>0, <2>1, <2>2 DEF StateId
<1>9. CASE Callback
    BY <1>9 DEF Callback, Touched
<1> QED
    BY <1>1, <1>2, <1>3, <1>4, <1>5, <1>6, <1>7, <1>8, <1>9 DEF Internal

\* A deletion is a request, or without a finalizer an end at once.
LEMMA DeleteIsSeen ==
    TypeOK /\ Bookkeeping /\ Delete => External!Request \/ External!Abandon
<1> SUFFICES ASSUME TypeOK, Bookkeeping, Delete PROVE External!Request \/ External!Abandon
    OBVIOUS
<1>0. Before
    BY BeforeAStep
<1> USE DEF Before
<1>1. /\ mg.state = "live" /\ mg'.name = mg.name
      /\ mg'.state = IF mg.finalizer THEN "deleted" ELSE "gone"
      /\ UNCHANGED <<ws, remotes, vanished>>
    BY <1>0 DEF Delete, Touched, Objects, counters
<1>2. UNCHANGED <<Known, Orphans>>
    BY <1>1 DEF Known, Orphans
<1>3. ~mg.finalizer => Known = {}
    BY <1>0 DEF WorkspaceAgrees
<1> QED
    BY <1>1, <1>2, <1>3 DEF External!Request, External!Abandon

\* The finalizer is removed of a resource that has been deleted and has nothing left.
LEMMA ReleaseIsSeen ==
    TypeOK /\ Bookkeeping /\ Release => External!Release \/ Unseen
<1> SUFFICES ASSUME TypeOK, Bookkeeping, Release PROVE External!Release \/ Unseen
    OBVIOUS
<1>0. Before
    BY BeforeAStep
<1> USE DEF Before
<1>1. /\ ws = NoWorkspace /\ mg.name \notin remotes /\ reconcile.obj.state = "deleted"
      /\ reconcile.at = "release" /\ UNCHANGED <<ws, remotes, vanished>>
    BY <1>0 DEF Release, ObservationHolds, counters
<1>2. CASE reconcile.fresh
    <2>1. mg.state = "deleted"
        BY <1>0, <1>1, <1>2 DEF ReconcileTrails, Objects
    <2>2. mg'.state = "gone" /\ mg'.name = NoId
        BY <1>2 DEF Release, Writes, Object
    <2>3. Known = {} /\ Known' = {}
        BY <1>0, <1>1, <2>2 DEF Known, NoWorkspace
    <2> QED
        BY <1>1, <2>1, <2>2, <2>3 DEF External!Release, Orphans
<1>3. CASE ~reconcile.fresh
    BY <1>1, <1>3 DEF Release, Writes, Unseen, Known, Orphans
<1> QED
    BY <1>2, <1>3

\* An apply creates an external resource only when there is none, for a resource that is there.
LEMMA ApplyCreatesIsSeen == TypeOK /\ Bookkeeping /\ ApplyCreates => External!Provision
<1> SUFFICES ASSUME TypeOK, Bookkeeping, ApplyCreates PROVE External!Provision
    OBVIOUS
<1>0. Before
    BY BeforeAStep
<1> USE DEF Before
<1>1. /\ ws'.id = ws.id /\ ws'.making = made + 1 /\ made + 1 \in Ids
      /\ UNCHANGED <<mg, vanished>> /\ ws.there /\ ws.op # "none"
      /\ remotes' = remotes \cup {made + 1} /\ ws.id \notin remotes /\ ws.making = NoId
    BY <1>0, ReconcileConstants DEF TypeOK, ApplyCreates, Workspaces, counters, Ids
<1>2. mg.name \notin remotes /\ mg.state # "gone"
    BY <1>0, <1>1 DEF WorkspaceAgrees
<1>3. ws.id # made + 1 /\ mg.name # made + 1 /\ made + 1 \notin remotes
    BY <1>0 DEF NamesWereMade
<1>4. Known = {} /\ Known' = {made + 1}
    BY <1>0, <1>1, <1>2, <1>3 DEF Known
<1>5. Orphans' = Orphans /\ made + 1 \notin Orphans
    BY <1>1, <1>3, <1>4 DEF Orphans
<1> QED
    BY <1>1, <1>2, <1>4, <1>5 DEF External!Provision

\* A destroy takes away the only one, of a resource that has been deleted, whether it then
\* succeeds or fails.
LEMMA DestroyIsSeen ==
    TypeOK /\ Bookkeeping /\ (DestroyEnds \/ DestroyFailsLate)
        => External!Deprovision \/ Unseen
<1> SUFFICES ASSUME TypeOK, Bookkeeping, DestroyEnds \/ DestroyFailsLate
             PROVE  External!Deprovision \/ Unseen
    OBVIOUS
<1>0. Before
    BY BeforeAStep
<1> USE DEF Before
<1>1. /\ ws'.id \in {NoId, ws.id} /\ ws'.making = NoId /\ ws.op = "destroy" /\ ws.there
      /\ UNCHANGED <<mg, vanished>> /\ remotes' = remotes \ {ws.id}
    BY <1>0 DEF DestroyEnds, DestroyFailsLate, Ended, Workspaces, counters
<1>2. mg.state = "deleted" /\ ws.making = NoId
    BY <1>0, <1>1 DEF WorkspaceAgrees, Objects
<1>3. mg.name \in remotes => mg.name = ws.id
    BY <1>0, <1>1 DEF WorkspaceAgrees
<1>4. Known = remotes \cap {ws.id} /\ Known' = {}
    BY <1>0, <1>1, <1>2, <1>3 DEF Known
<1>5. Orphans' = Orphans
    BY <1>1, <1>4 DEF Orphans
<1> QED
    BY <1>1, <1>2, <1>4, <1>5 DEF External!Deprovision, Unseen

\* A crash loses what only the workspace knew.
LEMMA CrashIsSeen == TypeOK /\ Bookkeeping /\ Crash => External!Lose \/ Unseen
<1> SUFFICES ASSUME TypeOK, Bookkeeping, Crash PROVE External!Lose \/ Unseen
    OBVIOUS
<1>0. Before
    BY BeforeAStep
<1> USE DEF Before
<1>1. ws' = NoWorkspace /\ UNCHANGED <<mg, remotes, vanished>>
    BY DEF Crash
<1>2. Known' = remotes \cap {mg.name}
    BY <1>0, <1>1 DEF Known, NoWorkspace
<1>3. CASE mg.name \in remotes
    <2>1. Known' = Known
        BY <1>2, <1>3, OneIsKnown DEF Known
    <2> QED
        BY <1>1, <2>1 DEF Unseen, Orphans
<1>4. CASE mg.name \notin remotes
    <2>1. Known' = {} /\ Orphans' = Orphans \cup Known
        BY <1>1, <1>2, <1>4 DEF Known, Orphans
    <2> QED
        BY <1>1, <2>1 DEF External!Lose, Unseen
<1> QED
    BY <1>3, <1>4

\* A run that breaks off loses what it was making, the only one the program knew of.
LEMMA BreakIsSeen == TypeOK /\ Bookkeeping /\ RunBreaksOff => External!Lose \/ Unseen
<1> SUFFICES ASSUME TypeOK, Bookkeeping, RunBreaksOff PROVE External!Lose \/ Unseen
    OBVIOUS
<1>0. Before
    BY BeforeAStep
<1> USE DEF Before
<1>1. /\ ws'.id = ws.id /\ ws'.making = NoId /\ ws.making # NoId /\ ws.there
      /\ UNCHANGED <<mg, remotes, vanished>>
    BY <1>0 DEF RunBreaksOff, Ended, Workspaces
<1>2. ws.id \notin remotes /\ mg.name \notin remotes
    BY <1>0, <1>1 DEF WorkspaceAgrees
<1>3. Known' = {} /\ Orphans' = Orphans \cup Known
    BY <1>0, <1>1, <1>2 DEF Known, Orphans
<1> QED
    BY <1>1, <1>3 DEF External!Lose, Unseen

\* Someone else takes away an external resource that is known or lost.
LEMMA VanishIsSeen == Vanish => External!Take
<1> SUFFICES ASSUME Vanish PROVE External!Take
    OBVIOUS
<1>1. PICK id \in remotes : remotes' = remotes \ {id}
    BY DEF Vanish
<1>2. /\ Known' = Known \ {id} /\ Orphans' = Orphans \ {id} /\ id \in Known \cup Orphans
      /\ UNCHANGED mg /\ vanished' = vanished + 1
    BY <1>1 DEF Vanish, Known, Orphans
<1> QED
    BY <1>2 DEF External!Take

\* Every step is a step of ExternalResource, or unseen.
LEMMA StepIsSeen ==
    TypeOK /\ Bookkeeping /\ [Next]_vars => [External!ANext]_(External!avars)
<1> SUFFICES ASSUME TypeOK, Bookkeeping, [Next]_vars PROVE External!ANext \/ Unseen
    BY DEF Unseen, External!avars
<1>1. CASE Internal
    BY <1>1, InternalIsUnseen
<1>2. CASE Delete \/ Release \/ ApplyCreates \/ DestroyEnds \/ DestroyFailsLate \/ RunBreaksOff
           \/ Crash \/ Vanish
    BY <1>2, DeleteIsSeen, ReleaseIsSeen, ApplyCreatesIsSeen, DestroyIsSeen, BreakIsSeen,
       CrashIsSeen, VanishIsSeen
    DEF External!ANext
<1>3. CASE UNCHANGED vars
    BY <1>3 DEF vars, Unseen, Known, Orphans
<1> QED
    BY <1>1, <1>2, <1>3 DEF Next, Reconciles, Terraform, Internal

\* The managed resource keeps the promise of ExternalResource: whatever its reconciles, their
\* stale copies and the runs in the background do, there is never a second external resource
\* that it knows of, none is destroyed before the deletion, and the resource stays until its
\* external one is gone.
THEOREM PromiseKept == Spec => KeepsItsPromise
<1>1. Init => External!AInit
    BY DEF Init, External!AInit, Known, Orphans, Object
<1>2. TypeOK /\ Bookkeeping /\ [Next]_vars => [External!ANext]_(External!avars)
    BY StepIsSeen
<1> QED
    BY <1>1, <1>2, Invariant, PTL DEF Spec, KeepsItsPromise, External!ASpec

\* No step but a crash takes the workspace away under a Terraform run: the finalizer removes
\* it only after an observation that found no run, and none starts in between.
THEOREM RunsKeepTheirWorkspace == Spec => NoRunIsAbandoned
<1>1. ASSUME TypeOK, Bookkeeping, [Next]_vars
      PROVE  [(Running /\ ~ws'.there) => crashes' > crashes]_vars
    <2> SUFFICES ASSUME Running, ~ws'.there, Next PROVE crashes' > crashes
        BY <1>1
    <2>0. Before /\ crashes \in Nat
        BY <1>1, BeforeAStep DEF TypeOK
    <2> USE DEF Before
    <2>1. CASE Crash
        BY <2>0, <2>1 DEF Crash
    <2>2. CASE RemoveWorkspace
        BY <2>0, <2>2 DEF RemoveWorkspace, Acts, ObservationHolds
    <2>3. CASE Destroy \/ Create \/ Update
        <3>1. ws' = ws
            BY <2>3 DEF Destroy, Create, Update
        <3> QED
            BY <2>0, <3>1
    <2>4. CASE Connect \/ Observe \/ ApplyCreates \/ ApplyEnds \/ DestroyEnds \/ RunFails
               \/ DestroyFailsLate \/ RunBreaksOff
        BY <2>0, <2>4
        DEF Connect, Observe, ApplyCreates, ApplyEnds, DestroyEnds, RunFails, DestroyFailsLate,
            RunBreaksOff, Ended, Workspaces
    <2>5. CASE Delete \/ Sync \/ Start \/ ObserveRunning \/ Release \/ AddFinalizer \/ Pend \/ Record
               \/ RecordName \/ Done \/ Fail \/ Callback \/ Vanish
        BY <2>0, <2>5
        DEF Delete, Sync, Start, ObserveRunning, Release, AddFinalizer, Pend, Record, RecordName,
            Done, Fail, Callback, Vanish
    <2> QED
        BY <2>1, <2>2, <2>3, <2>4, <2>5 DEF Next, Reconciles, Terraform
<1> QED
    BY <1>1, Invariant, PTL DEF Spec, NoRunIsAbandoned

---------------------------------------------------------------------------
\* Only a crash or a run that breaks off makes an orphan, and of the one external resource
\* the program knew of.
Losses == crashes + broken

LEMMA OrphansStep ==
    TypeOK /\ Bookkeeping /\ [Next]_vars =>
        \/ Orphans' \subseteq Orphans /\ Losses' >= Losses
        \/ Orphans' \subseteq Orphans \cup Known /\ Losses' = Losses + 1
<1> SUFFICES ASSUME TypeOK, Bookkeeping, [Next]_vars
             PROVE  \/ Orphans' \subseteq Orphans /\ Losses' >= Losses
                    \/ Orphans' \subseteq Orphans \cup Known /\ Losses' = Losses + 1
    OBVIOUS
<1>0. crashes \in Nat /\ broken \in Nat
    BY DEF TypeOK
<1>1. CASE Crash \/ RunBreaksOff
    <2>1. Orphans' \subseteq Orphans \cup Known
        BY <1>1 DEF Crash, RunBreaksOff, Known, Orphans
    <2>2. Losses' = Losses + 1
        BY <1>0, <1>1 DEF Crash, RunBreaksOff, Losses
    <2> QED
        BY <2>1, <2>2
<1>2. ASSUME ~Crash, ~RunBreaksOff PROVE Losses' = Losses
    BY <1>2
    DEF Next, Reconciles, Terraform, vars, counters, Delete, Sync, Start, Connect, ObserveRunning,
        Observe, Destroy, RemoveWorkspace, Release, AddFinalizer, Pend, Create, Record, RecordName,
        Update, Done, Fail, ApplyCreates, ApplyEnds, DestroyEnds, RunFails, DestroyFailsLate,
        Callback, Vanish, Losses
<1>3. ASSUME ~Crash, ~RunBreaksOff PROVE Orphans' \subseteq Orphans
    <2>1. CASE Internal
        BY <2>1, InternalIsUnseen DEF Unseen
    <2>2. CASE Delete
        BY <2>2, DeleteIsSeen DEF External!Request, External!Abandon
    <2>3. CASE Release
        BY <2>3, ReleaseIsSeen DEF External!Release, Unseen
    <2>4. CASE ApplyCreates
        BY <2>4, ApplyCreatesIsSeen DEF External!Provision
    <2>5. CASE DestroyEnds \/ DestroyFailsLate
        BY <2>5, DestroyIsSeen DEF External!Deprovision, Unseen
    <2>6. CASE Vanish
        BY <2>6, VanishIsSeen DEF External!Take
    <2>7. CASE UNCHANGED vars
        BY <2>7 DEF vars, Known, Orphans
    <2> QED
        BY <1>3, <2>1, <2>2, <2>3, <2>4, <2>5, <2>6, <2>7 DEF Next, Reconciles, Terraform, Internal
<1>4. Losses \in Nat
    BY <1>0 DEF Losses
<1> QED
    BY <1>1, <1>2, <1>3, <1>4

LEMMA KnownIsSmall ==
    TypeOK /\ Bookkeeping => IsFiniteSet(Known) /\ Cardinality(Known) <= 1
<1> SUFFICES ASSUME TypeOK, Bookkeeping PROVE IsFiniteSet(Known) /\ Cardinality(Known) <= 1
    OBVIOUS
<1>1. CASE Known = {}
    BY <1>1, FS_EmptySet
<1>2. CASE Known # {}
    <2>1. PICK id \in Known : Known = {id}
        BY <1>2, OneIsKnown
    <2>2. IsFiniteSet({id}) /\ Cardinality({id}) = 1
        BY FS_Singleton
    <2>3. IsFiniteSet(Known) /\ Cardinality(Known) = 1
        BY <2>1, <2>2
    <2> QED
        BY <2>3
<1> QED
    BY <1>1, <1>2

LEMMA LossStep ==
    ASSUME TypeOK, Bookkeeping, [Next]_vars, IsFiniteSet(Orphans), LossesAreExplained
    PROVE  (IsFiniteSet(Orphans) /\ LossesAreExplained)'
<1>0. /\ Losses \in Nat /\ Losses' \in Nat
      /\ LossesAreExplained <=> Cardinality(Orphans) <= Losses
      /\ LossesAreExplained' <=> Cardinality(Orphans') <= Losses'
    BY TypeStep, ReconcileConstants DEF TypeOK, Losses, LossesAreExplained
<1>1. CASE Orphans' \subseteq Orphans /\ Losses' >= Losses
    <2>1. IsFiniteSet(Orphans') /\ Cardinality(Orphans') <= Cardinality(Orphans)
        BY <1>1, FS_Subset
    <2>2. Cardinality(Orphans) \in Nat /\ Cardinality(Orphans') \in Nat
        BY <2>1, FS_CardinalityType
    <2> QED
        BY <1>0, <1>1, <2>1, <2>2
<1>2. CASE Orphans' \subseteq Orphans \cup Known /\ Losses' = Losses + 1
    <2>1. IsFiniteSet(Known) /\ Cardinality(Known) <= 1
        BY KnownIsSmall
    <2>2. /\ IsFiniteSet(Orphans \cup Known)
          /\ Cardinality(Orphans \cup Known)
                = Cardinality(Orphans) + Cardinality(Known) - Cardinality(Orphans \cap Known)
        BY <2>1, FS_Union
    <2>3. Orphans \cap Known = {}
        BY DEF Orphans
    <2>4. IsFiniteSet(Orphans') /\ Cardinality(Orphans') <= Cardinality(Orphans \cup Known)
        BY <1>2, <2>2, FS_Subset
    <2>5. /\ Cardinality(Orphans) \in Nat /\ Cardinality(Orphans') \in Nat
          /\ Cardinality(Known) \in Nat /\ Cardinality(Orphans \cap Known) = 0
          /\ Cardinality(Orphans \cup Known) \in Nat
        BY <2>1, <2>2, <2>3, <2>4, FS_CardinalityType, FS_EmptySet
    <2> QED
        BY <1>0, <1>2, <2>1, <2>2, <2>4, <2>5
<1> QED
    BY <1>1, <1>2, OrphansStep

\* External resources without a managed resource that knows of them come from crashes and from
\* runs that broke off before they saved their state, one of each at most, and from nothing
\* else that reconciles, stale copies, failures and runs in the background do.
THEOREM EveryLossIsExplained == Spec => []LossesAreExplained
<1>1. Init => IsFiniteSet(Orphans) /\ LossesAreExplained
    BY FS_EmptySet DEF Init, Orphans, LossesAreExplained
<1>2. /\ TypeOK /\ Bookkeeping /\ [Next]_vars /\ IsFiniteSet(Orphans) /\ LossesAreExplained
      => (IsFiniteSet(Orphans) /\ LossesAreExplained)'
    BY LossStep
<1> QED
    BY <1>1, <1>2, Invariant, PTL DEF Spec
=============================================================================
