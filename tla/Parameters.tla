----------------------------- MODULE Parameters -----------------------------
(***************************************************************************)
(* The life of one managed resource's parameters along one path of fields: *)
(* a user writes forProvider and initProvider, the external resource is    *)
(* created from the merge of the two, late initialisation copies what is   *)
(* observed back into forProvider, and updates bring the external resource *)
(* to the merged parameters, which others may change behind its back.      *)
(***************************************************************************)
EXTENDS Documents

CONSTANTS
    CheckedPaths,        \* the <<kind, path>> to choose from
    UserValues,          \* values of forProvider
    InitialValues,       \* values of initProvider
    Items,               \* bound: elements of a list of blocks
    LateModes,           \* how late initialisation may go, see late
    MaxEdits,            \* bound: edits by users
    MaxDrifts            \* bound: changes of the external resource by others

VARIABLES
    kind, path,    \* what is looked at
    late,          \* "never", by the policies, or how it goes into lists of blocks:
                   \* "shallow" leaves them alone, "deep" goes element by element
    changes,       \* what becomes of changes of what is on the path once the resource exists:
                   \* "inPlace" they are made, "kept" it stays as it was created
    mine,          \* what the user wrote in forProvider
    forProvider,   \* spec.forProvider: mine and what late initialisation added
    initProvider,  \* spec.initProvider
    exists,        \* whether there is an external resource
    remote,        \* its attributes
    edits, drifts  \* counters of the bounds

choice == <<kind, path, late, changes>>
vars == <<kind, path, late, changes, mine, forProvider, initProvider, exists, remote, edits, drifts>>

Struct == Kinds[kind].struct
UserDocuments == DocumentsOn(Struct, path, UserValues, Items)
InitialDocuments == DocumentsOn(Struct, path, InitialValues, Items)

\* What Terraform is given of the resource.
Merged == Merge(Struct, forProvider, initProvider)
UpdateOf(config) == Updated(Struct, forProvider, initProvider, remote, config)
LateInitializedSpec == LateInitialized(Struct, forProvider, remote, late = "deep")
---------------------------------------------------------------------------
Init ==
    /\ \E c \in CheckedPaths : kind = c[1] /\ path = c[2]
    /\ late \in LateModes /\ changes \in {"inPlace", "kept"}
    /\ mine \in UserDocuments
    /\ forProvider = mine
    /\ initProvider \in InitialDocuments
    /\ exists = FALSE /\ remote = NoFields
    /\ edits = 0 /\ drifts = 0

\* The user replaces one part of the spec; in forProvider this drops what late
\* initialisation had added.
Edit ==
    /\ edits < MaxEdits
    /\ \/ \E d \in UserDocuments \ {mine} :
            mine' = d /\ forProvider' = d /\ UNCHANGED initProvider
       \/ \E d \in InitialDocuments \ {initProvider} :
            initProvider' = d /\ UNCHANGED <<mine, forProvider>>
    /\ edits' = edits + 1
    /\ UNCHANGED <<choice, exists, remote, drifts>>

\* The external resource is created from the merged parameters; the provider may choose
\* a value for what is absent.
Create ==
    /\ ~exists
    /\ exists' = TRUE
    /\ remote' \in {Merged, Completed(Struct, Merged, path)}
    /\ UNCHANGED <<choice, mine, forProvider, initProvider, edits, drifts>>

\* An observation late initialises the spec, if that changes anything.
LateInitialize ==
    /\ exists /\ late # "never"
    /\ forProvider' = LateInitializedSpec
    /\ forProvider' # forProvider
    /\ UNCHANGED <<choice, mine, initProvider, exists, remote, edits, drifts>>

\* Mutant of Update: the update is made of forProvider alone.
UpdateForProvider ==
    /\ exists /\ changes = "inPlace"
    /\ remote' = UpdateOf(forProvider)
    /\ remote' # remote
    /\ UNCHANGED <<choice, mine, forProvider, initProvider, exists, edits, drifts>>

\* An observation that finds a difference is followed by an update.  It does nothing where
\* the provider ignores changes after the creation, and it fails where the resource would
\* have to be created anew, which the program refuses while it lives.
Update ==
    /\ exists /\ changes = "inPlace"
    /\ remote' = UpdateOf(Merged)
    /\ remote' # remote
    /\ UNCHANGED <<choice, mine, forProvider, initProvider, exists, edits, drifts>>

\* Someone else changes the external resource.
Drift ==
    /\ exists /\ drifts < MaxDrifts
    /\ Overwritten(Struct, remote, "drift") # remote
    /\ remote' = Overwritten(Struct, remote, "drift")
    /\ drifts' = drifts + 1
    /\ UNCHANGED <<choice, mine, forProvider, initProvider, exists, edits>>

Reconciles == Create \/ LateInitialize \/ Update
Next == Edit \/ Reconciles \/ Drift

\* The reconciler observes every resource again after each change and each poll interval,
\* and acts on what it finds.
Spec == Init /\ [][Next]_vars /\ WF_vars(Reconciles)
---------------------------------------------------------------------------
\* What the user wrote in forProvider is what Terraform gets, wherever it is in the
\* parameters and whatever initProvider and late initialisation add, as long as it is
\* not an empty value ("we don't want to overwrite the forProvider fields with the
\* initProvider fields").
UserWins == Holds(Struct, mine, Merged)

\* Late initialisation and updates end: they never fight over a value.  The external
\* resource then has every non-empty value the user wrote, where changes can be made in
\* place or none was asked for.
Settled ==
    /\ exists
    /\ late # "never" => LateInitializedSpec = forProvider
    /\ changes = "inPlace" => UpdateOf(Merged) = remote
    /\ changes = "inPlace" \/ edits + drifts = 0 => Holds(Struct, mine, remote)
Settles == <>[]Settled

\* Without late initialisation, what only initProvider gives is not updated after the
\* creation, also when it or the external resource changes: "The same fields are also
\* added to the terraform ignore_changes hook, to avoid updating them after creation".
InitialOnly ==
    [][(late = "never" /\ exists /\ drifts' = drifts) =>
            Untouched(Struct, mine, initProvider, remote, remote')]_vars
=============================================================================
