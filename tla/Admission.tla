----------------------------- MODULE Admission -----------------------------
(***************************************************************************)
(* Which managed resources the API server stores and what Terraform is     *)
(* given of them: the required-parameter rules of zz_*_types.go, users who *)
(* create and edit one resource of any kind, and the program's own writes  *)
(* to it.  focus are the required parameters and selectors that may be     *)
(* absent in a behaviour; the others are given in forProvider, and in      *)
(* initProvider when it demands them.                                      *)
(***************************************************************************)
EXTENDS Schemas, Naturals, FiniteSets, Sequences

CONSTANTS
    CheckedKinds,        \* the kinds to choose from
    PolicySets,          \* the management policies users choose from
    ManagementPolicies,  \* the flag --enable-management-policies
    MaxFocus,            \* bound: how many required parameters may be absent
    MaxEdits             \* bound: edits by users

ASSUME AdmissionConstants ==
    /\ CheckedKinds \subseteq KindNames
    /\ PolicySets \subseteq SUBSET {"Observe", "Create", "Update", "Delete", "LateInitialize", "*"}
    /\ ManagementPolicies \in BOOLEAN
    /\ MaxFocus \in Nat /\ MaxEdits \in Nat

VARIABLES
    kind,    \* the kind of the resource
    focus,   \* the required parameters and selectors looked at
    stored,  \* whether the resource exists
    spec,    \* its spec: policies, forProvider, initProvider and whether that is there
    remote,  \* whether the external resource exists
    edits    \* counter of the bound MaxEdits

vars == <<kind, focus, stored, spec, remote, edits>>

NoSpec == [policies |-> {}, for |-> [f \in focus |-> "none"],
           init |-> [f \in focus |-> "none"], hasInit |-> FALSE]

\* A field is absent, given by someone who means it, or an embedded selector written
\* with empty names.
Values == {"none", "given", "hollow"}
Struct == Kinds[kind].struct
Specs == [policies : PolicySets \cup {{}}, for : [focus -> Values], init : [focus -> Values],
          hasInit : BOOLEAN]

TypeOK ==
    /\ kind \in CheckedKinds
    /\ focus \subseteq Kinds[kind].required \cup Kinds[kind].secrets
    /\ stored \in BOOLEAN /\ remote \in BOOLEAN /\ edits \in 0 .. MaxEdits
    /\ spec \in Specs
    /\ \A f \in focus \ Selectors(Struct) : spec.for[f] # "hollow" /\ spec.init[f] # "hollow"
    /\ (\E f \in focus : spec.init[f] # "none") => spec.hasInit
---------------------------------------------------------------------------
\* Admission.

Has(part, f) == part[f] # "none"

\* Mutant of Manages: a rule that forgets one of the actions that needs parameters.
ManagesUpdates(s) == s.policies \cap {"*", "Update"} # {}

\* The first operand of every rule: policies that create or update need parameters.
Manages(s) == s.policies \cap {"*", "Create", "Update"} # {}

\* A required parameter may be in either part, a selector must be in forProvider; and an
\* initProvider must hold the embedded selectors, which are not optional there.
Admitted(s) ==
    /\ Manages(s) => /\ \A f \in focus \cap Kinds[kind].required : Has(s.for, f) \/ Has(s.init, f)
                     /\ \A f \in focus \cap Kinds[kind].secrets : Has(s.for, f)
    /\ s.hasInit => \A f \in focus \cap Selectors(Struct) : Has(s.init, f)
---------------------------------------------------------------------------
\* Users.

Create ==
    /\ ~stored
    /\ \E s \in [policies : PolicySets, for : [focus -> {"none", "given"}],
                 init : [focus -> {"none", "given"}], hasInit : BOOLEAN] :
        /\ (\E f \in focus : Has(s.init, f)) => s.hasInit
        /\ Admitted(s)
        /\ spec' = s
    /\ stored' = TRUE
    /\ UNCHANGED <<kind, focus, remote, edits>>

\* An edit changes one thing and leaves the rest as it is stored.
WithPolicies(p) == [spec EXCEPT !.policies = p]
WithFor(f, v) == [spec EXCEPT !.for[f] = v]
WithInit(f, v) == [spec EXCEPT !.init[f] = v, !.hasInit = TRUE]
WithoutInit == [spec EXCEPT !.init = [f \in focus |-> "none"], !.hasInit = FALSE]
Edited ==
    {WithPolicies(p) : p \in PolicySets}
    \cup {WithFor(f, v) : f \in focus, v \in {"none", "given"}}
    \cup {WithInit(f, v) : f \in focus, v \in {"none", "given"}}
    \cup {WithoutInit}

Edit ==
    /\ stored /\ edits < MaxEdits
    /\ \E s \in Edited \ {spec} :
        /\ Admitted(s)
        /\ spec' = s
    /\ edits' = edits + 1
    /\ UNCHANGED <<kind, focus, stored, remote>>

Delete ==
    /\ stored
    /\ stored' = FALSE
    /\ spec' = NoSpec
    /\ remote' = FALSE
    /\ UNCHANGED <<kind, focus, edits>>
---------------------------------------------------------------------------
\* The program.

\* What the reconciler may do: with the feature off it refuses all but the default.
May(action, s) ==
    IF ManagementPolicies THEN s.policies \cap {"*", action} # {} ELSE s.policies = {"*"}

\* Mutant of Written: the empty selectors are filled in where they are declared optional only.
WrittenForProvider(s) ==
    [s EXCEPT !.for = [f \in focus |-> IF f \in Selectors(Struct) /\ ~Has(s.for, f)
                                       THEN "hollow" ELSE s.for[f]],
              !.hasInit = TRUE]

\* Mutant of Written: selectors are filled in without the initProvider they are in.
WrittenApart(s) ==
    LET Filled(part) == [f \in focus |-> IF f \in Selectors(Struct) /\ ~Has(part, f)
                                         THEN "hollow" ELSE part[f]]
    IN  [s EXCEPT !.for = Filled(s.for), !.init = Filled(s.init)]

\* The object as the program writes it: every embedded struct is there, initProvider and
\* the selectors inside it and inside forProvider included.
Written(s) ==
    LET Filled(part) == [f \in focus |-> IF f \in Selectors(Struct) /\ ~Has(part, f)
                                         THEN "hollow" ELSE part[f]]
    IN  [s EXCEPT !.for = Filled(s.for), !.init = Filled(s.init), !.hasInit = TRUE]

\* The reconciler updates the object to add its finalizer, after an observation; of an
\* absent resource it may not create, the observation is an error.
Update ==
    /\ stored /\ May("Observe", spec)
    /\ remote \/ May("Create", spec)
    /\ Admitted(Written(spec))
    /\ spec' = Written(spec)
    /\ UNCHANGED <<kind, focus, stored, remote, edits>>

\* Late initialisation fills absent parameters of forProvider from what is observed;
\* selectors are no Terraform attributes.
LateInitialize ==
    /\ stored /\ remote /\ May("LateInitialize", spec)
    /\ \E observed \in SUBSET (focus \cap Arguments(Struct)) :
        LET s == [spec EXCEPT !.for = [f \in focus |->
                        IF f \in observed /\ ~Has(spec.for, f) THEN "given" ELSE spec.for[f]]]
        IN  /\ Admitted(Written(s))
            /\ spec' = Written(s)
    /\ UNCHANGED <<kind, focus, stored, remote, edits>>

\* Mutant of Merged: the merge of initProvider is forgotten.
ForProviderOnly(s) == {f \in focus \cap Arguments(Struct) : Has(s.for, f)}

\* The arguments of the merged parameters; without the feature nothing is merged.
Merged(s) == {f \in focus \cap Arguments(Struct) :
                Has(s.for, f) \/ (ManagementPolicies /\ Has(s.init, f))}

\* A sensitive argument is read from the secret its selector names, if it names one.
Sensitive(s) ==
    LET selector == TerraformedKinds[kind].sensitive
    IN  {path[1] : path \in {p \in DOMAIN selector : /\ Len(p) = 1
                                                     /\ LET f == selector[p][1]
                                                        IN  f \notin focus \/ s.for[f] = "given"
                                                                           \/ s.init[f] = "given"}}

\* Everything of the resource Terraform is given.
ToTerraform(s) == Merged(s) \cup Sensitive(s) \cup (Kinds[kind].required \ focus)
Required == TerraformRequires[TerraformedKinds[kind].type]

\* Create or update; Terraform refuses what is incomplete.
Apply ==
    /\ stored
    /\ May(IF remote THEN "Update" ELSE "Create", spec)
    /\ remote' = (remote \/ Required \subseteq ToTerraform(spec))
    /\ UNCHANGED <<kind, focus, stored, spec, edits>>
---------------------------------------------------------------------------
Init ==
    /\ kind \in CheckedKinds
    /\ focus \in {F \in SUBSET (Kinds[kind].required \cup Kinds[kind].secrets) :
                    Cardinality(F) <= MaxFocus}
    /\ stored = FALSE
    /\ spec = NoSpec
    /\ remote \in BOOLEAN
    /\ edits = 0

Next == Create \/ Edit \/ Delete \/ Update \/ LateInitialize \/ Apply
Spec == Init /\ [][Next]_vars
---------------------------------------------------------------------------
Applicable == stored /\ (May("Create", spec) \/ May("Update", spec))

\* Whatever users and the program did to an admitted resource before, as long as it may be
\* created or updated Terraform is given every argument it requires, secrets left aside:
\* the rules of zz_*_types.go agree with the merge, late initialisation and policies.
ArgumentsComplete ==
    Applicable => \A a \in Required : <<a>> \in TerraformSensitive[TerraformedKinds[kind].type]
                                      \/ a \in ToTerraform(spec)

\* The same of the secrets ("spec.forProvider.passwordSecretRef is a required parameter").
SecretsComplete ==
    Applicable => \A a \in Required : <<a>> \in TerraformSensitive[TerraformedKinds[kind].type]
                                      => a \in ToTerraform(spec)

\* What the program writes back of a stored resource is admitted again: a rule can never
\* keep the reconciler from adding its finalizer.
WritesAdmitted == stored => Admitted(Written(spec))
=============================================================================
