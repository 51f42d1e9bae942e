---------------------------- MODULE MCAdmission ----------------------------
(***************************************************************************)
(* Constant values for the runs of Admission.                              *)
(***************************************************************************)
EXTENDS Admission

AllKinds == KindNames

\* The kinds whose types embed a secret selector.
SelectorKinds == {k \in KindNames : Selectors(Kinds[k].struct) # {}}

\* Policies the reconciler supports: the default, one with every action that needs
\* parameters, one that only creates, only observation, and paused.
SomePolicies == {{"*"}, {"Observe", "Create", "Update", "LateInitialize"},
                 {"Observe", "Create"}, {"Observe"}, {}}
=============================================================================
