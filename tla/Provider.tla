------------------------------ MODULE Provider ------------------------------
(***************************************************************************)
(* Startup with the controllers of this provider: what its processes serve *)
(* once they run.                                                          *)
(***************************************************************************)
EXTENDS Startup, Controllers, Sequences

ASSUME ProviderControllers == ControllerCount = Len(SetupOrder)

Registered(r) == {SetupOrder[i] : i \in registered[r]}
Serves(c, k) == c.group = Kinds[k].group /\ c.name = Kinds[k].name

\* A process that works reconciles every kind of the APIs with one controller, which runs
\* the Terraform resource of that kind, one the provider configuration has, and no two
\* controllers run the same.
EveryKindServed ==
    \A r \in Replicas : pc[r] = "running" =>
        \A k \in KindNames :
            LET serving == {c \in Registered(r) : Serves(c, k)}
                type == TerraformedKinds[k].type
            IN  /\ Cardinality(serving) = 1
                /\ {c.resource : c \in serving} = {type} /\ type \in Resources
                /\ Cardinality({c \in Registered(r) : c.resource = type}) = 1
=============================================================================
