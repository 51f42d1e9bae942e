-------------------------- MODULE MCTerraformSetup --------------------------
(***************************************************************************)
(* Values of the constants of TerraformSetup for model checking.           *)
(***************************************************************************)
EXTENDS TerraformSetup, TLC

CONSTANTS c1, c2, r1, r2, k1, k2, env

FullShape == {{"api_key", "secret_key"}}
SomeShapes == {{"api_key", "secret_key"}, {"api_key"}}

FromSecret(k) == [source |-> "Secret", key |-> k]

\* Every config selects the same Secret.
SecretSpecs == {FromSecret(k1)}
SameSpecs == [c \in Configs |-> SecretSpecs]

\* c1 selects the Secret k1 or the environment, c2 selects the Secret k2.
FirstSpecs == {FromSecret(k1), [source |-> "Environment", key |-> env]}
OwnSpecs == (c1 :> FirstSpecs) @@ (c2 :> {FromSecret(k2)})
AllSpecs == FirstSpecs \cup {FromSecret(k2)}

\* The stores hold complete documents at the start, or documents of every shape.
FullData == {[kind |-> "json", shape |-> {"api_key", "secret_key"}, version |-> 0]}
\* ... or a Secret that is there or is missing, so that setups may fail after tracking.
MissingData == FullData \cup {[kind |-> "absent", shape |-> {}, version |-> 0]}
PartialData == {[kind |-> "json", shape |-> s, version |-> 0] :
                  s \in {{"api_key", "secret_key"}, {"api_key"}}}

=============================================================================
