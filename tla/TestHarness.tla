---------------------------- MODULE TestHarness ----------------------------
(***************************************************************************)
(* scripts/test-provider.sh: one command per invocation, each a sequence   *)
(* of steps that stops at the first failing one (set -e), against a kind   *)
(* cluster that outlives the invocations, with an exit trap that deletes   *)
(* the cluster.  Every step calls external tools that may fail, with or    *)
(* without having taken effect; the deletion of the cluster may fail too,  *)
(* which the script ignores; and an invocation may be killed.              *)
(***************************************************************************)
EXTENDS Naturals, Sequences

CONSTANTS
    MaxInvocations,  \* bound: runs of the script
    MaxLeftovers     \* bound: runs that end without deleting the cluster, killed
                     \* by a signal no trap sees or by a failing kind delete

VARIABLES
    world,        \* what exists: the cluster and what was installed into it
    credentials,  \* whether the environment holds real credentials
    command,      \* the command of the current or last invocation
    todo,         \* the steps it still has to take
    status,       \* how far it is
    invocations,  \* counter of the bound MaxInvocations
    leftovers     \* counter of the bound MaxLeftovers

vars == <<world, credentials, command, todo, status, invocations, leftovers>>

Things == {"cluster", "crossplane", "image", "provider", "secret", "config", "subscription"}

\* Mutant of Setup: the package is installed before its image is loaded.
SetupSwapped == <<"create_kind_cluster", "install_crossplane", "install_provider",
                  "load_provider_image", "create_credentials", "create_provider_config",
                  "show_status", "cleanup_keep">>

\* The complete setup.
Setup == <<"create_kind_cluster", "install_crossplane", "load_provider_image",
           "install_provider", "create_credentials", "create_provider_config",
           "show_status", "cleanup_keep">>

\* The case statement of main; any other word prints the usage and exits 1.
Script == [
    cluster    |-> <<"create_kind_cluster">>,
    crossplane |-> <<"install_crossplane">>,
    provider   |-> <<"load_provider_image", "install_provider">>,
    config     |-> <<"create_credentials", "create_provider_config">>,
    test       |-> <<"test_provider">>,
    status     |-> <<"show_status">>,
    cleanup    |-> <<"cleanup_test_resources">>,
    all        |-> Setup,
    other      |-> <<"usage">>]
Commands == DOMAIN Script
Suffixes(s) == {SubSeq(s, i, Len(s)) : i \in 1 .. Len(s) + 1}

\* What a step's tools must find to have their effect; the package brings the CRDs.
Needs(step) ==
    CASE step \in {"install_crossplane", "load_provider_image", "create_credentials"} ->
                                              {"cluster"}
      [] step = "install_provider"         -> {"crossplane"}
      [] step \in {"create_provider_config", "test_provider", "show_status",
                   "cleanup_test_resources"} -> {"crossplane", "provider", "image"}
      [] OTHER                             -> {}

\* What else the conditions it then waits for need.
Awaits(step) ==
    CASE step = "install_provider" -> {"image"}
      [] step = "test_provider"    -> {"config", "secret"}
      [] OTHER                     -> {}

\* What exists after a step has taken effect.
After(step, w) ==
    CASE step = "create_kind_cluster"    -> w \cup {"cluster"}
      [] step = "install_crossplane"     -> w \cup {"crossplane"}
      [] step = "load_provider_image"    -> w \cup {"image"}
      [] step = "install_provider"       -> w \cup {"provider"}
      [] step = "create_credentials"     -> w \cup {"secret"}
      [] step = "create_provider_config" -> w \cup {"config"}
      [] step = "test_provider"          -> w \cup {"subscription"}
      [] step = "cleanup_test_resources" -> w \ {"subscription"}
      [] OTHER                           -> w

\* create_credentials checks the environment before it creates anything.
Effective(step) ==
    /\ Needs(step) \subseteq world
    /\ step = "create_credentials" => credentials
    /\ step # "usage"
Able(step) == Effective(step) /\ Awaits(step) \subseteq world

TypeOK ==
    /\ world \subseteq Things
    /\ credentials \in BOOLEAN
    /\ command \in Commands
    /\ todo \in Suffixes(Script[command])
    /\ status # "running" => todo = <<>>
    /\ status \in {"idle", "running", "failing", "succeeded", "failed", "killed"}
    /\ invocations \in 0 .. MaxInvocations
    /\ leftovers \in 0 .. MaxLeftovers

Init ==
    /\ world = {}
    /\ credentials \in BOOLEAN
    /\ command = "all"
    /\ todo = <<>>
    /\ status = "idle"
    /\ invocations = 0
    /\ leftovers = 0

Invoke(c) ==
    /\ status \notin {"running", "failing"}
    /\ invocations < MaxInvocations
    /\ invocations' = invocations + 1
    /\ command' = c
    /\ todo' = Script[c]
    /\ status' = "running"
    /\ UNCHANGED <<world, credentials, leftovers>>

StepSucceeds ==
    /\ status = "running"
    /\ todo # <<>>
    /\ Able(Head(todo))
    /\ world' = After(Head(todo), world)
    /\ todo' = Tail(todo)
    /\ UNCHANGED <<credentials, command, status, invocations, leftovers>>

\* Mutant of Abandon: a script without set -e goes on.
AbandonNot(steps) == Tail(steps)

\* What set -e leaves to do after a failing step.
Abandon(steps) == <<>>

\* Any tool may fail, also after what it started has taken effect.
StepFails ==
    /\ status = "running"
    /\ todo # <<>>
    /\ Head(todo) # "cleanup_keep"
    /\ \/ UNCHANGED world
       \/ Effective(Head(todo)) /\ world' = After(Head(todo), world)
    /\ todo' = Abandon(todo)
    /\ status' = "failing"
    /\ UNCHANGED <<credentials, command, invocations, leftovers>>

\* The exit trap calls cleanup without an argument: the cluster goes, with all in it.
AfterTrap(w) == {}

Exit ==
    /\ \/ status = "running" /\ todo = <<>> /\ status' = "succeeded"
       \/ status = "failing" /\ status' = "failed"
    /\ \/ world' = AfterTrap(world) /\ UNCHANGED leftovers
       \/ /\ leftovers < MaxLeftovers
          /\ leftovers' = leftovers + 1
          /\ UNCHANGED world
    /\ UNCHANGED <<credentials, command, todo, invocations>>

Killed ==
    /\ status \in {"running", "failing"}
    /\ leftovers < MaxLeftovers
    /\ leftovers' = leftovers + 1
    /\ status' = "killed"
    /\ todo' = <<>>
    /\ UNCHANGED <<world, credentials, command, invocations>>

Next ==
    \/ \E c \in Commands : Invoke(c)
    \/ StepSucceeds \/ StepFails \/ Exit \/ Killed

Spec == Init /\ [][Next]_vars

-----------------------------------------------------------------------------
(* Whatever earlier runs, killed or failed in the middle, left behind, the *)
(* steps of a complete setup come in an order in which each one finds what *)
(* it needs: only a failing tool or missing credentials can stop it.       *)
SetupFindsItsNeeds ==
    status = "running" /\ command = "all" /\ todo # <<>> =>
        \/ Able(Head(todo))
        \/ Head(todo) = "create_credentials" /\ ~credentials

(* A setup that completes keeps its cluster: "Don't cleanup on successful  *)
(* completion", so that the test command it advises can run.               *)
SetupIsKept ==
    status = "succeeded" /\ command = "all" /\ leftovers = 0 => "cluster" \in world

=============================================================================
