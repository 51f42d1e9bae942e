------------------------------ MODULE MCTools ------------------------------
(***************************************************************************)
(* One run for the three programs beside the provider, each of which is    *)
(* checked in behaviours of its own: the example checker, the local test   *)
(* harness and the end-to-end workflow.  They share nothing; what is not   *)
(* chosen is Unused and takes no step.                                     *)
(***************************************************************************)
EXTENDS MCCheckExamples

CONSTANTS
    MaxInvocations, MaxLeftovers,  \* of TestHarness
    Runs, Contexts, NoHash,        \* of UptestTrigger
    MaxCommits,
    Unused

ASSUME ToolBounds ==
    /\ MaxInvocations \in Nat /\ MaxLeftovers \in Nat /\ MaxCommits \in Nat \ {0}
    /\ NoHash \in Contexts

VARIABLES
    tool,                                     \* the program that is chosen
    world, credentials, command, steps,       \* of TestHarness
    progress, invocations, leftovers,
    head, run, status, tested                 \* of UptestTrigger

Harness == INSTANCE TestHarness WITH todo <- steps, status <- progress
Uptest == INSTANCE UptestTrigger

NoChecker ==
    /\ crdTodo = Unused /\ crds = Unused /\ examples = Unused
    /\ todo = Unused /\ errors = Unused /\ exit = Unused
NoHarness ==
    /\ world = Unused /\ credentials = Unused /\ command = Unused /\ steps = Unused
    /\ progress = Unused /\ invocations = Unused /\ leftovers = Unused
NoUptest == head = Unused /\ run = Unused /\ status = Unused /\ tested = Unused

harnessVars == <<world, credentials, command, steps, progress, invocations, leftovers>>
uptestVars == <<head, run, status, tested>>

ToolInit ==
    \/ tool = "checker" /\ Init /\ NoHarness /\ NoUptest
    \/ tool = "harness" /\ Harness!Init /\ NoChecker /\ NoUptest
    \/ tool = "uptest" /\ Uptest!Init /\ NoChecker /\ NoHarness

ToolNext ==
    \/ tool = "checker" /\ Next /\ UNCHANGED <<tool, harnessVars, uptestVars>>
    \/ tool = "harness" /\ Harness!Next /\ UNCHANGED <<tool, vars, uptestVars>>
    \/ tool = "uptest" /\ Uptest!Next /\ UNCHANGED <<tool, vars, harnessVars>>

ToolSpec == ToolInit /\ [][ToolNext]_<<tool, vars, harnessVars, uptestVars>>
---------------------------------------------------------------------------
\* The types of the program that is chosen.
ToolTypeOK ==
    /\ tool = "checker" => TypeOK
    /\ tool = "harness" => Harness!TypeOK
    /\ tool = "uptest" => Uptest!TypeOK

\* CheckExamples: examples that pass were looked at to their ends.
CheckerLooks == tool = "checker" => PassedIsChecked

\* TestHarness: a complete setup never comes to a step whose needs are missing.
SetupFindsItsNeeds == tool = "harness" => Harness!SetupFindsItsNeeds

\* UptestTrigger: a commit that shows a result was tested, with that result.
ResultsAreEarned == tool = "uptest" => Uptest!ResultsAreEarned
=============================================================================
