---------------------------- MODULE UptestTrigger ----------------------------
(***************************************************************************)
(* The end-to-end workflow of .github/workflows/uptest-trigger.yaml: runs  *)
(* that comments on one pull request start, two jobs that each check out   *)
(* the head the pull request has by then, commit statuses, and pushes in   *)
(* between.  A step may fail and a run may be cancelled.                   *)
(***************************************************************************)
EXTENDS Naturals

CONSTANTS
    Runs,        \* workflow runs
    Contexts,    \* status contexts: what the comments' example lists hash to
    NoHash,      \* the one of an empty hash: of a list without examples, or of no list
    MaxCommits   \* bound: commits of the pull request

VARIABLES
    head,    \* the latest commit of the pull request
    run,     \* each run: its place, example list, checkouts and the result of its tests
    status,  \* the latest status of each commit in each context, and the run it is from
    tested   \* what was tested, at which commit and how it ended

vars == <<head, run, status, tested>>

NoCommit == 0
Commits == 1 .. MaxCommits
Places == {"none", "permissions", "checkout", "pending", "prepare", "checkoutAgain",
           "test", "report", "ended"}
NewRun(at, context) ==
    [at |-> at, context |-> context, listed |-> NoCommit, sha |-> NoCommit, ok |-> TRUE, ends |-> "-"]
NoStatus == [state |-> "none"]
Status(state, r) == [state |-> state, by |-> r]

TypeOK ==
    /\ head \in Commits
    /\ run \in [Runs -> [at : Places, context : Contexts, listed : Commits \cup {NoCommit},
                         sha : Commits \cup {NoCommit}, ok : BOOLEAN,
                         ends : {"-", "reported", "lost", "skipped", "cancelled"}]]
    /\ status \in [Commits -> [Contexts -> {NoStatus} \cup
                        [state : {"pending", "success", "failure"}, by : Runs]]]
    /\ tested \subseteq [commit : Commits, context : Contexts, passed : BOOLEAN]
    \* nothing is checked out, listed or reported beyond the head
    /\ \A r \in Runs : run[r].listed <= head /\ run[r].sha <= head
                       /\ (run[r].sha # NoCommit => run[r].listed \in 1 .. run[r].sha)
---------------------------------------------------------------------------
Init ==
    /\ head = 1
    /\ run \in {[r \in Runs |-> NewRun("none", x)] : x \in Contexts}
    /\ status = [c \in Commits |-> [x \in Contexts |-> NoStatus]]
    /\ tested = {}

Push ==
    /\ head < MaxCommits
    /\ head' = head + 1
    /\ UNCHANGED <<run, status, tested>>

Moves(r, from, to) == run[r].at = from /\ run' = [run EXCEPT ![r].at = to]
Ends(r, how) == run' = [run EXCEPT ![r].at = "ended", ![r].ends = how]
Posts(r, context, commit, state) ==
    status' = [status EXCEPT ![commit][context] = Status(state, r)]

\* A comment starts a run.
Comment(r) ==
    /\ run[r].at = "none"
    /\ \E x \in Contexts : run' = [run EXCEPT ![r] = NewRun("permissions", x)]
    /\ UNCHANGED <<head, status, tested>>

\* Without the permission, the keyword or a pull request, or if a step of this job or the
\* listing fails, the jobs that need it are skipped.
Permit(r) == Moves(r, "permissions", "checkout") /\ UNCHANGED <<head, status, tested>>
Skip(r) ==
    /\ run[r].at \in {"permissions", "checkout", "pending"}
    /\ Ends(r, "skipped")
    /\ UNCHANGED <<head, status, tested>>

\* The first checkout; the list of examples and its hash are made of it.
CheckoutForList(r) ==
    /\ run[r].at = "checkout"
    /\ run' = [run EXCEPT ![r].at = "pending", ![r].listed = head]
    /\ UNCHANGED <<head, status, tested>>

CreatePending(r) ==
    /\ Moves(r, "pending", "prepare")
    /\ Posts(r, run[r].context, run[r].listed, "pending")
    /\ UNCHANGED <<head, tested>>

\* Disk, checkout of the main branch, Go.
Prepare(r) == Moves(r, "prepare", "checkoutAgain") /\ UNCHANGED <<head, status, tested>>

\* Mutant of CheckoutForTest: the head of the main branch stays checked out.
CheckoutMain(r) ==
    /\ Moves(r, "checkoutAgain", "test")
    /\ UNCHANGED <<head, status, tested>>

\* The second checkout, of the head by now.
CheckoutForTest(r) ==
    /\ run[r].at = "checkoutAgain"
    /\ run' = [run EXCEPT ![r].at = "test", ![r].sha = head]
    /\ UNCHANGED <<head, status, tested>>

\* A step before the tests that fails: only the steps for failures follow.
StepFails(r) ==
    /\ run[r].at \in {"prepare", "checkoutAgain"}
    /\ run' = [run EXCEPT ![r].at = "report", ![r].ok = FALSE]
    /\ UNCHANGED <<head, status, tested>>

\* The tests of the listed examples, with the vendoring before them.
Test(r) ==
    /\ run[r].at = "test"
    /\ \E passed \in BOOLEAN :
        /\ run' = [run EXCEPT ![r].at = "report", ![r].ok = passed]
        /\ tested' = tested \cup
               {[commit |-> run[r].sha, context |-> run[r].context, passed |-> passed]}
    /\ UNCHANGED <<head, status>>

Result(r) == IF run[r].ok THEN "success" ELSE "failure"

\* Mutant of Report: the result goes to the commit that was listed.
ReportOnList(r) ==
    /\ run[r].at = "report"
    /\ Posts(r, NoHash, run[r].listed, Result(r)) /\ Ends(r, "reported")
    /\ UNCHANGED <<head, tested>>

\* The result is posted on the second checkout; if there was none its name is empty, and
\* the request fails.  Its context is an output "example-hash" of the first job, which has
\* declared "example_hash": the hash is empty whatever the examples.
Report(r) ==
    /\ run[r].at = "report"
    /\ IF run[r].sha = NoCommit THEN Ends(r, "lost") /\ UNCHANGED status
       ELSE Posts(r, NoHash, run[r].sha, Result(r)) /\ Ends(r, "reported")
    /\ UNCHANGED <<head, tested>>

ReportFails(r) ==
    /\ run[r].at = "report"
    /\ Ends(r, "lost")
    /\ UNCHANGED <<head, status, tested>>

\* A cancelled run is neither a success nor a failure.
Cancel(r) ==
    /\ run[r].at \notin {"none", "ended"}
    /\ Ends(r, "cancelled")
    /\ UNCHANGED <<head, status, tested>>

Step(r) ==
    \/ Permit(r) \/ CheckoutForList(r) \/ CreatePending(r)
    \/ Prepare(r) \/ CheckoutForTest(r) \/ Test(r) \/ Report(r)
Next == Push \/ \E r \in Runs : Comment(r) \/ Step(r) \/ Skip(r) \/ StepFails(r)
                                \/ ReportFails(r) \/ Cancel(r)

Spec == Init /\ [][Next]_vars
---------------------------------------------------------------------------
\* A commit that shows a result was tested itself, with the examples of the run that reported
\* it and with that result: pushes between the two checkouts and other runs, which all report
\* in one context, never lend a commit the result of another.
ResultsAreEarned ==
    \A c \in Commits, x \in Contexts :
        LET s == status[c][x]
        IN  s.state \in {"success", "failure"} =>
                [commit |-> c, context |-> run[s.by].context, passed |-> s.state = "success"]
                    \in tested

\* A status that says "Running..." of a run that has ended is left only where the run was
\* cancelled, could not report, or went on to test a later commit: a run that reports on the
\* commit replaces its own pending status.
PendingExplained ==
    \A c \in Commits, x \in Contexts :
        LET s == status[c][x]
        IN  (s.state = "pending" /\ run[s.by].at = "ended") =>
                run[s.by].ends \in {"cancelled", "lost"} \/ run[s.by].sha > c
=============================================================================
