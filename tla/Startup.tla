------------------------------ MODULE Startup ------------------------------
(***************************************************************************)
(* The start of the provider: main of cmd/provider/main.go in every        *)
(* replica, one statement that can fail after the other, the options it    *)
(* fills in and hands to controller.Setup, the default StoreConfig the     *)
(* replicas share, and restarts after a failure.                           *)
(***************************************************************************)
EXTENDS Naturals

CONSTANTS
    Replicas,         \* processes that start, together or one after the other
    ControllerCount,  \* how many controllers Setup sets up
    Namespaces,       \* values of the flag --namespace
    MaxFailures,      \* bound: failures and kills
    MaxEdits          \* bound: edits and deletions of the StoreConfig by users

ASSUME CountAssumption == ControllerCount \in Nat \ {0}
ASSUME StartupBounds == MaxFailures \in Nat /\ MaxEdits \in Nat

VARIABLES
    flags,       \* the command line of each replica
    pc,          \* the statement of main it is at
    options,     \* the Options it has filled in so far
    next,        \* the controller Setup sets up next
    registered,  \* the controllers added to the manager
    seen,        \* the options they were set up with
    store,       \* the default StoreConfig: its scope, and who wrote it last
    failures, edits  \* counters of the bounds

own == <<pc, options, next, registered, seen>>
vars == <<flags, own, store, failures, edits>>

Flags == [stores : BOOLEAN, certs : BOOLEAN, policies : BOOLEAN, namespace : Namespaces]
Options == [gvk : BOOLEAN, essOptions : BOOLEAN, tls : BOOLEAN, policies : BOOLEAN]
Opts(gvk, essOptions, tls, policies) ==
    [gvk |-> gvk, essOptions |-> essOptions, tls |-> tls, policies |-> policies]
NoOptions == Opts(FALSE, FALSE, FALSE, FALSE)
NoStore == [scope |-> "none", by |-> "nobody"]
Stores == {NoStore} \cup [scope : Namespaces, by : {"provider", "user"}]

Statements == {"getConfig", "newManager", "addToScheme", "enableStores", "loadTLS",
               "createStore", "enablePolicies", "setup", "running", "exited", "panicked"}

TypeOK ==
    /\ flags \in [Replicas -> Flags]
    /\ pc \in [Replicas -> Statements]
    /\ options \in [Replicas -> Options]
    /\ next \in [Replicas -> 1 .. ControllerCount + 1]
    /\ registered \in [Replicas -> SUBSET (1 .. ControllerCount)]
    /\ seen \in [Replicas -> SUBSET Options]
    /\ store \in Stores
    /\ failures \in 0 .. MaxFailures /\ edits \in 0 .. MaxEdits
---------------------------------------------------------------------------
Init ==
    /\ flags \in [Replicas -> Flags]
    /\ pc = [r \in Replicas |-> "exited"]
    /\ options = [r \in Replicas |-> NoOptions]
    /\ next = [r \in Replicas |-> 1]
    /\ registered = [r \in Replicas |-> {}]
    /\ seen = [r \in Replicas |-> {}]
    /\ store = NoStore
    /\ failures = 0 /\ edits = 0

\* A new process begins with nothing.
Launch(r) ==
    /\ pc[r] = "exited"
    /\ pc' = [pc EXCEPT ![r] = "getConfig"]
    /\ options' = [options EXCEPT ![r] = NoOptions]
    /\ next' = [next EXCEPT ![r] = 1]
    /\ registered' = [registered EXCEPT ![r] = {}]
    /\ seen' = [seen EXCEPT ![r] = {}]
    /\ UNCHANGED <<flags, store, failures, edits>>

Goes(r, from, to) == pc[r] = from /\ pc' = [pc EXCEPT ![r] = to]
Sets(r, opts) == options' = [options EXCEPT ![r] = opts]

\* The statements before the options, none of which keeps anything this model needs.
Connect(r) ==
    /\ \/ Goes(r, "getConfig", "newManager")
       \/ Goes(r, "newManager", "addToScheme")
       \/ Goes(r, "addToScheme", "enableStores")
    /\ UNCHANGED <<flags, options, next, registered, seen, store, failures, edits>>

\* Mutant of EnableStores: the ESS options are only made for the certificates.
EnableStoresForTLS(r) ==
    /\ Goes(r, "enableStores", IF flags[r].stores THEN "loadTLS" ELSE "enablePolicies")
    /\ Sets(r, IF flags[r].stores
               THEN Opts(TRUE, flags[r].certs, options[r].tls, options[r].policies) ELSE options[r])
    /\ UNCHANGED <<flags, next, registered, seen, store, failures, edits>>

\* The kind of secret stores and the ESS options are set together.
EnableStores(r) ==
    /\ Goes(r, "enableStores", IF flags[r].stores THEN "loadTLS" ELSE "enablePolicies")
    /\ Sets(r, IF flags[r].stores
               THEN Opts(TRUE, TRUE, options[r].tls, options[r].policies) ELSE options[r])
    /\ UNCHANGED <<flags, next, registered, seen, store, failures, edits>>

LoadTLS(r) ==
    /\ Goes(r, "loadTLS", "createStore")
    /\ Sets(r, Opts(options[r].gvk, options[r].essOptions, flags[r].certs, options[r].policies))
    /\ UNCHANGED <<flags, next, registered, seen, store, failures, edits>>

\* Mutant of CreateStore: a store that is there is replaced.
ApplyStore(r) ==
    /\ Goes(r, "createStore", "enablePolicies")
    /\ store' = [scope |-> flags[r].namespace, by |-> "provider"]
    /\ UNCHANGED <<flags, options, next, registered, seen, failures, edits>>

\* Mutant of CreateStore: that the store is there already is an error.
CreateStoreOnce(r) ==
    /\ store = NoStore
    /\ Goes(r, "createStore", "enablePolicies")
    /\ store' = [scope |-> flags[r].namespace, by |-> "provider"]
    /\ UNCHANGED <<flags, options, next, registered, seen, failures, edits>>

\* That the store is there already is ignored.
CreateStore(r) ==
    /\ Goes(r, "createStore", "enablePolicies")
    /\ store' = IF store = NoStore
                THEN [scope |-> flags[r].namespace, by |-> "provider"] ELSE store
    /\ UNCHANGED <<flags, options, next, registered, seen, failures, edits>>

EnablePolicies(r) ==
    /\ Goes(r, "enablePolicies", "setup")
    /\ Sets(r, Opts(options[r].gvk, options[r].essOptions, options[r].tls, flags[r].policies))
    /\ UNCHANGED <<flags, next, registered, seen, store, failures, edits>>

\* Mutant of SetupController: one index too far.
SetupBeyond(r) ==
    /\ pc[r] = "setup" /\ next[r] <= ControllerCount + 1
    /\ next' = [next EXCEPT ![r] = @ + 1]
    /\ registered' = [registered EXCEPT ![r] = @ \cup {next[r]}]
    /\ seen' = [seen EXCEPT ![r] = @ \cup {options[r]}]
    /\ UNCHANGED <<flags, pc, options, store, failures, edits>>

\* The next controller is built with the options and added to the manager; it reads the
\* fields of ESSOptions when the store kind is set.
SetupController(r) ==
    /\ pc[r] = "setup" /\ next[r] <= ControllerCount
    /\ IF options[r].gvk /\ ~options[r].essOptions
       THEN pc' = [pc EXCEPT ![r] = "panicked"] /\ UNCHANGED <<next, registered, seen>>
       ELSE /\ next' = [next EXCEPT ![r] = @ + 1]
            /\ registered' = [registered EXCEPT ![r] = @ \cup {next[r]}]
            /\ seen' = [seen EXCEPT ![r] = @ \cup {options[r]}]
            /\ UNCHANGED pc
    /\ UNCHANGED <<flags, options, store, failures, edits>>

Start(r) ==
    /\ next[r] > ControllerCount
    /\ Goes(r, "setup", "running")
    /\ UNCHANGED <<flags, options, next, registered, seen, store, failures, edits>>

\* Mutant of Fail: Setup goes on with the next controller.
FailContinues(r) ==
    /\ failures < MaxFailures
    /\ IF pc[r] = "setup" /\ next[r] <= ControllerCount
       THEN next' = [next EXCEPT ![r] = @ + 1] /\ UNCHANGED pc
       ELSE /\ pc[r] \in Statements \ {"enableStores", "enablePolicies", "exited", "panicked"}
            /\ pc' = [pc EXCEPT ![r] = "exited"] /\ UNCHANGED next
    /\ failures' = failures + 1
    /\ UNCHANGED <<flags, options, registered, seen, store, edits>>

\* Every error, the first one of Setup and the end of the manager included, is fatal, and
\* the process may be killed.
Fail(r) ==
    /\ failures < MaxFailures
    /\ pc[r] \in Statements \ {"enableStores", "enablePolicies", "exited", "panicked"}
    /\ pc' = [pc EXCEPT ![r] = "exited"]
    /\ failures' = failures + 1
    /\ UNCHANGED <<flags, options, next, registered, seen, store, edits>>

\* A user edits or deletes the store.
EditStore ==
    /\ edits < MaxEdits /\ store # NoStore
    /\ store' \in {NoStore} \cup [scope : Namespaces, by : {"user"}]
    /\ edits' = edits + 1
    /\ UNCHANGED <<flags, own, failures>>

Steps(r) ==
    \/ Launch(r) \/ Connect(r) \/ EnableStores(r) \/ LoadTLS(r) \/ CreateStore(r)
    \/ EnablePolicies(r) \/ SetupController(r) \/ Start(r)
Next == EditStore \/ \E r \in Replicas : Steps(r) \/ Fail(r)

\* The processes run and their container is restarted.
Spec == Init /\ [][Next]_vars /\ \A r \in Replicas : WF_vars(Steps(r))
---------------------------------------------------------------------------
\* What main makes of the command line.
Final(f) == Opts(f.stores, f.stores, f.stores /\ f.certs, f.policies)

\* A process that works has every controller, and all of them were set up with the
\* options its command line asks for: none before a feature was enabled, none without
\* the certificates, none left out after a failure half-way.
RunsComplete ==
    \A r \in Replicas : pc[r] = "running" =>
        /\ registered[r] = 1 .. ControllerCount
        /\ seen[r] = {Final(flags[r])}

\* What it rests on: at each statement a replica holds exactly the options of its command
\* line that main has come to, and Setup has worked through its controllers in order.
Begun == {"getConfig", "newManager", "addToScheme", "enableStores"}
OptionsAt(at, f) ==
    CASE at \in Begun -> NoOptions
      [] at = "loadTLS" -> Opts(f.stores, f.stores, FALSE, FALSE)
      [] at \in {"createStore", "enablePolicies"} ->
             Opts(f.stores, f.stores, f.stores /\ f.certs, FALSE)
      [] OTHER -> Final(f)
OptionsInvOf(r) ==
    /\ pc[r] # "exited" => options[r] = OptionsAt(pc[r], flags[r])
    /\ pc[r] \in {"loadTLS", "createStore"} => flags[r].stores
    /\ pc[r] # "exited" => registered[r] = 1 .. next[r] - 1
    /\ pc[r] \in {"setup", "running"} =>
           seen[r] = IF next[r] = 1 THEN {} ELSE {options[r]}
    /\ pc[r] \notin {"setup", "running", "exited"} => next[r] = 1 /\ seen[r] = {}
    /\ pc[r] = "running" => next[r] = ControllerCount + 1
    /\ pc[r] # "panicked"
OptionsInv == \A r \in Replicas : OptionsInvOf(r)

\* A StoreConfig is written by no process but when it is missing: what a user, or
\* another replica with another namespace, wrote stays across starts and restarts.
StoreIsKept == [][store # NoStore /\ edits' = edits => store' = store]_vars

\* Failures and restarts at any statement do not keep a replica from working in the end;
\* what earlier starts left behind is no obstacle.
EventuallyRuns == \A r \in Replicas : <>[](pc[r] = "running")
=============================================================================
