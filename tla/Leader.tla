------------------------------- MODULE Leader -------------------------------
(***************************************************************************)
(* Leader election between replicas of the provider, with the durations    *)
(* main gives the manager: who may reconcile external resources when the   *)
(* flag --leader-election is set.  The lease lives in the API server; each *)
(* replica measures time on its own from what it last saw or wrote, here   *)
(* in steps of a clock they share.  Requests may fail for any time.        *)
(***************************************************************************)
EXTENDS Naturals, FiniteSets

CONSTANTS
    Replicas,
    RetryPeriod,   \* time between two attempts
    RenewDeadline, \* time a leader keeps trying to renew
    MaxLatency,    \* time from a write to its answer, which a leader counts from
    LeaseDuration, \* time a candidate waits after the last renewal it saw
    Nobody,        \* holder of a lease never taken
    MaxKills       \* bound: processes that end without having to

\* The latest time after its last renewal at which a leader gives up.
GivesUp == RenewDeadline + RetryPeriod + MaxLatency

\* With 50 and 60 seconds in main and the default of 2 between attempts, answers must not
\* take 8 seconds.
ASSUME DurationsAssumption ==
    /\ RetryPeriod \in Nat /\ RenewDeadline \in Nat /\ MaxLatency \in Nat
    /\ LeaseDuration \in Nat
    /\ GivesUp < LeaseDuration
ASSUME NobodyAssumption == Nobody \notin Replicas
ASSUME KillsAssumption == MaxKills \in Nat

VARIABLES
    holder,   \* who the lease names
    role,     \* what each replica does: "candidate", "leader" or "exited"
    current,  \* whether the record a replica saw last is the lease as it is
    age,      \* time since the replica saw that record, or wrote it
    kills     \* counter of the bound MaxKills

vars == <<holder, role, current, age, kills>>

TypeOK ==
    /\ holder \in Replicas \cup {Nobody}
    /\ role \in [Replicas -> {"candidate", "leader", "exited"}]
    /\ current \in [Replicas -> BOOLEAN]
    /\ age \in [Replicas -> 0 .. LeaseDuration]
    /\ kills \in 0 .. MaxKills

Leaders == {r \in Replicas : role[r] = "leader"}
---------------------------------------------------------------------------
Init ==
    /\ holder = Nobody
    /\ role = [r \in Replicas |-> "candidate"]
    /\ current = [r \in Replicas |-> FALSE]
    /\ age = [r \in Replicas |-> 0]
    /\ kills = 0

\* A leader that could not renew in time stops at once, and its process exits: mgr.Start
\* returns an error.
Overdue(r) == role[r] = "leader" /\ age[r] >= GivesUp

\* Mutant of Tick: ages are not capped.
TickOn ==
    /\ \A r \in Replicas : ~Overdue(r)
    /\ age' = [r \in Replicas |-> age[r] + 1]
    /\ UNCHANGED <<holder, role, current, kills>>

\* Time passes, but not beyond the moment a leader has to stop.  Ages beyond the lease
\* duration make no difference.
Tick ==
    /\ \A r \in Replicas : ~Overdue(r)
    /\ age' = [r \in Replicas |-> IF age[r] < LeaseDuration THEN age[r] + 1 ELSE age[r]]
    /\ UNCHANGED <<holder, role, current, kills>>

\* Mutant of See: every read begins the time anew, also of a record that is no news.
SeeAgain(r) ==
    /\ role[r] = "candidate"
    /\ current' = [current EXCEPT ![r] = TRUE]
    /\ age' = [age EXCEPT ![r] = 0]
    /\ UNCHANGED <<holder, role, kills>>

\* A candidate reads a record it has not seen; its time begins anew.
See(r) ==
    /\ role[r] = "candidate" /\ ~current[r]
    /\ current' = [current EXCEPT ![r] = TRUE]
    /\ age' = [age EXCEPT ![r] = 0]
    /\ UNCHANGED <<holder, role, kills>>

\* A write of the lease is news to all others.
Writes(r) ==
    /\ holder' = r
    /\ current' = [s \in Replicas |-> s = r]
    /\ age' = [age EXCEPT ![r] = 0]
    /\ UNCHANGED kills

\* Mutant of Acquire: a candidate takes the lease although its holder may still renew.
AcquireEarly(r) ==
    /\ role[r] = "candidate"
    /\ current[r]
    /\ holder = Nobody \/ age[r] >= RenewDeadline
    /\ Writes(r)
    /\ role' = [role EXCEPT ![r] = "leader"]

\* A candidate takes a lease nobody holds, or one it has not seen renewed for the lease
\* duration; the write fails if the lease has changed since.
Acquire(r) ==
    /\ role[r] = "candidate"
    /\ current[r]
    /\ holder = Nobody \/ age[r] >= LeaseDuration
    /\ Writes(r)
    /\ role' = [role EXCEPT ![r] = "leader"]

Renew(r) ==
    /\ role[r] = "leader" /\ holder = r
    /\ Writes(r)
    /\ UNCHANGED role

\* The process of a leader ends at the deadline, and is the only one that need not be
\* killed; the lease is not released.
Exit(r) ==
    /\ role[r] # "exited"
    /\ IF Overdue(r) THEN UNCHANGED kills ELSE kills < MaxKills /\ kills' = kills + 1
    /\ role' = [role EXCEPT ![r] = "exited"]
    /\ UNCHANGED <<holder, current, age>>

\* A restarted process has another identity, and has seen nothing.
Restart(r) ==
    /\ role[r] = "exited"
    /\ role' = [role EXCEPT ![r] = "candidate"]
    /\ current' = [current EXCEPT ![r] = FALSE]
    /\ age' = [age EXCEPT ![r] = 0]
    /\ UNCHANGED <<holder, kills>>

Next == Tick \/ \E r \in Replicas : See(r) \/ Acquire(r) \/ Renew(r) \/ Exit(r) \/ Restart(r)

Safe == Init /\ [][Next]_vars

\* Time passes, an overdue leader stops, processes are restarted, and a candidate's
\* requests succeed in the end.
Spec ==
    /\ Safe
    /\ WF_vars(Tick)
    /\ \A r \in Replicas :
        /\ WF_vars(Overdue(r) /\ Exit(r)) /\ WF_vars(Restart(r))
        /\ WF_vars(See(r)) /\ SF_vars(Acquire(r))
---------------------------------------------------------------------------
\* Two replicas never reconcile external resources at the same time: a leader cut off
\* from the API server has stopped before another is elected.
OneLeader == \A r, s \in Leaders : r = s

\* What OneLeader rests on: a leader's name is on the lease, nobody has known its last
\* renewal for longer than the leader itself, and it is not overdue for long.
LeaseInv ==
    \A r \in Leaders :
        /\ holder = r
        /\ age[r] <= GivesUp
        /\ \A s \in Replicas : current[s] => age[s] <= age[r]

\* There is always a leader again, however the last one ended.
SomeoneLeads == []<>(Leaders # {})
=============================================================================
