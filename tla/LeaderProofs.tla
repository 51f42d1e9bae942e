---------------------------- MODULE LeaderProofs ----------------------------
(***************************************************************************)
(* Theorems of Leader: type correctness and mutual exclusion, for any      *)
(* number of replicas and any durations that satisfy the assumption.       *)
(***************************************************************************)
EXTENDS Leader, TLAPS

\* The initial state is of the right types.
LEMMA TypeInit == Init => TypeOK
BY DurationsAssumption, KillsAssumption DEF Init, TypeOK

\* Every step keeps the types.
LEMMA TypeStep == TypeOK /\ [Next]_vars => TypeOK'
<1> SUFFICES ASSUME TypeOK, [Next]_vars PROVE TypeOK'
    OBVIOUS
<1> USE DurationsAssumption, KillsAssumption DEF TypeOK, GivesUp
<1>1. CASE Tick
    BY <1>1 DEF Tick
<1>2. ASSUME NEW r \in Replicas, See(r) PROVE TypeOK'
    BY <1>2 DEF See
<1>3. ASSUME NEW r \in Replicas, Acquire(r) PROVE TypeOK'
    BY <1>3 DEF Acquire, Writes
<1>4. ASSUME NEW r \in Replicas, Renew(r) PROVE TypeOK'
    BY <1>4 DEF Renew, Writes
<1>5. ASSUME NEW r \in Replicas, Exit(r) PROVE TypeOK'
    BY <1>5 DEF Exit
<1>6. ASSUME NEW r \in Replicas, Restart(r) PROVE TypeOK'
    BY <1>6 DEF Restart
<1>7. CASE UNCHANGED vars
    BY <1>7 DEF vars
<1> QED
    BY <1>1, <1>2, <1>3, <1>4, <1>5, <1>6, <1>7 DEF Next

\* Every reachable state has the types of TypeOK.
THEOREM TypeCorrect == Spec => []TypeOK
<1>1. Init /\ [][Next]_vars => []TypeOK
    BY TypeInit, TypeStep, PTL
<1> QED
    BY <1>1, PTL DEF Spec, Safe

---------------------------------------------------------------------------
\* Nobody leads at the start.
LEMMA LeaseInit == Init => LeaseInv
BY DEF Init, LeaseInv, Leaders

\* Every step keeps the lease invariant.  The step that matters is Acquire: it resets
\* nobody's age but its own, and there is no leader left, for that leader's renewal would
\* be at least as old as what the candidate has seen, older than a leader may get.
LEMMA LeaseStep == TypeOK /\ LeaseInv /\ [Next]_vars => LeaseInv'
<1> SUFFICES ASSUME TypeOK, LeaseInv, [Next]_vars PROVE LeaseInv'
    OBVIOUS
<1> USE DurationsAssumption, NobodyAssumption DEF TypeOK, GivesUp
<1>1. CASE Tick
    BY <1>1 DEF Tick, LeaseInv, Leaders, Overdue
<1>2. ASSUME NEW r \in Replicas, See(r) PROVE LeaseInv'
    BY <1>2 DEF See, LeaseInv, Leaders
<1>3. ASSUME NEW r \in Replicas, Acquire(r) PROVE LeaseInv'
    <2>1. Leaders = {}
        <3>1. ASSUME NEW s \in Leaders PROVE FALSE
            <4>1. holder = s /\ age[s] <= GivesUp /\ age[r] <= age[s]
                BY <1>3, <3>1 DEF LeaseInv, Acquire
            <4>2. age[r] >= LeaseDuration
                BY <1>3, <3>1, <4>1 DEF Acquire, Leaders
            <4> QED
                BY <3>1, <4>1, <4>2 DEF Leaders
        <3> QED
            BY <3>1
    <2>2. Leaders' = {r}
        BY <1>3, <2>1 DEF Acquire, Leaders
    <2>3. holder' = r /\ age'[r] = 0 /\ current' = [s \in Replicas |-> s = r]
        BY <1>3 DEF Acquire, Writes
    <2>4. ASSUME NEW s \in Replicas, current'[s] PROVE age'[s] <= age'[r]
        <3>1. s = r
            BY <2>3, <2>4, Zenon
        <3> QED
            BY <2>3, <3>1
    <2> QED
        BY <2>2, <2>3, <2>4 DEF LeaseInv
<1>4. ASSUME NEW r \in Replicas, Renew(r) PROVE LeaseInv'
    <2>1. Leaders' = Leaders /\ Leaders \subseteq {r}
        BY <1>4 DEF Renew, Leaders, LeaseInv
    <2>2. holder' = r /\ age'[r] = 0 /\ current' = [s \in Replicas |-> s = r]
        BY <1>4 DEF Renew, Writes
    <2>3. ASSUME NEW s \in Replicas, current'[s] PROVE age'[s] <= age'[r]
        <3>1. s = r
            BY <2>2, <2>3, Zenon
        <3> QED
            BY <2>2, <3>1
    <2> QED
        BY <2>1, <2>2, <2>3 DEF LeaseInv
<1>5. ASSUME NEW r \in Replicas, Exit(r) PROVE LeaseInv'
    BY <1>5 DEF Exit, LeaseInv, Leaders
<1>6. ASSUME NEW r \in Replicas, Restart(r) PROVE LeaseInv'
    BY <1>6 DEF Restart, LeaseInv, Leaders
<1>7. CASE UNCHANGED vars
    BY <1>7 DEF vars, LeaseInv, Leaders
<1> QED
    BY <1>1, <1>2, <1>3, <1>4, <1>5, <1>6, <1>7 DEF Next

\* The lease invariant of the run "leader" holds for all durations.
THEOREM LeaseHolds == Spec => []LeaseInv
<1>1. Init /\ [][Next]_vars => [](TypeOK /\ LeaseInv)
    BY TypeInit, TypeStep, LeaseInit, LeaseStep, PTL
<1> QED
    BY <1>1, PTL DEF Spec, Safe

\* At most one leader, for all durations with which a leader gives up before a candidate
\* may take over.
THEOREM MutualExclusion == Spec => []OneLeader
<1>1. LeaseInv => OneLeader
    BY DEF LeaseInv, OneLeader
<1> QED
    BY <1>1, LeaseHolds, PTL
=============================================================================
