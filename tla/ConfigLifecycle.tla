--------------------------- MODULE ConfigLifecycle ---------------------------
(***************************************************************************)
(* What the ProviderConfig controller promises, without caches, queues or  *)
(* snapshots: a config, once guarded, leaves only by a deletion request,   *)
(* and not before every resource the request found registered as its user  *)
(* has let go of it.                                                       *)
(***************************************************************************)
CONSTANTS Configs, Resources

VARIABLES
    phase,  \* where each config is in its life
    owed    \* the users each closing config still waits for

lifeVars == <<phase, owed>>

Phases == {"absent", "open", "guarded", "closing"}

Init ==
    /\ phase \in [Configs -> {"absent", "guarded"}]
    /\ owed = [c \in Configs |-> {}]

Move(c, from, to) ==
    /\ phase[c] = from
    /\ phase' = [phase EXCEPT ![c] = to]

Create(c)  == Move(c, "absent", "open") /\ UNCHANGED owed
Protect(c) == Move(c, "open", "guarded") /\ UNCHANGED owed
Vanish(c)  == Move(c, "open", "absent") /\ UNCHANGED owed

RequestDelete(c) ==
    /\ Move(c, "guarded", "closing")
    /\ \E users \in SUBSET Resources : owed' = [owed EXCEPT ![c] = users]

LetGo(r) ==
    /\ owed' = [c \in Configs |-> owed[c] \ {r}]
    /\ UNCHANGED phase

Remove(c) ==
    /\ owed[c] = {}
    /\ Move(c, "closing", "absent")
    /\ UNCHANGED owed

Next ==
    \/ \E c \in Configs : \/ Create(c) \/ Protect(c) \/ Vanish(c)
                          \/ RequestDelete(c) \/ Remove(c)
    \/ \E r \in Resources : LetGo(r)

Spec == Init /\ [][Next]_lifeVars

=============================================================================
