--------------------------- MODULE ExternalResource ---------------------------
(***************************************************************************)
(* What a managed resource promises of the external resource it stands     *)
(* for: there is at most one, it is destroyed only once the managed        *)
(* resource is deleted, and the managed resource stays until it is gone.   *)
(* A crash, or a run that breaks off, may lose the external resource that  *)
(* was last provisioned, and others may take it away.                      *)
(***************************************************************************)
EXTENDS Naturals

CONSTANT Ids   \* identifiers of external resources

VARIABLES
    claim,     \* the managed resource: "live", "deleted" (requested) or "gone"
    managed,   \* the external resources the program knows of
    orphans,   \* those it has lost
    taken      \* how many others have taken away

avars == <<claim, managed, orphans, taken>>

AInit == claim = "live" /\ managed = {} /\ orphans = {} /\ taken = 0

Provision ==
    /\ claim # "gone" /\ managed = {}
    /\ \E id \in Ids \ orphans : managed' = {id}
    /\ UNCHANGED <<claim, orphans, taken>>

Deprovision ==
    /\ claim = "deleted" /\ managed # {}
    /\ managed' = {}
    /\ UNCHANGED <<claim, orphans, taken>>

Lose ==
    /\ managed # {}
    /\ orphans' = orphans \cup managed
    /\ managed' = {}
    /\ UNCHANGED <<claim, taken>>

Take ==
    /\ \E id \in managed \cup orphans :
        managed' = managed \ {id} /\ orphans' = orphans \ {id}
    /\ taken' = taken + 1
    /\ UNCHANGED claim

Request == claim = "live" /\ claim' = "deleted" /\ UNCHANGED <<managed, orphans, taken>>
Release ==
    /\ claim = "deleted" /\ managed = {}
    /\ claim' = "gone"
    /\ UNCHANGED <<managed, orphans, taken>>
\* A resource without a finalizer goes at once.
Abandon ==
    /\ claim = "live" /\ managed = {}
    /\ claim' = "gone"
    /\ UNCHANGED <<managed, orphans, taken>>

ANext == Provision \/ Deprovision \/ Lose \/ Take \/ Request \/ Release \/ Abandon
ASpec == AInit /\ [][ANext]_avars
=============================================================================
