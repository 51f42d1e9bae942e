----------------------------- MODULE MCResource -----------------------------
(***************************************************************************)
(* One run for both aspects of a managed resource's spec, each checked in  *)
(* behaviours of its own: which required parameters are given (Admission)  *)
(* and what becomes of their values (Parameters).  What is not chosen      *)
(* takes no step: nothing is stored, or what Parameters has is Unused      *)
(* (exists, a condition of actions, is FALSE).                             *)
(***************************************************************************)
EXTENDS MCAdmission

CONSTANTS
    CheckedPaths, UserValues, InitialValues,    \* of Parameters
    Items, LateModes, MaxParameterEdits, MaxDrifts,
    Unused

VARIABLES
    aspect,                                        \* the aspect that is chosen
    path, late, changes, mine, forProvider,        \* of Parameters
    initProvider, exists, attributes, drifts

P == INSTANCE Parameters WITH remote <- attributes, MaxEdits <- MaxParameterEdits

\* The classes of the fields along a path.
Shape(struct, p) ==
    LET At(n) == CASE n = 1 -> struct
                   [] n = 2 -> struct[p[1]].of
                   [] n = 3 -> struct[p[1]].of[p[2]].of
    IN  [n \in DOMAIN p |-> <<At(n)[p[n]].class, At(n)[p[n]].null>>]
AllPaths == UNION {{<<k, p>> : p \in P!Paths(Kinds[k].struct)} : k \in KindNames}

\* One path of each shape: the program treats fields of the same classes alike.
ShapePaths ==
    LET shapes == {Shape(Kinds[c[1]].struct, c[2]) : c \in AllPaths}
    IN  {CHOOSE c \in AllPaths : Shape(Kinds[c[1]].struct, c[2]) = s : s \in shapes}

onlyAdmission == <<focus, stored, spec, remote>>
onlyParameters == <<path, late, changes, mine, forProvider, initProvider, exists, attributes, drifts>>
allVars == <<aspect, vars, onlyParameters>>

NoAdmission == focus = {} /\ stored = FALSE /\ spec = NoSpec /\ remote = FALSE
NoParameters ==
    /\ path = Unused /\ late = Unused /\ changes = Unused /\ mine = Unused
    /\ forProvider = Unused
    /\ initProvider = Unused /\ exists = FALSE /\ attributes = Unused /\ drifts = Unused

AspectInit ==
    \/ aspect = "admission" /\ Init /\ NoParameters
    \/ aspect = "parameters" /\ P!Init /\ NoAdmission

Parameter(step) == aspect = "parameters" /\ step /\ UNCHANGED <<aspect, onlyAdmission>>
AspectNext ==
    \/ aspect = "admission" /\ Next /\ UNCHANGED <<aspect, onlyParameters>>
    \/ Parameter(P!Next)

AspectSpec == AspectInit /\ [][AspectNext]_allVars /\ WF_allVars(Parameter(P!Reconciles))
---------------------------------------------------------------------------
\* Parameters: what the user wrote wins, initProvider is for the creation, and late
\* initialisation and updates come to an end.
UserWins == aspect = "parameters" => P!UserWins
InitialOnly == P!InitialOnly
Settles == aspect = "parameters" => P!Settles
=============================================================================
