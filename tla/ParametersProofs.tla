-------------------------- MODULE ParametersProofs --------------------------
(***************************************************************************)
(* What the user wrote wins, and what only initProvider gives is for the   *)
(* creation: UserWins and InitialOnly of MCResource, for every schema,     *)
(* path, value and bound.                                                  *)
(*                                                                         *)
(* What is said of the operators of Documents is said of X1, X2 and X: of  *)
(* structs without structs inside, of those around them and of the         *)
(* parameters of a kind, each from the one before.                         *)
(***************************************************************************)
EXTENDS MCResource, TLAPS

---------------------------------------------------------------------------
\* Whether doc is mine with more fields, in the structs inside it as well.

Within1(struct, part, doc) ==
    \A f \in DOMAIN part :
        /\ f \in DOMAIN doc
        /\ IF struct[f].class = "blocks" THEN DOMAIN part[f] = DOMAIN doc[f]
           ELSE part[f] = doc[f]
Within2(struct, part, doc) ==
    /\ Within1(struct, part, doc)
    /\ \A f \in P!Blocks(struct, part) : \A i \in DOMAIN part[f] :
           Within1(struct[f].of, part[f][i], doc[f][i])
Within(struct, part, doc) ==
    /\ Within1(struct, part, doc)
    /\ \A f \in P!Blocks(struct, part) : \A i \in DOMAIN part[f] :
           Within2(struct[f].of, part[f][i], doc[f][i])

\* A document is within itself.
LEMMA WithinItself1 == \A s, d : Within1(s, d, d)
  BY DEF Within1
LEMMA WithinItself2 == \A s, d : Within2(s, d, d)
  BY WithinItself1 DEF Within2
LEMMA WithinItself == \A s, d : Within(s, d, d)
  BY WithinItself1, WithinItself2 DEF Within

\* LateInitialized adds to a document and changes nothing that is there, however deep it
\* goes (LateInitialize of each kind).
LEMMA LateInitializedAdds1 ==
  \A s, m, d, o, b : Within1(s, m, d) => Within1(s, m, P!LateInitialized1(s, d, o, b))
  BY DEF Within1, P!LateInitialized1, P!LateInitializedWith

LEMMA LateInitializedAdds2 ==
  \A s, m, d, o, b : Within2(s, m, d) => Within2(s, m, P!LateInitialized2(s, d, o, b))
<1> SUFFICES ASSUME NEW s, NEW m, NEW d, NEW o, NEW b, Within2(s, m, d)
             PROVE  Within2(s, m, P!LateInitialized2(s, d, o, b))
  OBVIOUS
<1> DEFINE n == P!LateInitialized2(s, d, o, b)
<1>1. Within1(s, m, n)
  BY DEF Within2, Within1, P!Blocks, P!LateInitialized2, P!LateInitializedWith
<1>2. ASSUME NEW f \in P!Blocks(s, m), NEW i \in DOMAIN m[f]
      PROVE  Within1(s[f].of, m[f][i], n[f][i])
  <2>1. f \in DOMAIN d /\ i \in DOMAIN d[f] /\ Within1(s[f].of, m[f][i], d[f][i])
    BY <1>2 DEF Within2, Within1, P!Blocks
  <2>2. \/ n[f] = d[f]
        \/ n[f][i] = P!LateInitialized1(s[f].of, d[f][i], P!Block(o, f, i), b)
    BY <1>2, <2>1 DEF P!Blocks, P!LateInitialized2, P!LateInitializedWith
  <2> QED
    BY <2>1, <2>2, LateInitializedAdds1
<1> QED
  BY <1>1, <1>2 DEF Within2

LEMMA LateInitializedAdds ==
  \A s, m, d, o, b : Within(s, m, d) => Within(s, m, P!LateInitialized(s, d, o, b))
<1> SUFFICES ASSUME NEW s, NEW m, NEW d, NEW o, NEW b, Within(s, m, d)
             PROVE  Within(s, m, P!LateInitialized(s, d, o, b))
  OBVIOUS
<1> DEFINE n == P!LateInitialized(s, d, o, b)
<1>1. Within1(s, m, n)
  BY DEF Within, Within1, P!Blocks, P!LateInitialized, P!LateInitializedWith
<1>2. ASSUME NEW f \in P!Blocks(s, m), NEW i \in DOMAIN m[f]
      PROVE  Within2(s[f].of, m[f][i], n[f][i])
  <2>1. f \in DOMAIN d /\ i \in DOMAIN d[f] /\ Within2(s[f].of, m[f][i], d[f][i])
    BY <1>2 DEF Within, Within1, P!Blocks
  <2>2. \/ n[f] = d[f]
        \/ n[f][i] = P!LateInitialized2(s[f].of, d[f][i], P!Block(o, f, i), b)
    BY <1>2, <2>1 DEF P!Blocks, P!LateInitialized, P!LateInitializedWith
  <2> QED
    BY <2>1, <2>2, LateInitializedAdds2
<1> QED
  BY <1>1, <1>2 DEF Within

\* A document has what is within it ...
LEMMA WithinHolds1 == \A s, m, d : Within1(s, m, d) => P!Holds1(s, m, d)
  BY DEF Within1, P!Holds1
LEMMA WithinHolds2 == \A s, m, d : Within2(s, m, d) => P!Holds2(s, m, d)
  BY WithinHolds1 DEF Within2, P!Holds2

\* ... and still has it when something is merged into it, empty values aside
\* (GetMergedParameters of each kind).
LEMMA MergeHolds1 ==
  \A s, m, d, e : Within1(s, m, d) => P!Holds1(s, m, P!Merge1(s, d, e))
  BY DEF Within1, P!Holds1, P!Merge1, P!MergeWith, P!MergedScalar, P!Keys, P!FieldOr

LEMMA MergeHolds2 ==
  \A s, m, d, e : Within2(s, m, d) => P!Holds2(s, m, P!Merge2(s, d, e))
<1> SUFFICES ASSUME NEW s, NEW m, NEW d, NEW e, Within2(s, m, d)
             PROVE  P!Holds2(s, m, P!Merge2(s, d, e))
  OBVIOUS
<1> DEFINE n == P!Merge2(s, d, e)
<1>1. P!Holds1(s, m, n)
  BY DEF Within2, Within1, P!Holds1, P!Merge2, P!MergeWith, P!MergedScalar, P!Keys, P!FieldOr, P!Blocks
<1>2. ASSUME NEW f \in P!Blocks(s, m), NEW i \in DOMAIN m[f]
      PROVE  P!Holds1(s[f].of, m[f][i], n[f][i])
  <2>1. f \in DOMAIN d /\ i \in DOMAIN d[f] /\ Within1(s[f].of, m[f][i], d[f][i])
    BY <1>2 DEF Within2, Within1, P!Blocks
  <2>2. \/ n[f] = d[f]
        \/ n[f][i] = P!Merge1(s[f].of, d[f][i], P!Block(e, f, i))
    BY <1>2, <2>1 DEF P!Blocks, P!Merge2, P!MergeWith, P!Keys
  <2> QED
    BY <2>1, <2>2, MergeHolds1, WithinHolds1
<1> QED
  BY <1>1, <1>2 DEF P!Holds2

LEMMA MergeHolds ==
  \A s, m, d, e : Within(s, m, d) => P!Holds(s, m, P!Merge(s, d, e))
<1> SUFFICES ASSUME NEW s, NEW m, NEW d, NEW e, Within(s, m, d)
             PROVE  P!Holds(s, m, P!Merge(s, d, e))
  OBVIOUS
<1> DEFINE n == P!Merge(s, d, e)
<1>1. P!Holds1(s, m, n)
  BY DEF Within, Within1, P!Holds1, P!Merge, P!MergeWith, P!MergedScalar, P!Keys, P!FieldOr, P!Blocks
<1>2. ASSUME NEW f \in P!Blocks(s, m), NEW i \in DOMAIN m[f]
      PROVE  P!Holds2(s[f].of, m[f][i], n[f][i])
  <2>1. f \in DOMAIN d /\ i \in DOMAIN d[f] /\ Within2(s[f].of, m[f][i], d[f][i])
    BY <1>2 DEF Within, Within1, P!Blocks
  <2>2. \/ n[f] = d[f]
        \/ n[f][i] = P!Merge2(s[f].of, d[f][i], P!Block(e, f, i))
    BY <1>2, <2>1 DEF P!Blocks, P!Merge, P!MergeWith, P!Keys
  <2> QED
    BY <2>1, <2>2, MergeHolds2, WithinHolds2
<1> QED
  BY <1>1, <1>2 DEF P!Holds

\* A resource that is not updated is untouched.
LEMMA UntouchedItself1 == \A s, m, i, r : P!Untouched1(s, m, i, r, r)
  BY DEF P!Untouched1
LEMMA UntouchedItself2 == \A s, m, i, r : P!Untouched2(s, m, i, r, r)
  BY UntouchedItself1 DEF P!Untouched2, P!InAll
LEMMA UntouchedItself == \A s, m, i, r : P!Untouched(s, m, i, r, r)
  BY UntouchedItself1, UntouchedItself2 DEF P!Untouched, P!InAll

\* An update to the merge leaves alone what only initProvider gives: a field is ignored,
\* or the key or the field of a block in it is (Ignored, the hook of ignored changes).
LEMMA UpdatedLeaves1 ==
  \A s, m, i, r : P!Untouched1(s, m, i, r, P!Updated1(s, m, i, r, P!Merge1(s, m, i)))
  BY DEF P!Untouched1, P!Updated1, P!UpdatedWith, P!Merge1, P!MergeWith, P!Keys, P!FieldOr, P!Ignored

LEMMA UpdatedLeaves2 ==
  \A s, m, i, r : P!Untouched2(s, m, i, r, P!Updated2(s, m, i, r, P!Merge2(s, m, i)))
<1> SUFFICES ASSUME NEW s, NEW m, NEW i, NEW r
             PROVE  P!Untouched2(s, m, i, r, P!Updated2(s, m, i, r, P!Merge2(s, m, i)))
  OBVIOUS
<1> DEFINE c == P!Merge2(s, m, i)
           n == P!Updated2(s, m, i, r, c)
<1>1. P!Untouched1(s, m, i, r, n)
  <2>1. ASSUME NEW f \in DOMAIN i \cap DOMAIN r, f \notin DOMAIN m
        PROVE  f \in DOMAIN n /\ n[f] = r[f]
    BY <2>1 DEF P!Updated2, P!UpdatedWith, P!Ignored
  <2>2. ASSUME NEW f \in DOMAIN i \cap DOMAIN r, f \in DOMAIN m, s[f].class = "map",
               NEW k \in (DOMAIN i[f] \cap DOMAIN r[f]) \ DOMAIN m[f]
        PROVE  f \in DOMAIN n /\ k \in DOMAIN n[f] /\ n[f][k] = r[f][k]
    <3>1. f \in DOMAIN c /\ k \in DOMAIN c[f]
      BY <2>2 DEF P!Merge2, P!MergeWith, P!Keys
    <3> HIDE DEF c
    <3> QED
      BY <2>2, <3>1 DEF P!Updated2, P!UpdatedWith, P!Ignored, P!FieldOr
  <2> HIDE DEF n
  <2> QED
    BY <2>1, <2>2 DEF P!Untouched1
<1>2. ASSUME NEW f \in P!Blocks(s, m) \cap DOMAIN i \cap DOMAIN r \cap DOMAIN n,
             NEW j \in P!InAll(m, i, r, n, f)
      PROVE  P!Untouched1(s[f].of, m[f][j], i[f][j], r[f][j], n[f][j])
  <2>1. /\ f \in P!Blocks(s, c) \ P!Ignored(m, i)
        /\ DOMAIN c[f] = DOMAIN m[f]
        /\ c[f][j] = P!Merge1(s[f].of, m[f][j], i[f][j])
    BY <1>2 DEF P!Merge2, P!MergeWith, P!Keys, P!Blocks, P!Block, P!Element, P!FieldOr, P!Ignored, P!InAll
  <2>2. n[f][j] = P!Updated1(s[f].of, m[f][j], i[f][j], r[f][j], c[f][j])
    <3> HIDE DEF c
    <3> QED
      BY <1>2, <2>1
      DEF P!Updated2, P!UpdatedWith, P!Blocks, P!Block, P!Element, P!FieldOr, P!InAll
  <2> QED
    BY <2>1, <2>2, UpdatedLeaves1
<1>3. P!Untouched2(s, m, i, r, n)
  <2> HIDE DEF n
  <2> QED
    BY <1>1, <1>2 DEF P!Untouched2
<1> QED
  BY <1>3

LEMMA UpdatedLeaves ==
  \A s, m, i, r : P!Untouched(s, m, i, r, P!Updated(s, m, i, r, P!Merge(s, m, i)))
<1> SUFFICES ASSUME NEW s, NEW m, NEW i, NEW r
             PROVE  P!Untouched(s, m, i, r, P!Updated(s, m, i, r, P!Merge(s, m, i)))
  OBVIOUS
<1> DEFINE c == P!Merge(s, m, i)
           n == P!Updated(s, m, i, r, c)
<1>1. P!Untouched1(s, m, i, r, n)
  <2>1. ASSUME NEW f \in DOMAIN i \cap DOMAIN r, f \notin DOMAIN m
        PROVE  f \in DOMAIN n /\ n[f] = r[f]
    BY <2>1 DEF P!Updated, P!UpdatedWith, P!Ignored
  <2>2. ASSUME NEW f \in DOMAIN i \cap DOMAIN r, f \in DOMAIN m, s[f].class = "map",
               NEW k \in (DOMAIN i[f] \cap DOMAIN r[f]) \ DOMAIN m[f]
        PROVE  f \in DOMAIN n /\ k \in DOMAIN n[f] /\ n[f][k] = r[f][k]
    <3>1. f \in DOMAIN c /\ k \in DOMAIN c[f]
      BY <2>2 DEF P!Merge, P!MergeWith, P!Keys
    <3> HIDE DEF c
    <3> QED
      BY <2>2, <3>1 DEF P!Updated, P!UpdatedWith, P!Ignored, P!FieldOr
  <2> HIDE DEF n
  <2> QED
    BY <2>1, <2>2 DEF P!Untouched1
<1>2. ASSUME NEW f \in P!Blocks(s, m) \cap DOMAIN i \cap DOMAIN r \cap DOMAIN n,
             NEW j \in P!InAll(m, i, r, n, f)
      PROVE  P!Untouched2(s[f].of, m[f][j], i[f][j], r[f][j], n[f][j])
  <2>1. /\ f \in P!Blocks(s, c) \ P!Ignored(m, i)
        /\ DOMAIN c[f] = DOMAIN m[f]
        /\ c[f][j] = P!Merge2(s[f].of, m[f][j], i[f][j])
    BY <1>2 DEF P!Merge, P!MergeWith, P!Keys, P!Blocks, P!Block, P!Element, P!FieldOr, P!Ignored, P!InAll
  <2>2. n[f][j] = P!Updated2(s[f].of, m[f][j], i[f][j], r[f][j], c[f][j])
    <3> HIDE DEF c
    <3> QED
      BY <1>2, <2>1
      DEF P!Updated, P!UpdatedWith, P!Blocks, P!Block, P!Element, P!FieldOr, P!InAll
  <2> QED
    BY <2>1, <2>2, UpdatedLeaves2
<1>3. P!Untouched(s, m, i, r, n)
  <2> HIDE DEF n
  <2> QED
    BY <1>1, <1>2 DEF P!Untouched
<1> QED
  BY <1>3

---------------------------------------------------------------------------
(***************************************************************************)
(* forProvider is what the user wrote and what late initialisation added,  *)
(* which is nothing where the policies leave it out.                       *)
(***************************************************************************)

\* The inductive invariant.
ParameterInv ==
    \/ /\ aspect = "admission"
       /\ exists = FALSE
    \/ /\ aspect = "parameters"
       /\ Within(P!Struct, mine, forProvider)
       /\ late = "never" => forProvider = mine
       /\ drifts \in Nat

LEMMA InitParameters == AspectInit => ParameterInv
<1>1. CASE aspect = "admission" /\ NoParameters
  BY <1>1 DEF NoParameters, ParameterInv
<1>2. CASE aspect = "parameters" /\ P!Init
  BY <1>2, WithinItself DEF P!Init, ParameterInv
<1> QED
  BY <1>1, <1>2 DEF AspectInit

LEMMA StepParameters == ParameterInv /\ [AspectNext]_allVars => ParameterInv'
<1> SUFFICES ASSUME ParameterInv, [AspectNext]_allVars
             PROVE  ParameterInv'
  OBVIOUS
<1>1. CASE aspect = "admission" /\ UNCHANGED <<aspect, onlyParameters>>
  BY <1>1 DEF ParameterInv, onlyParameters
<1>2. ASSUME aspect = "parameters", UNCHANGED <<aspect, kind, late>>,
             Within(P!Struct, mine', forProvider'),
             late = "never" => forProvider' = mine',
             drifts' \in Nat
      PROVE  ParameterInv'
  BY <1>2 DEF ParameterInv, P!Struct
<1>3. ASSUME Parameter(P!Edit)
      PROVE  ParameterInv'
  <2>1. forProvider' = mine' \/ UNCHANGED <<mine, forProvider>>
    BY <1>3 DEF Parameter, P!Edit
  <2> QED
    BY <1>2, <1>3, <2>1, WithinItself DEF Parameter, P!Edit, P!choice, ParameterInv
<1>4. ASSUME Parameter(P!Create)
      PROVE  ParameterInv'
  BY <1>2, <1>4 DEF Parameter, P!Create, P!choice, ParameterInv
<1>5. ASSUME Parameter(P!LateInitialize)
      PROVE  ParameterInv'
  <2>1. Within(P!Struct, mine, P!LateInitializedSpec)
    BY <1>5, LateInitializedAdds DEF P!LateInitializedSpec, ParameterInv, Parameter
  <2> QED
    BY <1>2, <1>5, <2>1 DEF Parameter, P!LateInitialize, P!choice, ParameterInv
<1>6. ASSUME Parameter(P!Update)
      PROVE  ParameterInv'
  BY <1>2, <1>6 DEF Parameter, P!Update, P!choice, ParameterInv
<1>7. ASSUME Parameter(P!Drift)
      PROVE  ParameterInv'
  BY <1>2, <1>7 DEF Parameter, P!Drift, P!choice, ParameterInv
<1>8. CASE UNCHANGED allVars
  <2>1. UNCHANGED <<aspect, onlyParameters, kind>>
    BY <1>8 DEF allVars, vars
  <2> QED
    BY <1>1, <1>2, <2>1 DEF onlyParameters, ParameterInv
<1> QED
  BY <1>1, <1>3, <1>4, <1>5, <1>6, <1>7, <1>8 DEF AspectNext, P!Next, P!Reconciles, Parameter

\* Every non-empty value of forProvider the user wrote is what Terraform is given, whatever
\* the schema and whatever initProvider and late initialisation add.
THEOREM WrittenWins == AspectSpec => []UserWins
<1>1. ParameterInv => UserWins
  BY MergeHolds DEF ParameterInv, UserWins, P!UserWins, P!Merged
<1> QED
  BY <1>1, InitParameters, StepParameters, PTL DEF AspectSpec

\* Without late initialisation no update changes what only initProvider gives, also after
\* edits of either part of the spec and changes behind the program's back.
THEOREM InitialStays == AspectSpec => InitialOnly
<1> DEFINE Leaves == late = "never" /\ exists /\ drifts' = drifts =>
                         P!Untouched(P!Struct, mine, initProvider, attributes, attributes')
<1>1. ParameterInv /\ [AspectNext]_allVars => [Leaves]_(P!vars)
  <2> SUFFICES ASSUME ParameterInv, [AspectNext]_allVars,
                      late = "never", exists, drifts' = drifts
               PROVE  P!Untouched(P!Struct, mine, initProvider, attributes, attributes')
    OBVIOUS
  <2>1. aspect = "parameters" /\ forProvider = mine /\ drifts \in Nat
    BY DEF ParameterInv
  <2>2. CASE attributes' = attributes
    BY <2>2, UntouchedItself
  <2>3. CASE Parameter(P!Update)
    <3>1. attributes' = P!Updated(P!Struct, mine, initProvider, attributes,
                                  P!Merge(P!Struct, mine, initProvider))
      BY <2>1, <2>3 DEF Parameter, P!Update, P!UpdateOf, P!Merged
    <3> QED
      BY <3>1, UpdatedLeaves
  <2>4. ~Parameter(P!Create)
    BY DEF Parameter, P!Create
  <2>5. ~Parameter(P!Drift)
    <3>1. Parameter(P!Drift) => drifts' = drifts + 1
      BY DEF Parameter, P!Drift
    <3> QED
      BY <2>1, <3>1
  <2> QED
    BY <2>1, <2>2, <2>3, <2>4, <2>5
    DEF AspectNext, Parameter, P!Next, P!Reconciles, P!Edit, P!LateInitialize, allVars, onlyParameters
<1> QED
  BY <1>1, InitParameters, StepParameters, PTL DEF AspectSpec, InitialOnly, P!InitialOnly
=============================================================================
