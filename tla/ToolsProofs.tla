----------------------------- MODULE ToolsProofs -----------------------------
(***************************************************************************)
(* What the three programs beside the provider keep, for any files, any    *)
(* number of invocations, runs, contexts and commits: their types, that    *)
(* examples that pass were looked at, that a complete setup finds what it  *)
(* needs, and that commit statuses tell what was tested.                   *)
(***************************************************************************)
EXTENDS MCTools, SequenceTheorems, WellFoundedInduction, TLAPS

---------------------------------------------------------------------------
\* The example checker.

\* A nonempty set of places of a file has a last one: by the well-foundedness of <, for
\* the distances from the end.
LEMMA HasMax ==
    ASSUME NEW n \in Nat, NEW S, S \subseteq 1 .. n, S # {}
    PROVE  Max(S) \in S
<1> DEFINE D == {n - i : i \in S}
<1>1. \A i \in S : i \in Nat /\ i <= n /\ n - i \in Nat
    OBVIOUS
<1>2. D # {} /\ D \subseteq Nat
    BY <1>1
<1> HIDE DEF D
<1>3. PICK d \in D : \A e \in D : ~(<<e, d>> \in OpToRel(<, Nat))
    BY <1>2, NatLessThanWellFounded, WFMin
<1>4. PICK m \in S : d = n - m
    BY <1>3 DEF D
<1>5. ASSUME NEW i \in S PROVE m >= i
    <2>1. ~(n - i < n - m)
        BY <1>1, <1>3, <1>4 DEF D, OpToRel
    <2> QED BY <2>1, <1>1
<1> QED BY <1>5 DEF Max

\* What is loaded is served and found under its own key; what is validated was validated
\* against all the CRDs there are; and only files without errors end in success.
CheckerInv ==
    /\ TypeOK
    /\ \A key \in DOMAIN crds : crds[key].key = key /\ crds[key].served
    /\ \A file \in examples \ todo : crdTodo = {} /\ errors[file] = Problems(file)
    /\ exit = 0 => \A file \in examples : errors[file] = {}

\* What two functions are defined on together.
LEMMA Merging == \A s, t : DOMAIN (s ++ t) = DOMAIN s \cup DOMAIN t
    BY DEF ++

\* A CRD file yields served versions only, each under its own key.
LEMMA LoadedServed ==
    ASSUME NEW file \in CrdFiles
    PROVE  /\ DOMAIN Loaded(file) \subseteq {file[i].key : i \in Documents(file)}
           /\ \A key \in DOMAIN Loaded(file) : Loaded(file)[key].key = key /\ Loaded(file)[key].served
<1> DEFINE places == {i \in Documents(file) : file[i].served}
<1>1. Len(file) \in Nat /\ places \subseteq 1 .. Len(file)
    BY CheckerFiles DEF Documents
<1>2. Loaded(file) = [key \in {file[i].key : i \in places} |->
                         file[Max({i \in places : file[i].key = key})]]
    BY DEF Loaded, LastOfKey
<1>3. DOMAIN Loaded(file) \subseteq {file[i].key : i \in Documents(file)}
    BY <1>2
<1>4. ASSUME NEW key \in DOMAIN Loaded(file)
      PROVE  Loaded(file)[key].key = key /\ Loaded(file)[key].served
    <2> DEFINE S == {i \in places : file[i].key = key}
    <2>1. S # {} /\ S \subseteq 1 .. Len(file)
        BY <1>1, <1>2, <1>4
    <2>2. Loaded(file)[key] = file[Max(S)]
        BY <1>2, <1>4
    <2> HIDE DEF S
    <2>3. Max(S) \in S
        BY <1>1, <2>1, HasMax
    <2> QED BY <2>2, <2>3 DEF S
<1> QED BY <1>3, <1>4

\* The inductive steps for CheckExamples.
LEMMA CheckerStarts == Init => CheckerInv
<1> SUFFICES ASSUME Init PROVE CheckerInv
    OBVIOUS
<1>1. DOMAIN crds = {} /\ DOMAIN errors = {} /\ examples \ todo = {} /\ exit = 2
    BY DEF Init, NoCrds, Running
<1> QED BY <1>1 DEF Init, CheckerInv, TypeOK, Running

LEMMA CheckerSteps == CheckerInv /\ [Next]_vars => CheckerInv'
<1> SUFFICES ASSUME CheckerInv, [Next]_vars PROVE CheckerInv'
    OBVIOUS
<1>1. ASSUME LoadCrds PROVE CheckerInv'
    <2>1. PICK file \in crdTodo : crds' = Loaded(file) ++ crds /\ crdTodo' = crdTodo \ {file}
        BY <1>1 DEF LoadCrds
    <2>2. /\ UNCHANGED <<examples, todo, errors, exit>> /\ file \in CrdFiles
          /\ examples \ todo = {} /\ exit = Running
        BY <1>1, <2>1 DEF LoadCrds, CheckerInv, TypeOK, Running
    <2>3. /\ DOMAIN Loaded(file) \subseteq {file[i].key : i \in Documents(file)}
          /\ \A key \in DOMAIN Loaded(file) : Loaded(file)[key].key = key /\ Loaded(file)[key].served
        BY <2>2, LoadedServed
    <2>4. DOMAIN crds' = DOMAIN Loaded(file) \cup DOMAIN crds
        BY <2>1, Merging
    <2>5. \A key \in DOMAIN crds' : crds'[key] = IF key \in DOMAIN Loaded(file) THEN Loaded(file)[key]
                                                                            ELSE crds[key]
        BY <2>1, <2>4 DEF ++
    <2>6. \A key \in DOMAIN crds' : crds'[key].key = key /\ crds'[key].served
        BY <2>3, <2>4, <2>5 DEF CheckerInv
    <2>7. TypeOK'
        BY <2>1, <2>2, <2>3, <2>4 DEF CheckerInv, TypeOK, Running, Documents
    <2> QED BY <2>2, <2>6, <2>7 DEF CheckerInv, Running
<1>2. ASSUME Validate PROVE CheckerInv'
    <2>1. PICK file \in todo : /\ errors' = [f \in {file} |-> Problems(file)] ++ errors
                               /\ todo' = todo \ {file}
        BY <1>2 DEF Validate
    <2>2. UNCHANGED <<crdTodo, crds, examples, exit>> /\ crdTodo = {} /\ exit = Running /\ file \in examples
        BY <1>2, <2>1 DEF Validate, CheckerInv, TypeOK, Running
    <2> DEFINE new == [f \in {file} |-> Problems(file)]
    <2>3. DOMAIN new = {file} /\ new[file] = Problems(file)
        OBVIOUS
    <2> HIDE DEF new
    <2>4. /\ DOMAIN errors' = {file} \cup DOMAIN errors /\ errors'[file] = Problems(file)
          /\ \A f \in DOMAIN errors \ {file} : errors'[f] = errors[f]
        BY <2>1, <2>3 DEF new, ++
    <2>5. examples \ todo' = (examples \ todo) \cup {file} /\ DOMAIN errors = examples \ todo
        BY <2>1, <2>2 DEF CheckerInv, TypeOK
    <2>6. \A f \in examples' \ todo' : crdTodo' = {} /\ errors'[f] = Problems(f)
        BY <2>2, <2>4, <2>5 DEF CheckerInv
    <2>7. \A f : Problems(f)' = Problems(f)
        BY <2>2 DEF Problems, KindKnown
    <2>8. TypeOK'
        BY <2>1, <2>2, <2>4, <2>5 DEF CheckerInv, TypeOK, Running, Documents
    <2> QED BY <2>2, <2>6, <2>7, <2>8 DEF CheckerInv, Running
<1>3. ASSUME Finish PROVE CheckerInv'
    <2>1. UNCHANGED <<crdTodo, crds, examples, todo, errors>> /\ crdTodo = {} /\ todo = {}
        BY <1>3 DEF Finish
    <2>2. exit' \in {0, 1} /\ (exit' = 0 => \A file \in examples : errors[file] = {})
        BY <1>3 DEF Finish
    <2>3. \A f : Problems(f)' = Problems(f)
        BY <2>1 DEF Problems, KindKnown
    <2>4. TypeOK'
        BY <2>1, <2>2 DEF CheckerInv, TypeOK, Running, Documents
    <2> QED BY <2>1, <2>2, <2>3, <2>4 DEF CheckerInv
<1>4. ASSUME UNCHANGED vars PROVE CheckerInv'
    <2>1. \A f : Problems(f)' = Problems(f)
        BY <1>4 DEF vars, Problems, KindKnown
    <2>2. TypeOK'
        BY <1>4 DEF vars, CheckerInv, TypeOK, Documents
    <2> QED BY <1>4, <2>1, <2>2 DEF vars, CheckerInv
<1> QED BY <1>1, <1>2, <1>3, <1>4 DEF Next

\* Examples that pass have been looked at to their ends.
LEMMA CheckerPasses == CheckerInv => PassedIsChecked
<1> SUFFICES ASSUME CheckerInv, exit = 0, NEW file \in examples
             PROVE  /\ ~Broken(file)
                    /\ \A i \in DOMAIN file : OfProvider(file[i]) =>
                        LET crd == {c \in {crds[key] : key \in DOMAIN crds} : c.key = file[i].key}
                        IN  /\ \A c \in crd : c.served /\ c.required \subseteq file[i].fields
                            /\ crd = {} => KindKnown(file[i])
    BY DEF PassedIsChecked
<1>1. Problems(file) = {} /\ file \in ExampleFiles
    BY DEF CheckerInv, TypeOK, Running
<1> DEFINE checked == {i \in Documents(file) : file[i].key[1] # NoKind /\ file[i].key[3] # <<>>}
           unknown == {i \in checked : file[i].key \notin DOMAIN crds}
<1>2. /\ \A i \in unknown : KindKnown(file[i])
      /\ \A i \in checked \ unknown : crds[file[i].key].required \subseteq file[i].fields
      /\ ~Broken(file)
    BY <1>1 DEF Problems
<1>3. Documents(file) = DOMAIN file
    <2>1. DOMAIN file = 1 .. Len(file) /\ Len(file) \in Nat
        BY <1>1, CheckerFiles
    <2> QED BY <1>2, <2>1 DEF Documents, Broken
<1>4. ASSUME NEW i \in DOMAIN file, OfProvider(file[i])
      PROVE  LET crd == {c \in {crds[key] : key \in DOMAIN crds} : c.key = file[i].key}
             IN  /\ \A c \in crd : c.served /\ c.required \subseteq file[i].fields
                 /\ crd = {} => KindKnown(file[i])
    <2>1. i \in checked
        BY <1>3, <1>4 DEF OfProvider
    <2> HIDE DEF checked
    <2>2. \A key \in DOMAIN crds : crds[key].key = key /\ crds[key].served
        BY DEF CheckerInv
    <2>3. file[i].key \in DOMAIN crds => crds[file[i].key].required \subseteq file[i].fields
        BY <1>2, <2>1
    <2>4. file[i].key \notin DOMAIN crds => KindKnown(file[i])
        BY <1>2, <2>1
    <2>5. file[i].key \in DOMAIN crds => 
             {c \in {crds[key] : key \in DOMAIN crds} : c.key = file[i].key} = {crds[file[i].key]}
        BY <2>2
    <2>6. \A c \in {c \in {crds[key] : key \in DOMAIN crds} : c.key = file[i].key} :
              /\ c = crds[file[i].key] /\ file[i].key \in DOMAIN crds
        BY <2>2
    <2> QED BY <2>2, <2>3, <2>4, <2>5, <2>6
<1> QED BY <1>2, <1>4

---------------------------------------------------------------------------
\* The local test harness.

\* What the first steps of a complete setup bring, in their order.
Built == <<"cluster", "crossplane", "image", "provider", "secret", "config">>
Ready(i, w) == \A k \in 1 .. 6 : k < i => Built[k] \in w

\* The invocation is about to take its i-th step; in a complete setup, all steps before
\* that have left in the world what they bring.
Position(i) ==
    /\ i \in 1 .. Len(Harness!Script[command]) + 1
    /\ steps = SubSeq(Harness!Script[command], i, Len(Harness!Script[command]))
    /\ command = "all" /\ progress = "running" => Ready(i, world)

\* The invariant of the harness.
HarnessInv ==
    /\ Harness!TypeOK
    /\ \E i : Position(i)

\* The steps of the script's commands; each command is a sequence of them.
StepNames == {"create_kind_cluster", "install_crossplane", "load_provider_image", "install_provider",
              "create_credentials", "create_provider_config", "show_status", "cleanup_keep",
              "test_provider", "cleanup_test_resources", "usage"}

\* Sequences given by their elements.
LEMMA Tuples ==
    ASSUME NEW S, NEW a \in S, NEW b \in S, NEW c \in S, NEW d \in S,
           NEW e \in S, NEW f \in S, NEW g \in S, NEW h \in S
    PROVE  <<a>> \in Seq(S) /\ <<a, b>> \in Seq(S) /\ <<a, b, c, d, e, f, g, h>> \in Seq(S)
<1>1. <<a>> \in Seq(S)
    OBVIOUS
<1>2. <<a, b>> \in Seq(S)
    OBVIOUS
<1>3. <<a, b, c, d, e, f, g, h>> \in Seq(S)
    OBVIOUS
<1> QED BY <1>1, <1>2, <1>3

\* Every command is a sequence of steps.
LEMMA Scripts ==
    /\ \A c \in Harness!Commands : Harness!Script[c] \in Seq(StepNames)
    /\ Harness!Script["all"] = Harness!Setup
    /\ "all" \in Harness!Commands
<1>1. Harness!Commands = {"cluster", "crossplane", "provider", "config", "test", "status",
                          "cleanup", "all", "other"}
    BY DEF Harness!Commands, Harness!Script
<1>2. /\ Harness!Script["cluster"] = <<"create_kind_cluster">>
      /\ Harness!Script["crossplane"] = <<"install_crossplane">>
      /\ Harness!Script["provider"] = <<"load_provider_image", "install_provider">>
      /\ Harness!Script["config"] = <<"create_credentials", "create_provider_config">>
      /\ Harness!Script["test"] = <<"test_provider">>
      /\ Harness!Script["status"] = <<"show_status">>
      /\ Harness!Script["cleanup"] = <<"cleanup_test_resources">>
      /\ Harness!Script["all"] = Harness!Setup
      /\ Harness!Script["other"] = <<"usage">>
    BY DEF Harness!Script
<1>3. Harness!Setup \in Seq(StepNames)
    BY Tuples DEF Harness!Setup, StepNames
<1>4. \A a, b \in StepNames : <<a>> \in Seq(StepNames) /\ <<a, b>> \in Seq(StepNames)
    BY Tuples
<1>5. <<"load_provider_image", "install_provider">> \in Seq(StepNames)
    BY <1>4 DEF StepNames
<1>6. <<"create_credentials", "create_provider_config">> \in Seq(StepNames)
    BY <1>4 DEF StepNames
<1>7. ASSUME NEW c \in Harness!Commands PROVE Harness!Script[c] \in Seq(StepNames)
    <2>1. CASE c \in {"provider", "config", "all"}
        BY <2>1, <1>2, <1>3, <1>5, <1>6
    <2>2. CASE c \notin {"provider", "config", "all"}
        <3>1. \E a \in StepNames : Harness!Script[c] = <<a>>
            BY <2>2, <1>1, <1>2 DEF StepNames
        <3> QED BY <3>1, <1>4
    <2> QED BY <2>1, <2>2
<1> QED BY <1>1, <1>2, <1>7

\* The steps of a complete setup.
LEMMA SetupSteps ==
    /\ Len(Harness!Setup) = 8
    /\ Harness!Setup[1] = "create_kind_cluster"
    /\ Harness!Setup[2] = "install_crossplane"
    /\ Harness!Setup[3] = "load_provider_image"
    /\ Harness!Setup[4] = "install_provider"
    /\ Harness!Setup[5] = "create_credentials"
    /\ Harness!Setup[6] = "create_provider_config"
    /\ Harness!Setup[7] = "show_status"
    /\ Harness!Setup[8] = "cleanup_keep"
    BY DEF Harness!Setup

\* What remains of a sequence from place i on is one of its suffixes, and its tail is what
\* remains from the next place on.
LEMMA Suffix ==
    ASSUME NEW s \in Seq(StepNames), NEW i \in 1 .. Len(s) + 1
    PROVE  /\ SubSeq(s, i, Len(s)) \in Harness!Suffixes(s)
           /\ SubSeq(s, i, Len(s)) # <<>> =>
                  /\ i \in 1 .. Len(s) /\ Head(SubSeq(s, i, Len(s))) = s[i]
                  /\ Tail(SubSeq(s, i, Len(s))) = SubSeq(s, i + 1, Len(s))
<1>1. Len(s) \in Nat
    OBVIOUS
<1>2. SubSeq(s, i, Len(s)) \in Harness!Suffixes(s)
    BY <1>1 DEF Harness!Suffixes
<1>3. i \in 1 .. Len(s) \/ Len(s) < i
    BY <1>1
<1>4. Len(s) < i => SubSeq(s, i, Len(s)) = <<>>
    BY <1>1, SubSeqEmpty
<1>5. ASSUME i \in 1 .. Len(s)
      PROVE  /\ Head(SubSeq(s, i, Len(s))) = s[i]
             /\ Tail(SubSeq(s, i, Len(s))) = SubSeq(s, i + 1, Len(s))
    BY <1>1, <1>5, HeadTailOfSubSeq
<1> QED BY <1>2, <1>3, <1>4, <1>5

\* A sequence and the empty one are suffixes.
LEMMA Whole ==
    ASSUME NEW s \in Seq(StepNames)
    PROVE  /\ s = SubSeq(s, 1, Len(s)) /\ s \in Harness!Suffixes(s)
           /\ <<>> = SubSeq(s, Len(s) + 1, Len(s)) /\ <<>> \in Harness!Suffixes(s)
<1>1. Len(s) \in Nat
    OBVIOUS
<1>2. s = SubSeq(s, 1, Len(s)) /\ <<>> = SubSeq(s, Len(s) + 1, Len(s))
    BY <1>1, SubSeqFull, SubSeqEmpty
<1>3. 1 \in 1 .. Len(s) + 1 /\ Len(s) + 1 \in 1 .. Len(s) + 1
    BY <1>1
<1>4. SubSeq(s, 1, Len(s)) \in Harness!Suffixes(s)
    BY <1>3, Suffix
<1>5. SubSeq(s, Len(s) + 1, Len(s)) \in Harness!Suffixes(s)
    BY <1>3, Suffix
<1> QED BY <1>2, <1>4, <1>5

\* A step of a complete setup finds what it needs, once the steps before it have brought
\* what they bring; and brings what it brings.
LEMMA SetupIsAble ==
    ASSUME NEW w, world = w, NEW i \in 1 .. 8, Ready(i, world), world \subseteq Harness!Things
    PROVE  LET step == Harness!Setup[i]
           IN /\ Harness!Able(step) \/ (step = "create_credentials" /\ ~credentials)
              /\ Ready(i + 1, Harness!After(step, world))
<1> USE SetupSteps DEF Harness!Able, Harness!Effective, Harness!Needs, Harness!Awaits, Harness!After, Ready, Built
<1>1. CASE i = 1 BY <1>1
<1>2. CASE i = 2 BY <1>2
<1>3. CASE i = 3 BY <1>3
<1>4. CASE i = 4 BY <1>4
<1>5. CASE i = 5 BY <1>5
<1>6. CASE i = 6 BY <1>6
<1>7. CASE i = 7 BY <1>7
<1>8. CASE i = 8 BY <1>8
<1> QED BY <1>1, <1>2, <1>3, <1>4, <1>5, <1>6, <1>7, <1>8

\* The inductive steps for TestHarness.
LEMMA HarnessStarts == Harness!Init => HarnessInv
<1> SUFFICES ASSUME Harness!Init PROVE HarnessInv
    OBVIOUS
<1>1. /\ command = "all" /\ steps = <<>> /\ progress = "idle" /\ world = {} /\ credentials \in BOOLEAN
      /\ invocations = 0 /\ leftovers = 0
    BY DEF Harness!Init
<1>2. Harness!Setup \in Seq(StepNames) /\ 9 \in 1 .. Len(Harness!Setup) + 1
    BY Scripts, SetupSteps
<1>3. <<>> = SubSeq(Harness!Setup, 9, Len(Harness!Setup)) /\ <<>> \in Harness!Suffixes(Harness!Setup)
    BY <1>2, Whole, SetupSteps
<1>4. Position(9) /\ steps \in Harness!Suffixes(Harness!Script[command])
    BY <1>1, <1>2, <1>3, Scripts DEF Position
<1> QED BY <1>1, <1>4, Scripts, ToolBounds DEF HarnessInv, Harness!TypeOK

\* A command starts at its first step, whatever is left in the world.
LEMMA HarnessInvokes == ASSUME HarnessInv, NEW c \in Harness!Commands, Harness!Invoke(c) PROVE HarnessInv'
<1> DEFINE s == Harness!Script[c]
<1>1. s \in Seq(StepNames) /\ Len(s) \in Nat
    BY Scripts
<1>2. s = SubSeq(s, 1, Len(s)) /\ s \in Harness!Suffixes(s)
    BY <1>1, Whole
<1> HIDE DEF s
<1>3. /\ command' = c /\ steps' = s /\ progress' = "running" /\ world' = world
      /\ credentials' = credentials /\ leftovers' = leftovers
      /\ invocations' = invocations + 1 /\ invocations < MaxInvocations
    BY DEF Harness!Invoke, s
<1>4. Position(1)'
    BY <1>1, <1>2, <1>3 DEF Position, Ready, s, Harness!Script
<1>5. Harness!TypeOK'
    BY <1>2, <1>3, ToolBounds DEF HarnessInv, Harness!TypeOK, s, Harness!Script, Harness!Suffixes, Harness!Commands, Harness!Things
<1> QED BY <1>4, <1>5 DEF HarnessInv

\* A step that succeeds leads to the next place.
LEMMA HarnessSucceeds == ASSUME HarnessInv, Harness!StepSucceeds PROVE HarnessInv'
<1> DEFINE s == Harness!Script[command]
<1>0. PICK i : Position(i)
    BY DEF HarnessInv
<1>1. s \in Seq(StepNames) /\ Len(s) \in Nat /\ command \in Harness!Commands /\ world \subseteq Harness!Things
    BY Scripts DEF HarnessInv, Harness!TypeOK
<1>2. /\ i \in 1 .. Len(s) /\ Head(steps) = s[i] /\ Tail(steps) = SubSeq(s, i + 1, Len(s))
    BY <1>0, <1>1, Suffix DEF Position, Harness!StepSucceeds
<1> HIDE DEF s
<1>3. i + 1 \in 1 .. Len(s) + 1
    BY <1>1, <1>2
<1>3a. Tail(steps) \in Harness!Suffixes(s)
    BY <1>1, <1>2, <1>3, Suffix
<1>4. /\ command' = command /\ steps' = Tail(steps) /\ progress = "running" /\ progress' = progress
      /\ world' = Harness!After(Head(steps), world) /\ UNCHANGED <<credentials, invocations, leftovers>>
    BY DEF Harness!StepSucceeds
<1>5. ASSUME command = "all" PROVE Ready(i + 1, world')
    BY <1>0, <1>1, <1>2, <1>4, <1>5, SetupIsAble, Scripts, SetupSteps DEF Position, s
<1>6. Harness!After(Head(steps), world) \subseteq Harness!Things
    BY <1>1 DEF Harness!After, Harness!Things
<1>7. Position(i + 1)'
    BY <1>1, <1>2, <1>3, <1>4, <1>5 DEF Position, s, Harness!Script
<1>8. Harness!TypeOK'
    BY <1>3a, <1>4, <1>6 DEF s,  HarnessInv, Harness!TypeOK, Harness!Script, Harness!Suffixes, Harness!Commands, Harness!Things
<1> QED BY <1>7, <1>8 DEF HarnessInv

\* Whatever ends an invocation leaves it nothing to do.
LEMMA HarnessStops ==
    ASSUME HarnessInv, steps' = <<>>, UNCHANGED <<command, credentials, invocations>>,
           world' \subseteq Harness!Things, progress' \in {"failing", "succeeded", "failed", "killed"},
           leftovers' \in 0 .. MaxLeftovers
    PROVE  HarnessInv'
<1> DEFINE s == Harness!Script[command]
<1>1. s \in Seq(StepNames) /\ Len(s) \in Nat /\ command \in Harness!Commands
    BY Scripts DEF HarnessInv, Harness!TypeOK
<1> HIDE DEF s
<1>2. Len(s) + 1 \in 1 .. Len(s) + 1
    BY <1>1
<1>3. SubSeq(s, Len(s) + 1, Len(s)) = <<>> /\ <<>> \in Harness!Suffixes(s)
    BY <1>1, <1>2, Whole
<1>4. Position(Len(s) + 1)'
    BY <1>1, <1>2, <1>3 DEF Position, Harness!Script, s
<1>5. Harness!TypeOK'
    BY <1>3 DEF s, HarnessInv, Harness!TypeOK, Harness!Script, Harness!Suffixes, Harness!Commands, Harness!Things
<1> QED BY <1>4, <1>5 DEF HarnessInv

LEMMA HarnessSteps == HarnessInv /\ [Harness!Next]_(Harness!vars) => HarnessInv'
<1> SUFFICES ASSUME HarnessInv, [Harness!Next]_(Harness!vars) PROVE HarnessInv'
    OBVIOUS
<1>1. ASSUME NEW c \in Harness!Commands, Harness!Invoke(c) PROVE HarnessInv'
    BY <1>1, HarnessInvokes
<1>2. CASE Harness!StepSucceeds
    BY <1>2, HarnessSucceeds
<1>3. CASE Harness!StepFails
    <2>1. world' \subseteq Harness!Things
        BY <1>3 DEF Harness!StepFails, Harness!After, Harness!Things, HarnessInv, Harness!TypeOK
    <2> QED BY <1>3, <2>1, HarnessStops DEF Harness!StepFails, Harness!Abandon, HarnessInv, Harness!TypeOK
<1>4. CASE Harness!Exit
    <2>1. world' \subseteq Harness!Things /\ leftovers' \in 0 .. MaxLeftovers
        BY <1>4, ToolBounds DEF Harness!Exit, Harness!AfterTrap, HarnessInv, Harness!TypeOK
    <2>2. steps' = <<>> /\ UNCHANGED <<command, credentials, invocations>> /\ progress' \in {"succeeded", "failed"}
        BY <1>4 DEF Harness!Exit, HarnessInv, Harness!TypeOK
    <2> QED BY <2>1, <2>2, HarnessStops
<1>5. CASE Harness!Killed
    <2>1. world' \subseteq Harness!Things /\ leftovers' \in 0 .. MaxLeftovers
        BY <1>5, ToolBounds DEF Harness!Killed, HarnessInv, Harness!TypeOK
    <2> QED BY <1>5, <2>1, HarnessStops DEF Harness!Killed
<1>6. CASE UNCHANGED Harness!vars
    BY <1>6 DEF Harness!vars, HarnessInv, Harness!TypeOK, Position, Ready, Harness!Script, Harness!Suffixes, Harness!Commands, Harness!Things
<1> QED BY <1>1, <1>2, <1>3, <1>4, <1>5, <1>6 DEF Harness!Next

\* A step of a complete setup finds what it needs.
LEMMA HarnessFinds == HarnessInv => Harness!SetupFindsItsNeeds
<1> SUFFICES ASSUME HarnessInv, progress = "running", command = "all", steps # <<>>
             PROVE  Harness!Able(Head(steps)) \/ (Head(steps) = "create_credentials" /\ ~credentials)
    BY DEF Harness!SetupFindsItsNeeds
<1>1. PICK i : Position(i)
    BY DEF HarnessInv
<1>2. i \in 1 .. 8 /\ Head(steps) = Harness!Setup[i] /\ Ready(i, world)
    BY <1>1, Scripts, SetupSteps, Suffix DEF Position
<1> QED BY <1>2, SetupIsAble DEF HarnessInv, Harness!TypeOK

---------------------------------------------------------------------------
\* The end-to-end workflow.

\* Commits and NoCommit; runs; the statuses a commit may show; what may have been tested.
Numbers == 0 .. MaxCommits
Ending == {"-", "reported", "lost", "skipped", "cancelled"}
RunRecords == [at : Uptest!Places, context : Contexts, listed : Numbers,
               sha : Numbers, ok : BOOLEAN, ends : Ending]
Shown == {Uptest!NoStatus} \cup [state : {"pending", "success", "failure"}, by : Runs]
Tests == [commit : Uptest!Commits, context : Contexts, passed : BOOLEAN]

UptestTypes ==
    /\ head \in Uptest!Commits
    /\ run \in [Runs -> RunRecords]
    /\ status \in [Uptest!Commits -> [Contexts -> Shown]]
    /\ tested \subseteq Tests

\* The places of a run before its list is made, before its tests and after its list is made.
Before == {"none", "permissions", "checkout"}
Early == {"none", "permissions", "checkout", "pending", "prepare", "checkoutAgain"}
Late == {"pending", "prepare", "checkoutAgain", "test", "report"}

\* A run knows the commits it has checked out, in the order of its two checkouts, and none
\* beyond the head top; and a run that reports a commit has had its result tested (done).
RunAgrees(q, top, done) ==
    /\ q.listed <= top /\ q.sha <= top
    /\ q.sha # 0 => q.listed # 0 /\ q.listed <= q.sha
    /\ q.at \in Before => q.listed = 0
    /\ q.at \in Late => q.listed # 0
    /\ q.at \in Early => q.sha = 0
    /\ q.at = "test" => q.sha # 0
    /\ q.at = "report" /\ q.sha # 0 =>
               [commit |-> q.sha, context |-> q.context, passed |-> q.ok] \in done
RunsAgree == \A r \in Runs : RunAgrees(run[r], head, tested)

\* A status of commit c that shows a result is from a run q that has ended, and was tested.
Earned(s, q, c, done) ==
    s.state \in {"success", "failure"} =>
        /\ q.at = "ended"
        /\ [commit |-> c, context |-> q.context, passed |-> s.state = "success"] \in done
StatusAgrees ==
    \A c \in Uptest!Commits, x \in Contexts :
        Earned(status[c][x], run[status[c][x].by], c, tested)

\* The invariant of the workflow.
UptestInv ==
    /\ UptestTypes
    /\ RunsAgree
    /\ StatusAgrees

\* Numbers are what TypeOK allows as commits.
LEMMA Numbered ==
    /\ MaxCommits \in Nat \ {0}
    /\ Uptest!Commits \cup {Uptest!NoCommit} = Numbers
    /\ Uptest!Commits = 1 .. MaxCommits
    BY ToolBounds DEF Numbers, Uptest!Commits, Uptest!NoCommit

\* The invariant implies what is checked.
LEMMA UptestTypeOK == UptestInv => Uptest!TypeOK
<1> SUFFICES ASSUME UptestInv PROVE Uptest!TypeOK OBVIOUS
<1>1. /\ head \in Uptest!Commits
      /\ run \in [Runs -> [at : Uptest!Places, context : Contexts, 
                         listed : Uptest!Commits \cup {Uptest!NoCommit},
                         sha : Uptest!Commits \cup {Uptest!NoCommit}, ok : BOOLEAN,
                         ends : {"-", "reported", "lost", "skipped", "cancelled"}]]
      /\ status \in [Uptest!Commits -> [Contexts -> {Uptest!NoStatus} \cup
                        [state : {"pending", "success", "failure"}, by : Runs]]]
      /\ tested \subseteq [commit : Uptest!Commits, context : Contexts, passed : BOOLEAN]
    BY Numbered DEF UptestInv, UptestTypes, RunRecords, Ending, Shown, Tests
<1>2. \A r \in Runs : /\ run[r].listed \in Numbers /\ run[r].sha \in Numbers
                      /\ RunAgrees(run[r], head, tested)
    BY DEF UptestInv, UptestTypes, RunsAgree, RunRecords
<1>3. \A r \in Runs : run[r].listed <= head /\ run[r].sha <= head
                       /\ (run[r].sha # Uptest!NoCommit => run[r].listed \in 1 .. run[r].sha)
    <2> TAKE r \in Runs
    <2> DEFINE a == run[r].listed   b == run[r].sha
    <2>1. a \in Numbers /\ b \in Numbers /\ a <= head /\ b <= head /\ (b # 0 => a # 0 /\ a <= b)
        BY <1>2 DEF RunAgrees
    <2> HIDE DEF a, b
    <2>2. a <= head /\ b <= head /\ (b # Uptest!NoCommit => a \in 1 .. b)
        BY <2>1, Numbered DEF Uptest!NoCommit, Numbers
    <2> QED BY <2>2 DEF a, b
<1> QED BY <1>1, <1>3 DEF Uptest!TypeOK

LEMMA UptestEarned == UptestInv => Uptest!ResultsAreEarned
    BY DEF UptestInv, StatusAgrees, Earned, Uptest!ResultsAreEarned

\* The inductive steps for UptestTrigger.
LEMMA UptestStarts == Uptest!Init => UptestInv
<1> SUFFICES ASSUME Uptest!Init PROVE UptestInv OBVIOUS
<1>1. \A x \in Contexts : Uptest!NewRun("none", x) \in RunRecords
    BY Numbered DEF Uptest!NewRun, RunRecords, Numbers, Uptest!NoCommit, Uptest!Places, Ending
<1>2. UptestTypes
    BY <1>1, Numbered DEF Uptest!Init, UptestTypes, Shown
<1>3. \A x \in Contexts : RunAgrees(Uptest!NewRun("none", x), head, tested)
    BY DEF Uptest!Init, RunAgrees, Uptest!NewRun, Uptest!NoCommit, Before, Early, Late
<1>4. RunsAgree
    BY <1>3 DEF RunsAgree, Uptest!Init
<1>5. StatusAgrees
    BY DEF Uptest!Init, StatusAgrees, Earned, Uptest!NoStatus
<1> QED BY <1>2, <1>4, <1>5 DEF UptestInv

\* A run that has ended stays so, and its examples what they were.
Keeps(n, q) == q.at = "ended" => n.at = "ended" /\ n.context = q.context

\* Record n may replace record q of a run while nothing else changes.
Onward(n, q) == n \in RunRecords /\ RunAgrees(n, head, tested) /\ Keeps(n, q)

\* A step of one run r: the statuses it leaves alone keep their runs, and those it posts are
\* earned.
LEMMA OneRunSteps ==
    ASSUME UptestInv, NEW r \in Runs, NEW n \in RunRecords, run' = [run EXCEPT ![r] = n],
           head' = head, tested \subseteq tested', tested' \subseteq Tests, RunAgrees(n, head', tested'),
           status' \in [Uptest!Commits -> [Contexts -> Shown]], Keeps(n, run[r]),
           \A c \in Uptest!Commits, x \in Contexts :
               \/ status'[c][x] = status[c][x]
               \/ Earned(status'[c][x], run'[status'[c][x].by], c, tested')
    PROVE  UptestInv'
<1>1. UptestTypes'
    BY DEF UptestInv, UptestTypes, Uptest!Commits
<1>2. \A p \in Runs : RunAgrees(run'[p], head', tested')
    BY DEF RunAgrees, UptestInv, UptestTypes, RunsAgree
<1>3. RunsAgree'
    BY <1>2 DEF RunsAgree
<1>4. ASSUME NEW c \in Uptest!Commits, NEW x \in Contexts
      PROVE  Earned(status'[c][x], run'[status'[c][x].by], c, tested')
    <2>1. CASE status'[c][x] = status[c][x]
        <3> DEFINE s == status[c][x]
        <3>1. s.state \in {"success", "failure"} => s.by \in Runs
            BY DEF UptestInv, UptestTypes, Shown, Uptest!NoStatus
        <3>2. Earned(s, run[s.by], c, tested)
            BY DEF UptestInv, StatusAgrees
        <3>3. s.by \in Runs => run'[s.by] = IF s.by = r THEN n ELSE run[s.by]
            BY DEF UptestInv, UptestTypes
        <3> HIDE DEF s
        <3>4. Earned(s, run'[s.by], c, tested')
            BY <3>1, <3>2, <3>3 DEF Earned, Keeps
        <3> QED BY <2>1, <3>4 DEF s
    <2> QED BY <2>1
<1>5. StatusAgrees'
    BY <1>4 DEF StatusAgrees, Uptest!Commits
<1> QED BY <1>1, <1>3, <1>5 DEF UptestInv

\* A step of a run that neither posts nor tests.
LEMMA QuietStep ==
    ASSUME UptestInv, NEW r \in Runs, NEW n, run' = [run EXCEPT ![r] = n], Onward(n, run[r]),
           UNCHANGED <<head, status, tested>>
    PROVE  UptestInv'
<1>1. RunAgrees(n, head', tested') /\ n \in RunRecords /\ Keeps(n, run[r])
    BY DEF RunAgrees, Onward
<1>2. status' \in [Uptest!Commits -> [Contexts -> Shown]] /\ tested' \subseteq Tests
    BY DEF UptestInv, UptestTypes
<1> QED BY <1>1, <1>2, OneRunSteps

\* The head is a commit.
LEMMA HeadNumbered == UptestTypes => head \in Numbers /\ head # 0 /\ head <= head
    BY Numbered DEF UptestTypes, Numbers

\* What each quiet step makes of a run.
LEMMA RunMoves ==
    ASSUME NEW q \in RunRecords, RunAgrees(q, head, tested), UptestTypes
    PROVE  /\ q.at = "permissions" => Onward([q EXCEPT !.at = "checkout"], q)
           /\ q.at = "checkout" => Onward([q EXCEPT !.at = "pending", !.listed = head], q)
           /\ q.at = "prepare" => Onward([q EXCEPT !.at = "checkoutAgain"], q)
           /\ q.at = "checkoutAgain" => Onward([q EXCEPT !.at = "test", !.sha = head], q)
           /\ q.at \in {"prepare", "checkoutAgain"} =>
                  Onward([q EXCEPT !.at = "report", !.ok = FALSE], q)
<1> USE HeadNumbered DEF Onward, RunAgrees, RunRecords, Uptest!Places, Before, Early, Late, Keeps
<1>1. CASE q.at = "permissions"
    BY <1>1
<1>2. CASE q.at = "checkout"
    <2> DEFINE n == [q EXCEPT !.at = "pending", !.listed = head]
    <2>1. n \in RunRecords
        OBVIOUS
    <2>2. n.at = "pending" /\ n.listed = head /\ n.sha = 0
        BY <1>2
    <2> QED BY <1>2, <2>1, <2>2
<1>3. CASE q.at = "prepare"
    BY <1>3
<1>4. CASE q.at = "checkoutAgain"
    <2> DEFINE n == [q EXCEPT !.at = "test", !.sha = head]
    <2>1. n \in RunRecords
        OBVIOUS
    <2>2. n.at = "test" /\ n.sha = head /\ n.listed = q.listed /\ n.context = q.context
        OBVIOUS
    <2>3. RunAgrees(n, head, tested)
        BY <1>4, <2>2
    <2> QED BY <1>4, <2>1, <2>3
<1> QED BY <1>1, <1>2, <1>3, <1>4

\* What the ends of a run make of it.
LEMMA RunEnds ==
    ASSUME NEW q \in RunRecords, RunAgrees(q, head, tested), UptestTypes
    PROVE  /\ q.at \in {"permissions", "checkout", "pending"} =>
                  Onward([q EXCEPT !.at = "ended", !.ends = "skipped"], q)
           /\ Onward([q EXCEPT !.at = "ended", !.ends = "lost"], q)
           /\ Onward([q EXCEPT !.at = "ended", !.ends = "cancelled"], q)
    BY DEF Onward, RunAgrees, RunRecords, Uptest!Places, Before, Early, Late, Keeps, Ending

\* What a comment makes of a run.
LEMMA RunStarts ==
    ASSUME NEW q \in RunRecords, q.at = "none", UptestTypes, NEW x \in Contexts
    PROVE  Onward(Uptest!NewRun("permissions", x), q)
    BY Numbered DEF UptestTypes, Onward, RunAgrees, RunRecords, Numbers, Uptest!Places, Before, Early, Late, Keeps,
      Ending, Uptest!NewRun, Uptest!NoCommit

\* The quiet actions, one by one.
LEMMA QuietActions ==
    ASSUME UptestInv, NEW r \in Runs,
           \/ Uptest!Permit(r) \/ Uptest!Skip(r) \/ Uptest!CheckoutForList(r) \/ Uptest!Prepare(r)
           \/ Uptest!CheckoutForTest(r) \/ Uptest!StepFails(r) \/ Uptest!ReportFails(r)
           \/ Uptest!Cancel(r) \/ Uptest!Comment(r)
    PROVE  UptestInv'
<1>1. run \in [Runs -> RunRecords] /\ run[r] \in RunRecords /\ RunAgrees(run[r], head, tested) /\ UptestTypes
    BY DEF UptestInv, UptestTypes, RunsAgree
<1>2. ASSUME NEW n, run' = [run EXCEPT ![r] = n], Onward(n, run[r]),
             UNCHANGED <<head, status, tested>>
      PROVE  UptestInv'
    BY <1>2, QuietStep
<1>3. CASE Uptest!Permit(r)
    <2>1. run' = [run EXCEPT ![r] = [run[r] EXCEPT !.at = "checkout"]]
        BY <1>1, <1>3 DEF Uptest!Permit, Uptest!Moves
    <2> QED BY <1>1, <1>2, <1>3, <2>1, RunMoves DEF Uptest!Permit, Uptest!Moves
<1>4. CASE Uptest!Skip(r)
    <2>1. run' = [run EXCEPT ![r] = [run[r] EXCEPT !.at = "ended", !.ends = "skipped"]]
        BY <1>1, <1>4 DEF Uptest!Skip, Uptest!Ends
    <2> QED BY <1>1, <1>2, <1>4, <2>1, RunEnds DEF Uptest!Skip
<1>5. CASE Uptest!CheckoutForList(r)
    <2>1. run' = [run EXCEPT ![r] = [run[r] EXCEPT !.at = "pending", !.listed = head]]
        BY <1>1, <1>5 DEF Uptest!CheckoutForList
    <2> QED BY <1>1, <1>2, <1>5, <2>1, RunMoves DEF Uptest!CheckoutForList
<1>6. CASE Uptest!Prepare(r)
    <2>1. run' = [run EXCEPT ![r] = [run[r] EXCEPT !.at = "checkoutAgain"]]
        BY <1>1, <1>6 DEF Uptest!Prepare, Uptest!Moves
    <2> QED BY <1>1, <1>2, <1>6, <2>1, RunMoves DEF Uptest!Prepare, Uptest!Moves
<1>7. CASE Uptest!CheckoutForTest(r)
    <2>1. run' = [run EXCEPT ![r] = [run[r] EXCEPT !.at = "test", !.sha = head]]
        BY <1>1, <1>7 DEF Uptest!CheckoutForTest
    <2> QED BY <1>1, <1>2, <1>7, <2>1, RunMoves DEF Uptest!CheckoutForTest
<1>8. CASE Uptest!StepFails(r)
    <2>1. run' = [run EXCEPT ![r] = [run[r] EXCEPT !.at = "report", !.ok = FALSE]]
        BY <1>1, <1>8 DEF Uptest!StepFails
    <2> QED BY <1>1, <1>2, <1>8, <2>1, RunMoves DEF Uptest!StepFails
<1>9. CASE Uptest!ReportFails(r)
    <2>1. run' = [run EXCEPT ![r] = [run[r] EXCEPT !.at = "ended", !.ends = "lost"]]
        BY <1>1, <1>9 DEF Uptest!ReportFails, Uptest!Ends
    <2> QED BY <1>1, <1>2, <1>9, <2>1, RunEnds DEF Uptest!ReportFails
<1>10. CASE Uptest!Cancel(r)
    <2>1. run' = [run EXCEPT ![r] = [run[r] EXCEPT !.at = "ended", !.ends = "cancelled"]]
        BY <1>1, <1>10 DEF Uptest!Cancel, Uptest!Ends
    <2> QED BY <1>1, <1>2, <1>10, <2>1, RunEnds DEF Uptest!Cancel
<1>11. CASE Uptest!Comment(r)
    <2>1. PICK x \in Contexts : run' = [run EXCEPT ![r] = Uptest!NewRun("permissions", x)]
        BY <1>11 DEF Uptest!Comment
    <2> QED BY <1>1, <1>2, <1>11, <2>1, RunStarts DEF Uptest!Comment
<1> QED BY <1>3, <1>4, <1>5, <1>6, <1>7, <1>8, <1>9, <1>10, <1>11

\* A push only moves the head away from what runs have checked out.
LEMMA PushStep == ASSUME UptestInv, Uptest!Push PROVE UptestInv'
<1>1. head' \in Uptest!Commits /\ head < head'
    BY Numbered DEF Uptest!Push, UptestInv, UptestTypes
<1>2. UptestTypes'
    BY <1>1 DEF UptestInv, UptestTypes, Uptest!Push, Uptest!Commits
<1>3. \A r \in Runs : RunAgrees(run'[r], head', tested')
    <2> TAKE r \in Runs
    <2>1. run[r] \in RunRecords /\ RunAgrees(run[r], head, tested) /\ head \in Numbers /\ head' \in Numbers
        BY <1>1, Numbered DEF UptestInv, RunsAgree, UptestTypes
    <2> DEFINE a == run[r].listed   b == run[r].sha
    <2>2. a \in Numbers /\ b \in Numbers /\ a <= head /\ b <= head
        BY <2>1 DEF RunAgrees, RunRecords
    <2> HIDE DEF a, b
    <2>3. a <= head' /\ b <= head'
        BY <1>1, <2>1, <2>2 DEF Numbers
    <2> QED BY <2>1, <2>3 DEF RunAgrees, Uptest!Push, a, b
<1>4. RunsAgree'
    BY <1>3 DEF RunsAgree
<1>5. StatusAgrees'
    BY DEF UptestInv, StatusAgrees, Earned, Uptest!Push, Uptest!Commits
<1> QED BY <1>2, <1>4, <1>5 DEF UptestInv

\* A pending status shows no result.
LEMMA PendingStep ==
    ASSUME UptestInv, NEW r \in Runs, Uptest!CreatePending(r) PROVE UptestInv'
<1> DEFINE q == run[r]
           n == [q EXCEPT !.at = "prepare"]
           s == Uptest!Status("pending", r)
<1>1. q \in RunRecords /\ RunAgrees(q, head, tested) /\ q.at = "pending" /\ run \in [Runs -> RunRecords]
    BY DEF UptestInv, UptestTypes, RunsAgree, Uptest!CreatePending, Uptest!Moves
<1>2. /\ n \in RunRecords /\ n.at = "prepare" /\ n.context = q.context /\ n.listed = q.listed
      /\ n.sha = q.sha /\ run' = [run EXCEPT ![r] = n]
    BY <1>1 DEF RunRecords, Uptest!Places, Uptest!CreatePending, Uptest!Moves
<1>3. q.listed \in Uptest!Commits /\ q.context \in Contexts
    BY <1>1, Numbered DEF RunRecords, RunAgrees, Late, Uptest!NoCommit
<1>4. s \in Shown /\ s.state = "pending" /\ s.by = r
    BY DEF Shown, Uptest!Status
<1> HIDE DEF n, s
<1>5. /\ status' = [status EXCEPT ![q.listed][q.context] = s]
      /\ status \in [Uptest!Commits -> [Contexts -> Shown]]
      /\ UNCHANGED <<head, tested>> /\ tested \subseteq Tests
    BY DEF UptestInv, UptestTypes, Uptest!CreatePending, Uptest!Posts, s
<1>6. status' \in [Uptest!Commits -> [Contexts -> Shown]]
    BY <1>3, <1>4, <1>5
<1>7. RunAgrees(n, head', tested')
    BY <1>1, <1>2, <1>5 DEF RunAgrees, Before, Early, Late
<1>8. \A c \in Uptest!Commits, x \in Contexts :
          status'[c][x] = status[c][x] \/ status'[c][x] = s
    BY <1>3, <1>5
<1>9. \A q1, c : Earned(s, q1, c, tested')
    BY <1>4 DEF Earned
<1>10. Keeps(n, q)
    BY <1>1 DEF Keeps
<1> QED BY <1>2, <1>5, <1>6, <1>7, <1>8, <1>9, <1>10, OneRunSteps

\* What is tested is what the run then reports.
LEMMA TestStep == ASSUME UptestInv, NEW r \in Runs, Uptest!Test(r) PROVE UptestInv'
<1> DEFINE q == run[r]
<1>1. q \in RunRecords /\ RunAgrees(q, head, tested) /\ q.at = "test" /\ run \in [Runs -> RunRecords]
    BY DEF UptestInv, UptestTypes, RunsAgree, Uptest!Test
<1>2. PICK passed \in BOOLEAN :
          /\ run' = [run EXCEPT ![r].at = "report", ![r].ok = passed]
          /\ tested' = tested \cup {[commit |-> q.sha, context |-> q.context, passed |-> passed]}
    BY DEF Uptest!Test
<1> DEFINE n == [q EXCEPT !.at = "report", !.ok = passed]
           t == [commit |-> q.sha, context |-> q.context, passed |-> passed]
<1>3. /\ n \in RunRecords /\ n.at = "report" /\ n.context = q.context /\ n.listed = q.listed
      /\ n.sha = q.sha /\ n.ok = passed /\ run' = [run EXCEPT ![r] = n]
    BY <1>1, <1>2 DEF RunRecords, Uptest!Places
<1>4. q.sha \in Uptest!Commits /\ q.context \in Contexts
    BY <1>1, Numbered DEF RunRecords, RunAgrees, Uptest!NoCommit
<1>5. t \in Tests
    BY <1>4 DEF Tests
<1>6. /\ tested' = tested \cup {t} /\ tested \subseteq Tests /\ UNCHANGED <<head, status>>
      /\ status \in [Uptest!Commits -> [Contexts -> Shown]]
    BY <1>2 DEF UptestInv, UptestTypes, Uptest!Test
<1> HIDE DEF n
<1>7. RunAgrees(n, head', tested')
    BY <1>1, <1>3, <1>6 DEF RunAgrees, Before, Early, Late
<1>8. Keeps(n, q)
    BY <1>1 DEF Keeps
<1> QED BY <1>3, <1>5, <1>6, <1>7, <1>8, OneRunSteps

\* A result is reported at the commit that was tested, in the one context for results.
LEMMA ReportStep == ASSUME UptestInv, NEW r \in Runs, Uptest!Report(r) PROVE UptestInv'
<1> DEFINE q == run[r]
<1>1. /\ q \in RunRecords /\ RunAgrees(q, head, tested) /\ q.at = "report" /\ run \in [Runs -> RunRecords]
      /\ UptestTypes /\ UNCHANGED <<head, tested>>
    BY DEF UptestInv, UptestTypes, RunsAgree, Uptest!Report
<1>2. CASE q.sha = 0
    <2>1. run' = [run EXCEPT ![r] = [q EXCEPT !.at = "ended", !.ends = "lost"]] /\ UNCHANGED status
        BY <1>1, <1>2 DEF Uptest!Report, Uptest!Ends, Uptest!NoCommit
    <2> QED BY <1>1, <2>1, RunEnds, QuietStep
<1>3. CASE q.sha # 0
    <2> DEFINE n == [q EXCEPT !.at = "ended", !.ends = "reported"]
               s == Uptest!Status(Uptest!Result(r), r)
    <2>1. /\ n \in RunRecords /\ n.at = "ended" /\ n.context = q.context /\ n.listed = q.listed
          /\ n.sha = q.sha /\ run' = [run EXCEPT ![r] = n]
        BY <1>1, <1>3 DEF RunRecords, Uptest!Places, Ending, Uptest!Report, Uptest!Ends, Uptest!NoCommit
    <2>2. q.sha \in Uptest!Commits /\ q.ok \in BOOLEAN
        BY <1>1, <1>3, Numbered DEF RunRecords, RunAgrees, Uptest!NoCommit
    <2>3. /\ s \in Shown /\ s.state \in {"success", "failure"} /\ (s.state = "success") = q.ok
          /\ s.by = r
        BY <2>2 DEF Shown, Uptest!Status, Uptest!Result
    <2>4. Earned(s, n, q.sha, tested')
        BY <1>1, <1>3, <2>1, <2>3 DEF Earned, RunAgrees
    <2>5. /\ status' = [status EXCEPT ![q.sha][NoHash] = s]
          /\ status \in [Uptest!Commits -> [Contexts -> Shown]] /\ tested \subseteq Tests
        BY <1>1, <1>3 DEF UptestTypes, Uptest!Report, Uptest!Posts, Uptest!NoCommit
    <2> HIDE DEF n, s
    <2>6. status' \in [Uptest!Commits -> [Contexts -> Shown]]
        BY <2>2, <2>3, <2>5, ToolBounds
    <2>7. RunAgrees(n, head', tested') /\ Keeps(n, q)
        BY <1>1, <2>1 DEF RunAgrees, Before, Early, Late, Keeps
    <2>8. ASSUME NEW c \in Uptest!Commits, NEW x \in Contexts
          PROVE  \/ status'[c][x] = status[c][x]
                 \/ Earned(status'[c][x], run'[status'[c][x].by], c, tested')
        <3>1. CASE c = q.sha /\ x = NoHash
            <4>1. status'[c][x] = s
                BY <3>1, <2>5
            <4>2. run'[s.by] = n
                BY <1>1, <2>1, <2>3
            <4> QED BY <3>1, <4>1, <4>2, <2>4
        <3>2. CASE ~(c = q.sha /\ x = NoHash)
            BY <3>2, <2>5
        <3> QED BY <3>1, <3>2
    <2> QED BY <1>1, <2>1, <2>5, <2>6, <2>7, <2>8, OneRunSteps
<1> QED BY <1>2, <1>3

LEMMA UptestSteps == UptestInv /\ [Uptest!Next]_(Uptest!vars) => UptestInv'
<1> SUFFICES ASSUME UptestInv, [Uptest!Next]_(Uptest!vars) PROVE UptestInv'
    OBVIOUS
<1>1. CASE Uptest!Push
    BY <1>1, PushStep
<1>2. ASSUME NEW r \in Runs, Uptest!Comment(r) \/ Uptest!Step(r) \/ Uptest!Skip(r) \/ Uptest!StepFails(r)
                                \/ Uptest!ReportFails(r) \/ Uptest!Cancel(r)
      PROVE UptestInv'
    BY <1>2, QuietActions, PendingStep, TestStep, ReportStep DEF Uptest!Step
<1>3. CASE UNCHANGED Uptest!vars
    BY <1>3 DEF Uptest!vars, UptestInv, UptestTypes, RunsAgree, RunAgrees, StatusAgrees, Earned, Uptest!Commits
<1> QED BY <1>1, <1>2, <1>3 DEF Uptest!Next

---------------------------------------------------------------------------
\* The three together.

\* Each program keeps its invariant in behaviours in which it is the one that is chosen.
ToolInv ==
    /\ tool = "checker" => CheckerInv
    /\ tool = "harness" => HarnessInv
    /\ tool = "uptest" => UptestInv

LEMMA ToolStarts == ToolInit => ToolInv
    BY CheckerStarts, HarnessStarts, UptestStarts DEF ToolInit, ToolInv

LEMMA ToolSteps == ToolInv /\ [ToolNext]_<<tool, vars, harnessVars, uptestVars>> => ToolInv'
<1> SUFFICES ASSUME ToolInv, [ToolNext]_<<tool, vars, harnessVars, uptestVars>>
             PROVE  ToolInv'
    OBVIOUS
<1>1. tool' = tool
    BY DEF ToolNext
<1>2. ASSUME tool = "checker" PROVE CheckerInv'
    <2>1. CheckerInv /\ [Next]_vars
        BY <1>2 DEF ToolInv, ToolNext
    <2> QED
        BY <2>1, CheckerSteps
<1>3. ASSUME tool = "harness" PROVE HarnessInv'
    <2>1. HarnessInv /\ [Harness!Next]_(Harness!vars)
        BY <1>3 DEF ToolInv, ToolNext, harnessVars, Harness!vars
    <2> QED
        BY <2>1, HarnessSteps
<1>4. ASSUME tool = "uptest" PROVE UptestInv'
    <2>1. UptestInv /\ [Uptest!Next]_(Uptest!vars)
        BY <1>4 DEF ToolInv, ToolNext, uptestVars, Uptest!vars
    <2> QED
        BY <2>1, UptestSteps
<1> QED
    BY <1>1, <1>2, <1>3, <1>4 DEF ToolInv

\* The three invariants hold in every behaviour.
THEOREM ToolsKeepTheirInvariants == ToolSpec => []ToolInv
<1> QED
    BY ToolStarts, ToolSteps, PTL DEF ToolSpec

\* The three programs' variables keep their types, for files and bounds of any size.
THEOREM TypeCorrect == ToolSpec => []ToolTypeOK
<1>1. ToolInv => ToolTypeOK
    BY UptestTypeOK DEF ToolInv, ToolTypeOK, CheckerInv, HarnessInv
<1> QED
    BY <1>1, ToolsKeepTheirInvariants, PTL

\* check-examples.py: whatever the files and their order, when the script exits with 0 every
\* document of every example was read, is known and has the fields its CRD requires.
THEOREM PassedWasLookedAt == ToolSpec => []CheckerLooks
<1>1. ToolInv => CheckerLooks
    BY CheckerPasses DEF ToolInv, CheckerLooks
<1> QED
    BY <1>1, ToolsKeepTheirInvariants, PTL

\* test-provider.sh: whatever earlier invocations left behind, and however many there were,
\* a step of a complete setup finds what it needs, unless credentials are missing.
THEOREM SetupFinds == ToolSpec => []SetupFindsItsNeeds
<1>1. ToolInv => SetupFindsItsNeeds
    BY HarnessFinds DEF ToolInv, SetupFindsItsNeeds
<1> QED
    BY <1>1, ToolsKeepTheirInvariants, PTL

\* uptest-trigger.yaml: with any number of runs and pushes, a commit only shows results of
\* tests of that commit, of the examples of the run that reported them, though all runs report
\* in one context.
THEOREM ResultsEarned == ToolSpec => []ResultsAreEarned
<1>1. ToolInv => ResultsAreEarned
    BY UptestEarned DEF ToolInv, ResultsAreEarned
<1> QED
    BY <1>1, ToolsKeepTheirInvariants, PTL
=============================================================================
