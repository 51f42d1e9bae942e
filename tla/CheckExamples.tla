---------------------------- MODULE CheckExamples ----------------------------
(***************************************************************************)
(* scripts/check-examples.py: CRD files and example files are read one by  *)
(* one, in whatever order the directory has them; every document of an     *)
(* example is looked up among the CRDs, and the exit code tells whether an *)
(* error was found.  A file is a sequence of documents; Unparsable stands  *)
(* for the place where the YAML parser gives up.                           *)
(***************************************************************************)
EXTENDS Naturals, FiniteSets, SequencesExt

CONSTANTS
    CrdFiles,      \* the files of CRDs there may be
    ExampleFiles,  \* the example files there may be
    Unparsable

ASSUME CheckerFiles ==
    \A file \in CrdFiles \cup ExampleFiles : Len(file) \in Nat /\ DOMAIN file = 1 .. Len(file)

VARIABLES
    crdTodo,   \* the CRD files not yet loaded
    crds,      \* the CRDs loaded, by kind, version and group
    examples,  \* the example files
    todo,      \* those not yet validated
    errors,    \* what is wrong with the others
    exit       \* the exit code

vars == <<crdTodo, crds, examples, todo, errors, exit>>

Running == 2
NoCrds == <<>>
NoKind == "-"
\* A CRD version and the fields its schema requires at the top.
Crd(kind, version, group, served, required) ==
    [key |-> <<kind, version, group>>, served |-> served, required |-> required]
\* A document: groups are sequences of labels, and native resources have none.
Doc(kind, version, group, fields) == [key |-> <<kind, version, group>>, fields |-> fields]

\* The function s, and t where s has no value.
s ++ t == [key \in DOMAIN s \cup DOMAIN t |-> IF key \in DOMAIN s THEN s[key] ELSE t[key]]

\* Whether the parser gives up on a file, and the places of the documents it yields before.
Broken(file) == \E i \in DOMAIN file : file[i] = Unparsable
Documents(file) == {i \in DOMAIN file : \A j \in 1 .. i : file[j] # Unparsable}

TypeOK ==
    /\ crdTodo \subseteq CrdFiles
    /\ DOMAIN crds \subseteq UNION {{f[i].key : i \in Documents(f)} : f \in CrdFiles}
    /\ examples \subseteq ExampleFiles /\ todo \subseteq examples
    /\ DOMAIN errors = examples \ todo
    /\ exit \in {0, 1, Running}
    /\ (exit # Running => crdTodo = {} /\ todo = {})
---------------------------------------------------------------------------
Init ==
    /\ crdTodo \in SUBSET CrdFiles
    /\ crds = NoCrds
    /\ examples \in SUBSET ExampleFiles /\ todo = examples
    /\ errors = <<>>
    /\ exit = Running

\* The last document of each key.
LastOfKey(file, places) ==
    [key \in {file[i].key : i \in places} |-> file[Max({i \in places : file[i].key = key})]]

\* Mutant of Loaded: the versions that are not served are loaded as well.
LoadedAll(file) == LastOfKey(file, Documents(file))

\* The versions of a CRD file that are served; a file that breaks off keeps what came before.
Loaded(file) == LastOfKey(file, {i \in Documents(file) : file[i].served})

LoadCrds ==
    /\ \E file \in crdTodo :
        /\ crds' = Loaded(file) ++ crds
        /\ crdTodo' = crdTodo \ {file}
    /\ UNCHANGED <<examples, todo, errors, exit>>

\* Another version is accepted, and so is any group the document's group is the end of.
KindKnown(d) ==
    \E key \in DOMAIN crds : key[1] = d.key[1] /\ IsSuffix(d.key[3], key[3])

\* validate_example: documents without kind and native resources are skipped.
Problems(file) ==
    LET checked == {i \in Documents(file) : file[i].key[1] # NoKind /\ file[i].key[3] # <<>>}
        unknown == {i \in checked : file[i].key \notin DOMAIN crds}
    IN  {<<i, "no CRD">> : i \in {j \in unknown : ~KindKnown(file[j])}}
        \cup {<<i, "missing">> : i \in {j \in checked \ unknown :
                    ~crds[file[j].key].required \subseteq file[j].fields}}
        \cup IF Broken(file) THEN {<<0, "parsing">>} ELSE {}

Validate ==
    /\ crdTodo = {}
    /\ \E file \in todo :
        /\ errors' = [f \in {file} |-> Problems(file)] ++ errors
        /\ todo' = todo \ {file}
    /\ UNCHANGED <<crdTodo, crds, examples, exit>>

\* Mutant of Finish: the script ends with the first file that has errors.
FinishEarly ==
    /\ exit = Running /\ crdTodo = {}
    /\ todo = {} \/ \E file \in examples \ todo : errors[file] # {}
    /\ exit' = IF \E file \in examples \ todo : errors[file] # {} THEN 1 ELSE 0
    /\ UNCHANGED <<crdTodo, crds, examples, todo, errors>>

Finish ==
    /\ exit = Running /\ crdTodo = {} /\ todo = {}
    /\ exit' = IF \E file \in examples : errors[file] # {} THEN 1 ELSE 0
    /\ UNCHANGED <<crdTodo, crds, examples, todo, errors>>

Next == LoadCrds \/ Validate \/ Finish
Spec == Init /\ [][Next]_vars
---------------------------------------------------------------------------
OfProvider(d) == d.key[1] # NoKind /\ d.key[3] # <<>>

\* Whatever the order of the files, examples that pass can be read to their ends, and each
\* of their documents is of a kind that is served, or is only served in another version,
\* and has the fields its CRD requires at the top.
PassedIsChecked ==
    exit = 0 => \A file \in examples :
        /\ ~Broken(file)
        /\ \A i \in DOMAIN file : OfProvider(file[i]) =>
            LET crd == {c \in {crds[key] : key \in DOMAIN crds} : c.key = file[i].key}
            IN  /\ \A c \in crd : c.served /\ c.required \subseteq file[i].fields
                /\ crd = {} => KindKnown(file[i])
=============================================================================
