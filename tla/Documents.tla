----------------------------- MODULE Documents -----------------------------
(***************************************************************************)
(* The parameters of a managed resource as documents: what GetParameters   *)
(* makes of a struct (a map from field names to values, absent fields left *)
(* out), how initProvider is merged into it, what late initialisation adds *)
(* to it, and what an update with ignored changes leaves of a resource.    *)
(* A list of blocks is a sequence of documents.  Scalars are few; Zero     *)
(* stands for the zero value of each type ("", 0, false).                  *)
(*                                                                         *)
(* The code recurs on the structs inside a struct.  They are two levels    *)
(* deep at most (Schemas!ThreeDeep), hence each operator comes as X1, for  *)
(* structs without structs inside, as X2, which has X1 deal with the       *)
(* structs inside, and as X, which has X2; XWith is given what becomes of  *)
(* the lists of blocks.                                                    *)
(***************************************************************************)
EXTENDS Schemas, Integers, Sequences

Zero == "zero"
NoFields == <<>>

Keys(dst, src) == DOMAIN dst \cup DOMAIN src
Element(seq, i) == IF i \in DOMAIN seq THEN seq[i] ELSE NoFields
FieldOr(doc, f, default) == IF f \in DOMAIN doc THEN doc[f] ELSE default
\* The fields of doc that are lists of blocks, and the i-th block of field f.
Blocks(struct, doc) == {f \in DOMAIN doc : struct[f].class = "blocks"}
Block(doc, f, i) == Element(FieldOr(doc, f, <<>>), i)

---------------------------------------------------------------------------
\* Mutant of MergedScalar: the merge overwrites, as the slice option alone would.
OverwrittenScalar(dst, src) == src

\* mergo's Merge with Overwrite = false: an empty value of dst gives way.
MergedScalar(dst, src) == IF dst = Zero THEN src ELSE dst

\* Maps are merged by key; lists that are there stay, but lists of blocks are merged
\* element by element as far as they go (WithSliceDeepCopy).
MergeWith(struct, dst, src, blocks) ==
    [f \in Keys(dst, src) |->
        IF f \notin DOMAIN dst THEN src[f]
        ELSE IF f \notin DOMAIN src THEN dst[f]
        ELSE CASE struct[f].class = "scalar" -> MergedScalar(dst[f], src[f])
               [] struct[f].class = "blocks" -> blocks[f]
               [] struct[f].class = "map" ->
                    [k \in Keys(dst[f], src[f]) |->
                        IF k \notin DOMAIN src[f] THEN dst[f][k]
                        ELSE MergedScalar(FieldOr(dst[f], k, Zero), src[f][k])]
               [] OTHER -> dst[f]]
Merge1(struct, dst, src) == MergeWith(struct, dst, src, dst)
Merge2(struct, dst, src) ==
    MergeWith(struct, dst, src,
        [f \in Blocks(struct, dst) |->
            [i \in DOMAIN dst[f] |-> Merge1(struct[f].of, dst[f][i], Block(src, f, i))]])
Merge(struct, dst, src) ==
    MergeWith(struct, dst, src,
        [f \in Blocks(struct, dst) |->
            [i \in DOMAIN dst[f] |-> Merge2(struct[f].of, dst[f][i], Block(src, f, i))]])

\* Mutant of LateInitialized: what is observed wins.
ObservedWins(struct, for, observed, deep) == observed ++ for

\* Late initialisation adds what is observed and absent, zero values left out unless the
\* field is written as null.  Inside lists of blocks that are there it may go element by
\* element (deep), which is up to the library.
LateInitializedWith(struct, for, observed, deep, blocks) ==
    LET missing == {f \in DOMAIN observed \ DOMAIN for :
                        struct[f].null \/ struct[f].class # "scalar" \/ observed[f] # Zero}
    IN  [f \in DOMAIN for \cup missing |->
            IF f \notin DOMAIN for THEN observed[f]
            ELSE IF /\ deep /\ struct[f].class = "blocks" /\ f \in DOMAIN observed
                    /\ DOMAIN for[f] = DOMAIN observed[f] THEN blocks[f]
            ELSE for[f]]
LateInitialized1(struct, for, observed, deep) ==
    LateInitializedWith(struct, for, observed, deep, for)
LateInitialized2(struct, for, observed, deep) ==
    LateInitializedWith(struct, for, observed, deep,
        [f \in Blocks(struct, for) |->
            [i \in DOMAIN for[f] |->
                LateInitialized1(struct[f].of, for[f][i], Block(observed, f, i), deep)]])
LateInitialized(struct, for, observed, deep) ==
    LateInitializedWith(struct, for, observed, deep,
        [f \in Blocks(struct, for) |->
            [i \in DOMAIN for[f] |->
                LateInitialized2(struct[f].of, for[f][i], Block(observed, f, i), deep)]])

\* Mutant of Ignored: the hook of ignored changes is left empty.
IgnoredNothing(for, init) == {}

\* The parameters Terraform is told to ignore changes of.
Ignored(for, init) == DOMAIN init \ DOMAIN for

\* An update of a resource whose attributes are remote with configuration config: what
\* initProvider gives and forProvider does not is ignored, what is not configured stays.
UpdatedWith(struct, for, init, remote, config, blocks) ==
    LET ignored == Ignored(for, init)
        Entry(f, k) == IF /\ f \in DOMAIN init /\ f \in DOMAIN remote
                          /\ k \in Ignored(FieldOr(for, f, NoFields), init[f])
                          /\ k \in DOMAIN remote[f]
                       THEN remote[f][k] ELSE config[f][k]
    IN  [f \in DOMAIN remote \cup (DOMAIN config \ ignored) |->
            IF f \in ignored \/ f \notin DOMAIN config THEN remote[f]
            ELSE CASE struct[f].class = "map" -> [k \in DOMAIN config[f] |-> Entry(f, k)]
                   [] struct[f].class = "blocks" -> blocks[f]
                   [] OTHER -> config[f]]
Updated1(struct, for, init, remote, config) ==
    UpdatedWith(struct, for, init, remote, config, config)
Updated2(struct, for, init, remote, config) ==
    UpdatedWith(struct, for, init, remote, config,
        [f \in Blocks(struct, config) |->
            [i \in DOMAIN config[f] |->
                Updated1(struct[f].of, Block(for, f, i), Block(init, f, i),
                    Block(remote, f, i), config[f][i])]])
Updated(struct, for, init, remote, config) ==
    UpdatedWith(struct, for, init, remote, config,
        [f \in Blocks(struct, config) |->
            [i \in DOMAIN config[f] |->
                Updated2(struct[f].of, Block(for, f, i), Block(init, f, i),
                    Block(remote, f, i), config[f][i])]])

---------------------------------------------------------------------------
\* Whether doc has every value of mine, the empty ones aside.
Holds1(struct, mine, doc) ==
    LET Same(a, b) == a = b \/ a = Zero
    IN  \A f \in DOMAIN mine :
            /\ f \in DOMAIN doc
            /\ struct[f].class = "blocks" => DOMAIN doc[f] = DOMAIN mine[f]
            /\ struct[f].class = "map" =>
                   \A k \in DOMAIN mine[f] : k \in DOMAIN doc[f] /\ Same(mine[f][k], doc[f][k])
            /\ struct[f].class \notin {"blocks", "map"} => Same(mine[f], doc[f])
Holds2(struct, mine, doc) ==
    /\ Holds1(struct, mine, doc)
    /\ \A f \in Blocks(struct, mine) : \A i \in DOMAIN mine[f] :
           Holds1(struct[f].of, mine[f][i], doc[f][i])
Holds(struct, mine, doc) ==
    /\ Holds1(struct, mine, doc)
    /\ \A f \in Blocks(struct, mine) : \A i \in DOMAIN mine[f] :
           Holds2(struct[f].of, mine[f][i], doc[f][i])

\* Whether old and new agree on what init gives and mine does not.
Untouched1(struct, mine, init, old, new) ==
    \A f \in DOMAIN init \cap DOMAIN old :
        /\ f \notin DOMAIN mine => f \in DOMAIN new /\ new[f] = old[f]
        /\ f \in DOMAIN mine /\ struct[f].class = "map" =>
               \A k \in (DOMAIN init[f] \cap DOMAIN old[f]) \ DOMAIN mine[f] :
                   f \in DOMAIN new /\ k \in DOMAIN new[f] /\ new[f][k] = old[f][k]
InAll(mine, init, old, new, f) ==
    DOMAIN mine[f] \cap DOMAIN init[f] \cap DOMAIN old[f] \cap DOMAIN new[f]
Untouched2(struct, mine, init, old, new) ==
    /\ Untouched1(struct, mine, init, old, new)
    /\ \A f \in Blocks(struct, mine) \cap DOMAIN init \cap DOMAIN old \cap DOMAIN new :
       \A i \in InAll(mine, init, old, new, f) :
           Untouched1(struct[f].of, mine[f][i], init[f][i], old[f][i], new[f][i])
Untouched(struct, mine, init, old, new) ==
    /\ Untouched1(struct, mine, init, old, new)
    /\ \A f \in Blocks(struct, mine) \cap DOMAIN init \cap DOMAIN old \cap DOMAIN new :
       \A i \in InAll(mine, init, old, new, f) :
           Untouched2(struct[f].of, mine[f][i], init[f][i], old[f][i], new[f][i])

---------------------------------------------------------------------------
\* The documents a run looks at: they differ along one path of fields.

Paths1(struct) == {<<f>> : f \in {g \in Arguments(struct) : struct[g].class # "blocks"}}
Paths2(struct) ==
    Paths1(struct) \cup
    UNION {{<<f>> \o p : p \in Paths1(struct[f].of)} : f \in Inner(struct)}
Paths(struct) ==
    Paths1(struct) \cup
    UNION {{<<f>> \o p : p \in Paths2(struct[f].of)} : f \in Inner(struct)}

\* Documents with field f at most, and lists of blocks.
With(f, choice) == {NoFields} \cup {[x \in {f} |-> v] : v \in choice}
BlocksOf(inner, most) == UNION {[1 .. n -> inner] : n \in 1 .. most}

\* Documents with values along path, blocks of up to items elements at the end of it.
Documents1(struct, path, values) ==
    LET f == path[1]
    IN  With(f, CASE struct[f].class = "scalar" -> values
                  [] struct[f].class = "list" -> {<<v>> : v \in values}
                  [] OTHER -> UNION {[K -> values] : K \in {{"a"}, {"a", "b"}}})
Documents2(struct, path, values, items) ==
    LET f == path[1]
    IN  IF Len(path) = 1 THEN Documents1(struct, path, values)
        ELSE With(f, BlocksOf(Documents1(struct[f].of, Tail(path), values), items))
DocumentsOn(struct, path, values, items) ==
    LET f == path[1]
    IN  IF Len(path) < 3 THEN Documents2(struct, path, values, items)
        ELSE With(f, BlocksOf(Documents2(struct[f].of, Tail(path), values, items), 1))

\* doc, which has values along path at most, with the provider's default at the end of
\* path if nothing is there.
Completed1(struct, doc, path) ==
    LET default == CASE struct[path[1]].class = "list" -> <<"default">>
                     [] struct[path[1]].class = "map" -> [k \in {"a"} |-> "default"]
                     [] OTHER -> "default"
    IN  doc ++ [x \in {path[1]} |-> default]
Completed2(struct, doc, path) ==
    IF Len(path) = 1 THEN Completed1(struct, doc, path)
    ELSE [f \in DOMAIN doc |->
             [i \in DOMAIN doc[f] |-> Completed1(struct[f].of, doc[f][i], Tail(path))]]
Completed(struct, doc, path) ==
    IF Len(path) = 1 THEN Completed1(struct, doc, path)
    ELSE [f \in DOMAIN doc |->
             [i \in DOMAIN doc[f] |-> Completed2(struct[f].of, doc[f][i], Tail(path))]]

\* doc with every scalar in it set to value.
OverwrittenWith(struct, doc, value, blocks) ==
    [f \in DOMAIN doc |->
        CASE struct[f].class = "scalar" -> value
          [] struct[f].class = "list" -> <<value>>
          [] struct[f].class = "map" -> [k \in DOMAIN doc[f] |-> value]
          [] OTHER -> blocks[f]]
Overwritten1(struct, doc, value) == OverwrittenWith(struct, doc, value, doc)
Overwritten2(struct, doc, value) ==
    OverwrittenWith(struct, doc, value,
        [f \in Blocks(struct, doc) |->
            [i \in DOMAIN doc[f] |-> Overwritten1(struct[f].of, doc[f][i], value)]])
Overwritten(struct, doc, value) ==
    OverwrittenWith(struct, doc, value,
        [f \in Blocks(struct, doc) |->
            [i \in DOMAIN doc[f] |-> Overwritten2(struct[f].of, doc[f][i], value)]])
=============================================================================
