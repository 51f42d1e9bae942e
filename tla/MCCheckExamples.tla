--------------------------- MODULE MCCheckExamples ---------------------------
(***************************************************************************)
(* Constant values for the runs of CheckExamples.                          *)
(***************************************************************************)
EXTENDS CheckExamples

\* Small files with everything that can happen to one: two kinds, one of them in a group
\* that is the end of the other's, versions that are not served, files that break off.
Sub == <<"sub", "io">>
Top == <<"io">>
SomeCrd(kind, version, group, served) == Crd(kind, version, group, served, {"spec"})
SmallCrds == {
    <<SomeCrd("K", "v1", Sub, TRUE)>>,
    <<SomeCrd("K", "v2", Sub, FALSE), SomeCrd("L", "v1", Top, TRUE)>>,
    <<SomeCrd("L", "v2", Top, TRUE), Unparsable, SomeCrd("L", "v3", Top, TRUE)>>}
SmallExamples == {
    <<Doc("K", "v1", Sub, {"spec"}), Doc("Secret", "v1", <<>>, {})>>,
    <<Doc("K", "v1", Sub, {}), Doc("K", "v2", Sub, {"spec"})>>,
    <<Doc("K", "v2", Sub, {"spec"})>>,
    <<Doc("K", "v1", Top, {"spec"}), Doc(NoKind, "v1", Top, {})>>,
    <<Doc("L", "v3", Top, {"spec"}), Doc("L", "v1", Sub, {"spec"})>>,
    <<Doc("L", "v2", Top, {"spec"}), Unparsable, Doc("L", "v1", Top, {})>>,
    <<>>}
=============================================================================
