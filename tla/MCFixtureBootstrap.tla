------------------------ MODULE MCFixtureBootstrap ------------------------
(* Two runs with one output path or two.  The runs are interchangeable,    *)
(* and so are the paths.                                                   *)
EXTENDS FixtureBootstrap, TLC

EveryMode == AllModes
Interchangeable == Permutations(Runs) \cup Permutations(Paths)

\* All pairs of modes but three: what a run in mode oid4vp-mdoc shares with a
\* verifier fixture, two runs in that mode share, so its long script is paired
\* with itself and with the two issuers.
Paired(m, n)  == m = "oid4vp-mdoc" => n \in {"oid4vp-mdoc", "oid4vci", "eudi"}
InitPaired    == Init /\ \A r, s \in Runs : r # s => Paired(mode[r], mode[s])
SpecPaired    == InitPaired /\ [][Next]_vars
=============================================================================
