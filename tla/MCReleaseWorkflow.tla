------------------------- MODULE MCReleaseWorkflow -------------------------
(* Two pushes of one tag, for different commits; two lanes.                 *)
EXTENDS ReleaseWorkflow, TLC

CONSTANTS r1, r2, c1, c2, l1, l2

MCRuns == {r1, r2}
MCCommits == {c1, c2}
MCCommitOf == r1 :> c1 @@ r2 :> c2
MCLanes == {l1, l2}
LaneSymmetry == Permutations(MCLanes)
=============================================================================
