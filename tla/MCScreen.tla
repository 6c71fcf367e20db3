------------------------------ MODULE MCScreen ------------------------------
(***************************************************************************)
(* Screen for TLC.  A scenario has rows in the lists it is about, so that  *)
(* one run has a look at each list without the product of all of them.     *)
(***************************************************************************)
EXTENDS Screen

CONSTANTS r1, r2, r3, s1, s2, s3, p1, a1, a2, a3, j1, j2, e1, e2, x1, x2, x3, x4

MCIds ==
    [runs |-> {r1, r2, r3}, sessions |-> {s1, s2, s3}, plans |-> {p1}, approvals |-> {a1, a2, a3},
     jobs |-> {j1, j2}, activity |-> {e1, e2}]
MCLimit == [l \in Lists |-> IF l = "runs" THEN 1 ELSE IF l = "approvals" THEN 3 ELSE 2]
Empty == [l \in Lists |-> <<>>]
Scenario(tables, new, v, n, g) ==
    [tables |-> tables, fresh |-> new, views |-> v, changes |-> n, goals |-> g]
MCScenarios ==
    {Scenario([Empty EXCEPT !["approvals"] = <<a1, a2>>], {a3}, {"approvals", "integrations"}, 2, 0),
     Scenario([Empty EXCEPT !["jobs"] = <<j1, j2>>, !["runs"] = <<r2>>], {}, {"review", "jobs"}, 2, 0),
     Scenario([Empty EXCEPT !["sessions"] = <<s1, s2>>, !["runs"] = <<r1>>], {s3, r2}, {"sessions"}, 1, 1),
     Scenario([Empty EXCEPT !["plans"] = <<p1>>], {x3, x4}, {"plans"}, 2, 0),
     Scenario([Empty EXCEPT !["runs"] = <<r1>>, !["activity"] = <<e1>>], {r2, r3}, {"activity"}, 1, 2)}
MCRunOf == [j \in {j1, j2} |-> IF j = j1 THEN r1 ELSE Nothing]
MCFiles == [r \in {r1, r2, r3} |-> IF r = r1 THEN 2 ELSE IF r = r2 THEN 1 ELSE 0]
MCStepsAtFirst == [p \in {p1} |-> {[no |-> 1, uid |-> x1], [no |-> 2, uid |-> x2]}]
=============================================================================
