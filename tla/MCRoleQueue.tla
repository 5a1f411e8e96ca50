---------------------------- MODULE MCRoleQueue ----------------------------
EXTENDS RoleQueue

CONSTANT ann

Rt(item, rev, role) == [item |-> item, rev |-> rev, role |-> role]

MCItem == {"red", "blue"}
MCStages == <<"needs_specification", "ready_to_build", "ready_for_review">>
MCRole == [s \in {"needs_specification", "ready_to_build", "ready_for_review"} |->
    CASE s = "needs_specification" -> "planner"
      [] s = "ready_to_build" -> "builder"
      [] OTHER -> "human"]
OneEach == [s \in DOMAIN MCRole |-> 1]
TwoEach == [s \in DOMAIN MCRole |-> 2]

MCRuntime == {Rt("red", 1, "builder"), Rt("red", 2, "planner"), Rt("blue", 1, "planner")}
MCCaller == {ann}
Offer(rt, stage, file, ready) == [rt |-> rt, stage |-> stage, file |-> file, ready |-> ready]

\* One ticket is to be built, the other specified, and both need a file.
RedBuild == Offer(Rt("red", 1, "builder"), "ready_to_build", "f", TRUE)
BlueSpecify == Offer(Rt("blue", 1, "planner"), "needs_specification", "f", TRUE)
MCSources == {[i \in MCItem |-> IF i = "red" THEN RedBuild ELSE BlueSpecify]}

\* The first may go back to its specification; the other may lose its key.
MCOffers == {Offer(Rt("red", 2, "planner"), "needs_specification", None, TRUE),
             Offer(Rt("blue", 1, "planner"), "needs_specification", None, TRUE)}

\* The same without a common file, for the coordinator's limit alone.
MCApart == {[i \in MCItem |-> [(IF i = "red" THEN RedBuild ELSE BlueSpecify) EXCEPT !.file = None]]}

\* Whatever an attended evaluation does, an automatic one may do.
MCModes == {"automatic"}

MCAttended == {"attended"}
NoItem == {}
MCFile == {"f"}
=============================================================================
