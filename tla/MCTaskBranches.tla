--------------------------- MODULE MCTaskBranches ---------------------------
(* TaskBranches with its tasks taken for one another: no action and no     *)
(* property names one of them.                                             *)
EXTENDS TaskBranches, TLC

TaskSymmetry == Permutations(Tasks)

TwoTasks == \E t, u \in Tasks : t # u /\ status[t] # "waiting" /\ status[u] # "waiting"
ByNewBranch == new # NoNew \/ "new" \in DOMAIN branch

(* Bound: of the changes, the operator's moves and the restarts, three in  *)
(* one behaviour, so that every two kinds of them meet; two where New      *)
(* branch meets two tasks.                                                 *)
AnyThree ==
    count.changes + count.moves + count.crashes <= IF TwoTasks /\ ByNewBranch THEN 2 ELSE 3
=============================================================================
