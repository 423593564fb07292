---------------------------- MODULE MCResources ----------------------------
(***************************************************************************)
(* Resources, model-checked: two processes without a lock between load and *)
(* persist.  What holds only of commands that do not overlap is said of    *)
(* the behaviours in which they have not (alone).                          *)
(***************************************************************************)
EXTENDS Resources, TLC

Symmetry ==
    Permutations(Processes) \cup Permutations(Databases) \cup Permutations(Apps)
        \cup Permutations(Names)

\* Bound: once commands have overlapped, no more than three, or two and a failing call,
\* and none that only looked or was killed.
Bounded ==
    alone \/ (budget.looks + budget.crashes = 0 /\ budget.commands + budget.faults <= 3)

\* The memory of a process is gone when it ends, and what it has no use for in the
\* phase it is in tells no two states apart.
View == <<file, fly, pc, history, budget,
          [p \in Processes |->
            IF pc[p] = "idle" THEN None
            ELSE <<cmd[p], copy[p], todo[p], res[p],
                   IF pc[p] \in {"create", "grant"} THEN app[p] ELSE None,
                   IF pc[p] = "grant" THEN name[p] ELSE None>>]>>
=============================================================================
