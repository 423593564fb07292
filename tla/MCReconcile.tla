---------------------------- MODULE MCReconcile ----------------------------
(***************************************************************************)
(* One app with groups 1 and 2, release machines under group 3, and a      *)
(* machine somebody else made.  The plans make every action of the planner *)
(* occur: create, update (new hash), replace (new region), delete (lower   *)
(* maximum, dropped group) and no-op, with and without a release command.  *)
(***************************************************************************)
EXTENDS Reconcile, TLC

Size(min, max, hash, region) ==
    [min |-> min, max |-> max, hash |-> hash, region |-> region]

One(hash, region) == Size(1, 1, hash, region)

Deploy(groups) == [groups |-> groups, release |-> FALSE]
Migrate(groups) == [groups |-> groups, release |-> TRUE]

\* Two groups; the second in a new region; the first updated after a release
\* command; the first alone, scaled out.
Base   == Deploy(1 :> One("h1", "ams") @@ 2 :> One("h1", "ams"))
Move   == Deploy(1 :> One("h1", "ams") @@ 2 :> One("h1", "lhr"))
Bump   == Migrate(1 :> One("h2", "ams") @@ 2 :> One("h1", "ams"))
Grow   == Deploy(1 :> Size(2, 2, "h1", "lhr"))
Shrink == Migrate(1 :> Size(0, 1, "h2", "ams"))

MCPlans == {Base, Move, Bump, Grow, Shrink}
\* Two runners: updates of the same machine, a replacement against an update.
TwoPlans == {Move, Bump}

Running(group, hash, region) ==
    [name |-> "other", group |-> group, hash |-> hash, region |-> region,
     health |-> "passing", version |-> 0]

Foreign == Running(NoGroup, NoHash, "ams")

Empty    == 5 :> Foreign
Deployed == Empty @@ 4 :> Running(1, "h1", "ams") @@ 6 :> Running(2, "h1", "ams")
Sprawl   == Empty @@ 4 :> Running(1, "h1", "ams") @@ 6 :> Running(1, "h1", "ams")

MCFleets == {Empty, Deployed, Sprawl}
TwoFleets == {Deployed}

\* Only the order of ids matters to the planner: a new machine sorts before or
\* after all earlier ones.
MCOffered(ids) ==
    {i \in MachineIds \ ids :
        (\A j \in ids : i < j) \/ (\A j \in ids : i > j)}
        \cap {j + d : j \in ids, d \in {-1, 1}}
=============================================================================
