------------------------------ MODULE Planner ------------------------------
(***************************************************************************)
(* The pure diff of pkg/flydeploy/planner: which change each machine and   *)
(* each missing slot of an app needs.                                      *)
(*                                                                         *)
(* The fleet ("live") is a function from the ids of the machines that      *)
(* exist to what the planner reads of each: the two metadata keys the      *)
(* library owns (group, hash) and the region.  The desired plan is a       *)
(* function from group names to [min, max, hash, region].  Names and       *)
(* machine ids are integers standing for their rank in string order, which *)
(* is all the code uses of them; the config hash is an opaque value.       *)
(*                                                                         *)
(* A definition that no other uses, here and in the other modules, is a    *)
(* slip a programmer could have made in the definition after it; the runs  *)
(* are known to notice it (the README lists these mutants).                *)
(***************************************************************************)
EXTENDS Integers, FiniteSets

CONSTANTS NoGroup,    \* a machine without the metadata key flydeploy.group
          NoRegion    \* a machine whose region the API left out

ASSUME NoGroupAssumption == NoGroup \notin Int

Actions == {"create", "delete", "noop", "replace", "update"}

\* Actions in the order of strings.Compare, the second sort key of Diff.
ActionRank == [create |-> 1, delete |-> 2, noop |-> 3, replace |-> 4, update |-> 5]

\* The machines of a group; Diff sorts them by id, so a machine's place in
\* that order is the number of members with a smaller id.
MembersOrUnowned(live, g) == {m \in DOMAIN live : live[m].group \in {g, NoGroup}}
Members(live, g) == {m \in DOMAIN live : live[m].group = g}

Place(m, members) == Cardinality({x \in members : x < m})

\* How many of a group's n machines are kept: the rest is beyond max.
ManagedCountUncapped(n, max) == n
ManagedCount(n, max) == IF max = 0 \/ n > max THEN max ELSE n

DeleteFrom(n, max) == IF max > n THEN n ELSE max

RequiresReplacement(machine, spec) ==
    machine.region # NoRegion /\ machine.region # spec.region

UpToDate(machine, spec) ==
    /\ machine.hash = spec.hash
    /\ machine.region # NoRegion
    /\ machine.region = spec.region

KeepAction(machine, spec) ==
    IF UpToDate(machine, spec) THEN "noop"
    ELSE IF RequiresReplacement(machine, spec) THEN "replace" ELSE "update"

Kept(spec, live, g) ==
    LET ms == Members(live, g)
    IN  {[action |-> KeepAction(live[m], spec), group |-> g, id |-> m] :
            m \in {x \in ms : Place(x, ms) < ManagedCount(Cardinality(ms), spec.max)}}

\* A create has no machine id; the slot number tells one create from the next.
MissingOneMore(spec, live, g) ==
    {[action |-> "create", group |-> g, id |-> slot] :
        slot \in Cardinality(Members(live, g)) .. spec.min}

MissingOneFewer(spec, live, g) ==
    {[action |-> "create", group |-> g, id |-> slot] :
        slot \in Cardinality(Members(live, g)) .. (spec.min - 2)}

Missing(spec, live, g) ==
    {[action |-> "create", group |-> g, id |-> slot] :
        slot \in Cardinality(Members(live, g)) .. (spec.min - 1)}

Excess(spec, live, g) ==
    LET ms == Members(live, g)
    IN  {[action |-> "delete", group |-> g, id |-> m] :
            m \in {x \in ms : Place(x, ms) >= DeleteFrom(Cardinality(ms), spec.max)}}

\* Managed machines of groups the plan no longer has.
Orphans(desired, live) ==
    {[action |-> "delete", group |-> live[m].group, id |-> m] :
        m \in {x \in DOMAIN live : live[x].group \notin DOMAIN desired \cup {NoGroup}}}

GroupChanges(spec, live, g) ==
    Kept(spec, live, g) \cup Missing(spec, live, g) \cup Excess(spec, live, g)

Diff(desired, live) ==
    (UNION {GroupChanges(desired[g], live, g) : g \in DOMAIN desired})
        \cup Orphans(desired, live)

\* The order in which Diff returns the changes and Apply executes them.
Before(c, d) ==
    \/ c.group < d.group
    \/ c.group = d.group /\ ActionRank[c.action] < ActionRank[d.action]
    \/ c.group = d.group /\ c.action = d.action /\ c.id < d.id

First(changes, c) ==
    c \in changes /\ \A d \in changes \ {c} : Before(c, d)

InSync(desired, live) ==
    \A c \in Diff(desired, live) : c.action = "noop"
=============================================================================
