---------------------------- MODULE PlannerCheck ----------------------------
(***************************************************************************)
(* The diff against what it is for: executing all of it at once, without a *)
(* failure, on every small fleet and for every small plan.                 *)
(***************************************************************************)
EXTENDS Planner

CONSTANTS Plans,    \* desired plans
          Fleets,   \* live fleets to start from
          Slots,    \* ids for new machines
          Hashes, Regions

ASSUME PlannerAssumption ==
    /\ Slots \subseteq Int /\ IsFiniteSet(Slots)
    /\ \A f \in Fleets :
        /\ DOMAIN f \subseteq Slots
        /\ \A m \in DOMAIN f : f[m].hash \in Hashes /\ f[m].region \in Regions \cup {NoRegion}
    /\ \A p \in Plans :
        /\ DOMAIN p \subseteq Int
        /\ \A g \in DOMAIN p :
            /\ p[g].min \in Int /\ p[g].max \in Nat /\ p[g].min <= p[g].max
            /\ p[g].hash \in Hashes /\ p[g].region \in Regions

VARIABLES fleet,    \* the live machines
          desired   \* the plan last executed

vars == <<fleet, desired>>

Writes(changes) == {c \in changes : c.action \in {"create", "replace"}}

Gone(changes) == {c.id : c \in {d \in changes : d.action \in {"delete", "replace"}}}

\* What Apply makes of a change's machine: its group, the group's config hash,
\* and the region; an update leaves the region as it is.
Written(c, p, live) ==
    [group |-> c.group, hash |-> p[c.group].hash,
     region |-> IF c.action = "update" THEN live[c.id].region ELSE p[c.group].region]

\* The fleet once every change has been executed; new[c] is the id Fly gives
\* the machine created for change c.
Executed(changes, new, p, live) ==
    LET updates == {c.id : c \in {d \in changes : d.action = "update"}}
        change(id) == CHOOSE c \in changes : c.action # "create" /\ c.id = id
        origin(id) == CHOOSE c \in DOMAIN new : new[c] = id
    IN  [id \in (DOMAIN live \ Gone(changes)) \cup {new[c] : c \in DOMAIN new} |->
            IF id \in {new[c] : c \in DOMAIN new} THEN Written(origin(id), p, live)
            ELSE IF id \in updates THEN Written(change(id), p, live)
            ELSE live[id]]

\* Fly gives distinct new machines distinct ids, in no particular order.
Assignments(changes, live) ==
    {new \in [Writes(changes) -> Slots \ DOMAIN live] :
        \A c, d \in Writes(changes) : c # d => new[c] # new[d]}

Execute(p) ==
    LET changes == Diff(p, fleet)
    IN  /\ \E new \in Assignments(changes, fleet) : fleet' = Executed(changes, new, p, fleet)
        /\ desired' = p

Init == fleet \in Fleets /\ desired = <<>>

Next == \E p \in Plans : Execute(p)

Spec == Init /\ [][Next]_vars

-----------------------------------------------------------------------------
\* What an executed plan leaves is a fleet again: each machine in a group, with
\* the hash and region it was given.
TypeOK ==
    /\ DOMAIN fleet \subseteq Slots
    /\ \A m \in DOMAIN fleet :
        fleet[m].hash \in Hashes /\ fleet[m].region \in Regions \cup {NoRegion}
    /\ desired \in Plans \cup {<<>>}

\* The region of every machine is known, as Fly reports it.
RegionsKnown == \A m \in DOMAIN fleet : fleet[m].region # NoRegion

\* "Apply is idempotent (config-hash no-op re-runs)": once a plan has been
\* executed, diffing it again finds only no-ops.
ExecutedIsInSync ==
    desired # <<>> /\ RegionsKnown => InSync(desired, fleet)

\* ... every group has between min and max machines, and no other group is left.
ExecutedIsInBounds ==
    desired # <<>> =>
        /\ \A g \in DOMAIN desired :
            Cardinality(Members(fleet, g)) \in desired[g].min .. desired[g].max
        /\ \A m \in DOMAIN fleet : fleet[m].group \in DOMAIN desired \cup {NoGroup}

\* Every managed machine gets exactly one change, an unmanaged machine none.
OneChangePerMachine ==
    \A p \in Plans :
        LET changes == {c \in Diff(p, fleet) : c.action # "create"}
        IN  /\ \A m \in DOMAIN fleet :
                Cardinality({c \in changes : c.id = m}) =
                    IF fleet[m].group = NoGroup THEN 0 ELSE 1
            /\ {c.id : c \in changes} \subseteq DOMAIN fleet
=============================================================================
