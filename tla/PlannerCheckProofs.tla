------------------------ MODULE PlannerCheckProofs ------------------------
(***************************************************************************)
(* What Diff promises, for every set of plans and every finite set of ids: *)
(* one change per machine, and that carrying out all of them once leaves   *)
(* every group within its bounds and nothing more to do.                   *)
(***************************************************************************)
EXTENDS PlannerCheck, PlannerProofs

\* The fleet only ever holds ids Fly has: this makes it finite.
FleetInSlots == DOMAIN fleet \subseteq Slots

LEMMA FleetInSlotsInvariant == Spec => []FleetInSlots
<1>1. Init => FleetInSlots
  BY PlannerAssumption DEF Init, FleetInSlots
<1>2. FleetInSlots /\ [Next]_vars => FleetInSlots'
  <2>. SUFFICES ASSUME FleetInSlots, Next PROVE FleetInSlots'
    BY DEF FleetInSlots, vars
  <2>1. PICK p \in Plans : Execute(p)
    BY DEF Next
  <2>2. PICK new \in Assignments(Diff(p, fleet), fleet) :
            fleet' = Executed(Diff(p, fleet), new, p, fleet)
    BY <2>1 DEF Execute
  <2>3. DOMAIN fleet' = (DOMAIN fleet \ Gone(Diff(p, fleet))) \cup {new[c] : c \in DOMAIN new}
    BY <2>2 DEF Executed
  <2>4. \A c \in DOMAIN new : new[c] \in Slots
    BY <2>2 DEF Assignments
  <2>. QED
    BY <2>3, <2>4 DEF FleetInSlots
<1>. QED
  BY <1>1, <1>2, PTL DEF Spec

(***************************************************************************)
(* Executing a plan gives each managed machine exactly one treatment and   *)
(* never names an unmanaged one (planner.go:55-112).                       *)
(***************************************************************************)
THEOREM OneChange == Spec => []OneChangePerMachine
<1>1. FleetInSlots => OneChangePerMachine
  <2>. SUFFICES ASSUME FleetInSlots, NEW p \in Plans
                PROVE LET changes == {c \in Diff(p, fleet) : c.action # "create"}
                      IN  /\ \A m \in DOMAIN fleet :
                              Cardinality({c \in changes : c.id = m}) =
                                  IF fleet[m].group = NoGroup THEN 0 ELSE 1
                          /\ {c.id : c \in changes} \subseteq DOMAIN fleet
    BY DEF OneChangePerMachine
  <2>. DEFINE changes == {c \in Diff(p, fleet) : c.action # "create"}
  <2>1. IsFiniteSet(DOMAIN fleet) /\ Sized(p)
    BY PlannerAssumption, FS_Subset DEF FleetInSlots, Sized
  <2>2. \A c \in changes : c.id \in DOMAIN fleet /\ fleet[c.id].group # NoGroup
    BY <2>1, DiffIsManaged DEF Sized
  <2>3. ASSUME NEW m \in DOMAIN fleet, fleet[m].group = NoGroup
        PROVE  Cardinality({c \in changes : c.id = m}) = 0
    <3>1. {c \in changes : c.id = m} = {}
      BY <2>2, <2>3
    <3>. QED
      BY <3>1, FS_EmptySet
  <2>4. ASSUME NEW m \in DOMAIN fleet, fleet[m].group # NoGroup
        PROVE  Cardinality({c \in changes : c.id = m}) = 1
    <3>1. PICK c \in Diff(p, fleet) : c.action # "create" /\ c.id = m
      BY <2>1, <2>4, DiffCovers
    <3>2. \A d \in changes : d.id = m => d = c
      BY <2>1, <3>1, DiffChoosesOne
    <3>3. {d \in changes : d.id = m} = {c}
      BY <3>1, <3>2
    <3>. QED
      BY <3>3, FS_Singleton
  <2>. QED
    BY <2>2, <2>3, <2>4
<1>. QED
  BY <1>1, FleetInSlotsInvariant, PTL
-----------------------------------------------------------------------------
(***************************************************************************)
(* One execution, whatever was there before: what it leaves of a group is  *)
(* the members no change removed and the machines made for its changes.    *)
(***************************************************************************)
NewIds(new) == {new[c] : c \in DOMAIN new}

\* What becomes of the machines, new and old, when p is executed.
CarriedOut(p, new, after) ==
    LET changes == Diff(p, fleet)
    IN  /\ DOMAIN after = (DOMAIN fleet \ Leaving(changes)) \cup NewIds(new)
        /\ NewIds(new) \subseteq Slots \ DOMAIN fleet
        /\ \A id \in NewIds(new) : \E c \in Writes(changes) :
            new[c] = id /\ after[id] = Written(c, p, fleet)
        /\ \A c \in Writes(changes) :
            new[c] \in NewIds(new) /\ after[new[c]] = Written(c, p, fleet)
        /\ \A id \in DOMAIN fleet \ Leaving(changes) :
            \/ after[id] = fleet[id] /\ \A c \in changes : c.id = id => c.action # "update"
            \/ \E c \in changes :
                c.id = id /\ c.action = "update" /\ after[id] = Written(c, p, fleet)

LEMMA ExecutedMachines ==
    ASSUME FleetInSlots, NEW p \in Plans, NEW new \in Assignments(Diff(p, fleet), fleet)
    PROVE  CarriedOut(p, new, Executed(Diff(p, fleet), new, p, fleet))
<1>. DEFINE changes == Diff(p, fleet)
            after == Executed(changes, new, p, fleet)
            updates == {c.id : c \in {d \in changes : d.action = "update"}}
            change(id) == CHOOSE c \in changes : c.action # "create" /\ c.id = id
            origin(id) == CHOOSE c \in DOMAIN new : new[c] = id
<1>1. /\ DOMAIN new = Writes(changes)
      /\ \A c \in Writes(changes) : new[c] \in Slots \ DOMAIN fleet
      /\ \A c, d \in Writes(changes) : c # d => new[c] # new[d]
  BY DEF Assignments
<1>2. Gone(changes) = Leaving(changes)
  BY DEF Gone, Leaving
<1>3. after = [id \in (DOMAIN fleet \ Leaving(changes)) \cup NewIds(new) |->
                IF id \in NewIds(new) THEN Written(origin(id), p, fleet)
                ELSE IF id \in updates THEN Written(change(id), p, fleet)
                ELSE fleet[id]]
  BY <1>2 DEF Executed, NewIds
<1>4. NewIds(new) \subseteq Slots \ DOMAIN fleet
  BY <1>1 DEF NewIds
<1>5. \A c \in Writes(changes) : new[c] \in NewIds(new) /\ origin(new[c]) = c
  <2>. SUFFICES ASSUME NEW c \in Writes(changes)
                PROVE  new[c] \in NewIds(new) /\ origin(new[c]) = c
    OBVIOUS
  <2>1. c \in DOMAIN new /\ new[c] = new[c]
    BY <1>1
  <2>2. origin(new[c]) \in DOMAIN new /\ new[origin(new[c])] = new[c]
    BY <2>1
  <2>. QED
    BY <1>1, <2>1, <2>2 DEF NewIds
<1>6. \A c \in Writes(changes) : after[new[c]] = Written(c, p, fleet)
  <2>. HIDE DEF origin, after, change, updates
  <2>. QED
    BY <1>3, <1>5
<1>7. \A id \in NewIds(new) : \E c \in Writes(changes) : new[c] = id
  BY <1>1 DEF NewIds
<1>8. ASSUME NEW id \in DOMAIN fleet \ Leaving(changes)
      PROVE  \/ after[id] = fleet[id] /\ \A c \in changes : c.id = id => c.action # "update"
             \/ \E c \in changes : /\ c.id = id /\ c.action = "update"
                                   /\ after[id] = Written(c, p, fleet)
  <2>1. id \notin NewIds(new)
    BY <1>4
  <2>2. CASE id \notin updates
    <3>1. after[id] = fleet[id]
      BY <1>3, <2>1, <2>2
    <3>. QED
      BY <2>2, <3>1
  <2>3. CASE id \in updates
    <3>1. PICK c \in changes : c.action = "update" /\ c.id = id
      BY <2>3
    <3>2. change(id) \in changes /\ change(id).action # "create" /\ change(id).id = id
      BY <3>1
    <3>3. change(id) = c
      <4>1. IsFiniteSet(DOMAIN fleet) /\ Sized(p)
        BY PlannerAssumption, FS_Subset DEF FleetInSlots, Sized
      <4>. HIDE DEF change
      <4>. QED
        BY <3>1, <3>2, <4>1, DiffChoosesOne
    <3>4. after[id] = Written(change(id), p, fleet)
      BY <1>3, <2>1, <2>3
    <3>. QED
      BY <3>1, <3>3, <3>4
  <2>. QED
    BY <2>2, <2>3
<1>. HIDE DEF after, changes, origin, change, updates
<1>9. DOMAIN after = (DOMAIN fleet \ Leaving(changes)) \cup NewIds(new)
  BY <1>3
<1>. QED
  BY <1>4, <1>5, <1>6, <1>7, <1>8, <1>9 DEF after, changes, CarriedOut

\* What holds of the fleet once p has been executed.
InBounds(p) ==
    /\ \A g \in DOMAIN p : Cardinality(Members(fleet, g)) \in p[g].min .. p[g].max
    /\ \A m \in DOMAIN fleet : fleet[m].group \in DOMAIN p \cup {NoGroup}

AsDesired(p) ==
    RegionsKnown =>
        \A m \in DOMAIN fleet :
            fleet[m].group \in DOMAIN p => UpToDate(fleet[m], p[fleet[m].group])

LEMMA ExecutedBounds ==
    ASSUME FleetInSlots, NEW p \in Plans, Execute(p)
    PROVE  InBounds(p)' /\ AsDesired(p)'
<1>. DEFINE changes == Diff(p, fleet)
<1>1. PICK new \in Assignments(changes, fleet) : fleet' = Executed(changes, new, p, fleet)
  BY DEF Execute
<1>2. /\ DOMAIN fleet' = (DOMAIN fleet \ Leaving(changes)) \cup NewIds(new)
      /\ NewIds(new) \subseteq Slots \ DOMAIN fleet
      /\ \A id \in NewIds(new) : \E c \in Writes(changes) :
           new[c] = id /\ fleet'[id] = Written(c, p, fleet)
      /\ \A c \in Writes(changes) : new[c] \in NewIds(new) /\ fleet'[new[c]] = Written(c, p, fleet)
      /\ \A id \in DOMAIN fleet \ Leaving(changes) :
           \/ fleet'[id] = fleet[id] /\ \A c \in changes : c.id = id => c.action # "update"
           \/ \E c \in changes :
               c.id = id /\ c.action = "update" /\ fleet'[id] = Written(c, p, fleet)
  <2>1. CarriedOut(p, new, fleet')
    BY <1>1, ExecutedMachines
  <2>. QED
    BY <2>1 DEF CarriedOut
<1>3. /\ IsFiniteSet(DOMAIN fleet) /\ DOMAIN fleet \subseteq Int /\ Sized(p)
      /\ DOMAIN p \subseteq Int
      /\ \A g \in DOMAIN p : p[g].min \in Int /\ p[g].min <= p[g].max
  BY PlannerAssumption, FS_Subset DEF FleetInSlots, Sized
<1>. HIDE DEF changes
<1>4. /\ \A c \in changes : c.action # "delete" => c.group \in DOMAIN p
      /\ \A c \in changes : c.action # "create" => c.id \in DOMAIN fleet /\ fleet[c.id].group = c.group
      /\ \A c \in changes : c.action \in {"noop", "update", "replace"} =>
            c.action = KeepAction(fleet[c.id], p[c.group])
  BY <1>3, DiffShape, DiffIsManaged, DiffKeeps DEF changes
<1>5. \A id \in DOMAIN fleet \ Leaving(changes) : fleet'[id].group = fleet[id].group
  <2>1. \A c : Written(c, p, fleet).group = c.group
    BY DEF Written
  <2>. QED
    BY <1>2, <1>4, <2>1
<1>6. \A c \in Writes(changes) : fleet'[new[c]].group = c.group /\ c.group \in DOMAIN p
  <2>1. \A c : Written(c, p, fleet).group = c.group
    BY DEF Written
  <2>2. \A c \in Writes(changes) : c \in changes /\ c.action # "delete"
    BY DEF Writes
  <2>. QED
    BY <1>2, <1>4, <2>1, <2>2
<1>7. ASSUME NEW g \in DOMAIN p
      PROVE  Cardinality(Members(fleet', g)) \in p[g].min .. p[g].max
  <2>. DEFINE staying == Members(fleet, g) \ Leaving(changes)
              coming == Coming(changes, g)
              made == {new[c] : c \in coming}
  <2>1. /\ IsFiniteSet(staying) /\ IsFiniteSet(coming)
        /\ Cardinality(staying) + Cardinality(coming) \in p[g].min .. p[g].max
    BY <1>3, DiffCounts DEF changes
  <2>2. coming \subseteq Writes(changes) /\ \A c \in Writes(changes) : c.group = g => c \in coming
    BY DEF Coming, Writes
  <2>3. Members(fleet', g) = staying \cup made
    <3>1. ASSUME NEW m \in Members(fleet', g) PROVE m \in staying \cup made
      <4>1. CASE m \in NewIds(new)
        BY <1>2, <1>6, <2>2, <3>1, <4>1 DEF Members
      <4>2. CASE m \in DOMAIN fleet \ Leaving(changes)
        BY <1>5, <3>1, <4>2 DEF Members
      <4>. QED
        BY <1>2, <3>1, <4>1, <4>2 DEF Members
    <3>2. ASSUME NEW m \in staying PROVE m \in Members(fleet', g)
      BY <1>2, <1>5, <3>2 DEF Members
    <3>3. ASSUME NEW c \in coming PROVE new[c] \in Members(fleet', g)
      <4>1. c \in Writes(changes) /\ c.group = g
        BY <2>2, <3>3 DEF Coming
      <4>. QED
        BY <1>2, <1>6, <4>1 DEF Members
    <3>. QED
      BY <3>1, <3>2, <3>3
  <2>4. staying \cap made = {}
    BY <1>2, <2>2 DEF Members
  <2>5. IsFiniteSet(made) /\ Cardinality(made) = Cardinality(coming)
    <3>. DEFINE f == [c \in coming |-> new[c]]
    <3>1. f \in Surjection(coming, made)
      BY DEF Surjection
    <3>2. \A c, d \in coming : f[c] = f[d] => c = d
      BY <2>2 DEF Assignments
    <3>3. f \in Bijection(coming, made)
      BY <3>1, <3>2 DEF Surjection, Injection, IsInjective, Bijection
    <3>4. ExistsBijection(coming, made)
      BY <3>3 DEF ExistsBijection
    <3>. HIDE DEF coming, made
    <3>. QED
      BY <2>1, <3>4, FS_Bijection
  <2>6. Cardinality(staying \cap made) = 0
    BY <2>4, FS_EmptySet
  <2>7. Cardinality(staying) \in Nat /\ Cardinality(coming) \in Nat
    BY <2>1, FS_CardinalityType
  <2>. HIDE DEF staying, made, coming
  <2>8. Cardinality(staying \cup made)
            = Cardinality(staying) + Cardinality(made) - Cardinality(staying \cap made)
    BY <2>1, <2>5, FS_Union
  <2>9. Cardinality(Members(fleet', g)) = Cardinality(staying) + Cardinality(coming)
    BY <2>3, <2>5, <2>6, <2>7, <2>8
  <2>. QED
    BY <2>1, <2>9
<1>8. ASSUME NEW m \in DOMAIN fleet' PROVE fleet'[m].group \in DOMAIN p \cup {NoGroup}
  <2>1. CASE m \in NewIds(new)
    BY <1>2, <1>6, <2>1
  <2>2. CASE m \in DOMAIN fleet \ Leaving(changes)
    <3>. SUFFICES ASSUME fleet[m].group # NoGroup PROVE fleet[m].group \in DOMAIN p
      BY <1>5, <2>2
    <3>1. PICK c \in changes : c.action # "create" /\ c.id = m
      BY <1>3, <2>2, DiffCovers DEF changes
    <3>2. c.action # "delete"
      BY <2>2, <3>1 DEF Leaving
    <3>. QED
      BY <1>4, <3>1, <3>2
  <2>. QED
    BY <1>2, <1>8, <2>1, <2>2
<1>9. ASSUME RegionsKnown', NEW m \in DOMAIN fleet', fleet'[m].group \in DOMAIN p
      PROVE  UpToDate(fleet'[m], p[fleet'[m].group])
  <2>. DEFINE spec == p[fleet'[m].group]
  <2>1. fleet'[m].region # NoRegion
    BY <1>9 DEF RegionsKnown
  <2>2. CASE m \in NewIds(new)
    <3>1. PICK c \in Writes(changes) : new[c] = m /\ fleet'[m] = Written(c, p, fleet)
      BY <1>2, <2>2
    <3>2. c.action # "update"
      BY <3>1 DEF Writes
    <3>3. fleet'[m].hash = spec.hash /\ fleet'[m].region = spec.region
      BY <3>1, <3>2 DEF Written
    <3>. QED
      BY <2>1, <3>3 DEF UpToDate
  <2>3. ASSUME NEW c \in changes, c.id = m, c.action = "update", fleet'[m] = Written(c, p, fleet)
        PROVE  UpToDate(fleet'[m], spec)
    <3>1. KeepAction(fleet[m], p[c.group]) = "update"
      BY <1>4, <2>3
    <3>2. fleet'[m].group = c.group /\ fleet'[m].hash = p[c.group].hash
          /\ fleet'[m].region = fleet[m].region
      BY <2>3 DEF Written
    <3>3. fleet[m].region = p[c.group].region
      BY <2>1, <3>1, <3>2 DEF KeepAction, RequiresReplacement
    <3>. QED
      BY <2>1, <3>2, <3>3 DEF UpToDate
  <2>4. ASSUME m \in DOMAIN fleet \ Leaving(changes), fleet'[m] = fleet[m],
               \A c \in changes : c.id = m => c.action # "update"
        PROVE  UpToDate(fleet'[m], spec)
    <3>1. fleet[m].group # NoGroup
      BY <1>3, <1>9, <2>4, NoGroupAssumption
    <3>2. PICK c \in changes : c.action # "create" /\ c.id = m
      BY <1>3, <2>4, <3>1, DiffCovers DEF changes
    <3>3. c.action = "noop"
      <4>1. c.action \in Actions
        BY <3>2, DiffShape DEF changes
      <4>2. c.action \notin {"delete", "replace", "update"}
        BY <2>4, <3>2 DEF Leaving
      <4>. QED
        BY <3>2, <4>1, <4>2 DEF Actions
    <3>4. KeepAction(fleet[m], p[c.group]) = "noop" /\ c.group = fleet[m].group
      BY <1>4, <3>2, <3>3
    <3>. QED
      BY <2>4, <3>4 DEF KeepAction
  <2>. QED
    BY <1>2, <1>9, <2>2, <2>3, <2>4
<1>. QED
  BY <1>7, <1>8, <1>9 DEF InBounds, AsDesired

ExecutedInv == desired # <<>> => desired \in Plans /\ InBounds(desired) /\ AsDesired(desired)

LEMMA ExecutedInvariant == Spec => [](FleetInSlots /\ ExecutedInv)
<1>1. Init => ExecutedInv
  BY DEF Init, ExecutedInv
<1>2. FleetInSlots /\ ExecutedInv /\ [Next]_vars => ExecutedInv'
  <2>. SUFFICES ASSUME FleetInSlots, ExecutedInv, [Next]_vars PROVE ExecutedInv'
    OBVIOUS
  <2>1. CASE UNCHANGED vars
    BY <2>1 DEF vars, ExecutedInv, InBounds, AsDesired, RegionsKnown
  <2>2. ASSUME NEW p \in Plans, Execute(p) PROVE ExecutedInv'
    <3>1. desired' = p
      BY <2>2 DEF Execute
    <3>2. InBounds(p)' /\ AsDesired(p)'
      BY <2>2, ExecutedBounds
    <3>. QED
      BY <3>1, <3>2 DEF ExecutedInv, InBounds, AsDesired
  <2>. QED
    BY <2>1, <2>2 DEF Next
<1>. QED
  BY <1>1, <1>2, FleetInSlotsInvariant, PTL DEF Spec

(***************************************************************************)
(* A plan once executed leaves every group between its min and max and no  *)
(* managed machine outside the plan, whatever the fleet was before.        *)
(***************************************************************************)
THEOREM ExecutionMeetsBounds == Spec => []ExecutedIsInBounds
<1>1. ExecutedInv => ExecutedIsInBounds
  BY DEF ExecutedInv, InBounds, ExecutedIsInBounds
<1>. QED
  BY <1>1, ExecutedInvariant, PTL

(***************************************************************************)
(* A plan once executed has nothing left to do: apply is idempotent, for   *)
(* every plan and every fleet whose regions Fly reports.                   *)
(***************************************************************************)
THEOREM ExecutionIsIdempotent == Spec => []ExecutedIsInSync
<1>1. FleetInSlots /\ ExecutedInv => ExecutedIsInSync
  <2>. SUFFICES ASSUME FleetInSlots, ExecutedInv, desired # <<>>, RegionsKnown
                PROVE  InSync(desired, fleet)
    BY DEF ExecutedIsInSync
  <2>1. /\ IsFiniteSet(DOMAIN fleet) /\ DOMAIN fleet \subseteq Int /\ Sized(desired)
        /\ \A g \in DOMAIN desired : desired[g].min \in Int
    BY PlannerAssumption, FS_Subset DEF FleetInSlots, Sized, ExecutedInv
  <2>. QED
    BY <2>1, NothingToDo DEF ExecutedInv, InBounds, AsDesired
<1>. QED
  BY <1>1, ExecutedInvariant, PTL

\* What an executed plan leaves is a fleet again, whatever the fleet was before and
\* whichever ids Fly hands out.
THEOREM PlannerTypes == Spec => []TypeOK
<1>1. Init => TypeOK
  BY PlannerAssumption DEF Init, TypeOK
<1>2. TypeOK /\ [Next]_vars => TypeOK'
  <2>. SUFFICES ASSUME TypeOK, NEW p \in Plans, Execute(p)
                PROVE  TypeOK'
    BY DEF Next, vars, TypeOK
  <2>. DEFINE changes == Diff(p, fleet)
              Fits(machine) == machine.hash \in Hashes /\ machine.region \in Regions \cup {NoRegion}
  <2>1. PICK new \in Assignments(changes, fleet) : fleet' = Executed(changes, new, p, fleet)
    BY DEF Execute
  <2>2. CarriedOut(p, new, fleet') /\ IsFiniteSet(DOMAIN fleet) /\ Sized(p)
    BY <2>1, ExecutedMachines, PlannerAssumption, FS_Subset DEF TypeOK, FleetInSlots, Sized
  <2>3. /\ \A c \in changes : c.action # "delete" => c.group \in DOMAIN p
        /\ \A c \in changes : c.action # "create" => c.id \in DOMAIN fleet
    BY <2>2, DiffShape, DiffIsManaged DEF Sized
  <2>. HIDE DEF changes
  <2>4. ASSUME NEW c \in changes, c.action \in {"create", "replace", "update"}
        PROVE  Fits(Written(c, p, fleet))
    <3>1. p[c.group].hash \in Hashes /\ p[c.group].region \in Regions
      BY <2>3, <2>4, PlannerAssumption
    <3>2. c.action = "update" => fleet[c.id].region \in Regions \cup {NoRegion}
      BY <2>3 DEF TypeOK
    <3>. QED
      BY <3>1, <3>2 DEF Written
  <2>5. /\ DOMAIN fleet' \subseteq Slots
        /\ \A m \in DOMAIN fleet' :
            \/ m \in DOMAIN fleet /\ fleet'[m] = fleet[m]
            \/ \E c \in changes :
                c.action \in {"create", "replace", "update"} /\ fleet'[m] = Written(c, p, fleet)
    BY <2>2 DEF CarriedOut, TypeOK, Writes, changes
  <2>6. \A m \in DOMAIN fleet' : Fits(fleet'[m])
    BY <2>4, <2>5 DEF TypeOK
  <2>7. desired' = p
    BY DEF Execute
  <2>. QED
    BY <2>5, <2>6, <2>7 DEF TypeOK
<1>. QED
  BY <1>1, <1>2, PTL DEF Spec
=============================================================================
