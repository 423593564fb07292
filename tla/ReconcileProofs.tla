-------------------------- MODULE ReconcileProofs --------------------------
(***************************************************************************)
(* Theorems about Apply for any number of runners, plans, machines, failed *)
(* calls and crashes; OnlyReleaseMachinesWedge, ApplyIsIdempotent and      *)
(* CapacityIsThereFirst are for one operator at a time.                    *)
(***************************************************************************)
EXTENDS Reconcile, PlannerProofs

(***************************************************************************)
(* The inductive invariant, in four parts.                                 *)
(***************************************************************************)
\* A change still to be executed belongs to a group of the plan.
TodoOK == \A r \in Runners : \A c \in todo[r] : c.group \in DOMAIN plan[r].groups

TypeInv == TypeOK /\ TodoOK

LEMMA DiffTyped ==
    ASSUME FleetOK, NEW p \in Plans
    PROVE  /\ Diff(p.groups, fleet) \subseteq Change
           /\ \A c \in Diff(p.groups, fleet) :
                c.action # "delete" => c.group \in DOMAIN p.groups
<1>1. DOMAIN p.groups \subseteq GroupNames /\ GroupNames \subseteq Int
  BY ConstantsAssumption DEF Valid
<1>2. ASSUME NEW c \in Diff(p.groups, fleet)
      PROVE  c \in Change /\ (c.action # "delete" => c.group \in DOMAIN p.groups)
  <2>1. /\ c = [action |-> c.action, group |-> c.group, id |-> c.id]
        /\ c.action \in Actions
        /\ c.action # "delete" => c.group \in DOMAIN p.groups
        /\ c.action = "create" => c.id \in Int
    BY <1>2, DiffShape
  <2>2. c.action # "create" =>
            /\ c.id \in DOMAIN fleet
            /\ fleet[c.id].group = c.group
            /\ c.group # NoGroup
    BY <1>1, <1>2, DiffIsManaged
  <2>3. c.group \in GroupNames
    BY <1>1, <2>1, <2>2 DEF FleetOK, Machine
  <2>4. c.id \in Int
    BY <2>1, <2>2, ConstantsAssumption DEF FleetOK
  <2>. QED
    BY <2>1, <2>3, <2>4 DEF Change
<1>. QED
  BY <1>2

(***************************************************************************)
(* What a call does to the fleet keeps it well-formed.                     *)
(***************************************************************************)
LEMMA OfferedAreNew ==
    ASSUME FleetOK
    PROVE  Offered(used) \subseteq MachineIds \ used
  BY ConstantsAssumption DEF FleetOK

LEMMA HandTyped ==
    ASSUME FleetOK, NEW id \in Offered(used), NEW machine \in Machine, Hand(id, machine)
    PROVE  FleetOK' /\ id \in MachineIds \ used
<1>1. id \in MachineIds \ used
  BY OfferedAreNew
<1>2. /\ DOMAIN fleet' = DOMAIN fleet \cup {id}
      /\ \A x \in DOMAIN fleet' : fleet'[x] = IF x = id THEN machine ELSE fleet[x]
      /\ used' = used \cup {id}
  BY DEF Hand, Put
<1>. QED
  BY <1>1, <1>2 DEF FleetOK

LEMMA RemoveTyped ==
    ASSUME FleetOK, NEW id, Remove(id)
    PROVE  FleetOK'
  BY DEF FleetOK, Remove, Drop

LEMMA MachinesTyped ==
    ASSUME NEW p \in Plans, NEW g \in DOMAIN p.groups
    PROVE  /\ ReleaseMachine(p, g) \in Machine
           /\ \A c : c.group = g => GroupMachine(p, c) \in Machine
           /\ \A c : \A machine \in Machine : c.group = g => Updated(machine, p, c) \in Machine
<1>1. /\ g \in GroupNames
      /\ p.groups[g] \in GroupSpec
      /\ ReleaseGroup \in GroupNames
  BY ConstantsAssumption DEF Valid
<1>2. p.groups[g].hash \in Hashes /\ p.groups[g].region \in Regions
  BY <1>1 DEF GroupSpec
<1>3. ReleaseMachine(p, g) \in Machine
  BY <1>1, <1>2 DEF ReleaseMachine, NewMachine, Machine, Health
<1>4. ASSUME NEW c, c.group = g PROVE GroupMachine(p, c) \in Machine
  BY <1>1, <1>2, <1>4 DEF GroupMachine, NewMachine, Machine, Health
<1>5. ASSUME NEW c, NEW machine \in Machine, c.group = g PROVE Updated(machine, p, c) \in Machine
  BY <1>1, <1>2, <1>5 DEF Updated, Machine, Health
<1>. QED
  BY <1>3, <1>4, <1>5

LEMMA SpendTyped ==
    ASSUME BudgetOK, NEW what \in {"applies", "faults", "crashes", "vanished"}, Spend(what)
    PROVE  BudgetOK'
  BY DEF BudgetOK, Spend

(***************************************************************************)
(* Every step of the program and of the world keeps the fleet well-formed. *)
(***************************************************************************)
LEMMA FleetStep ==
    ASSUME TypeInv, [Next]_vars
    PROVE  FleetOK'
<1>. USE DEF TypeInv, TypeOK
<1>1. CASE UNCHANGED vars
  BY <1>1 DEF vars, fly, FleetOK
<1>2. CASE UNCHANGED fly
  BY <1>2 DEF fly, FleetOK
<1>3. ASSUME NEW r \in Runners, ReleaseCreate(r) \/ ReleaseCreateFails(r) PROVE FleetOK'
  <2>1. pc[r] = "release"
    BY <1>3 DEF ReleaseCreate, ReleaseCreateFails
  <2>2. plan[r] \in Plans
    BY <2>1 DEF LocalsOK
  <2>3. \/ UNCHANGED fly
        \/ \E id \in Offered(used), g \in DOMAIN plan[r].groups : Hand(id, ReleaseMachine(plan[r], g))
    BY <1>3 DEF ReleaseCreate, ReleaseCreateFails
  <2>. QED
    BY <1>2, <2>2, <2>3, HandTyped, MachinesTyped
<1>4. ASSUME NEW r \in Runners, CreateMachine(r) \/ CreateFails(r) PROVE FleetOK'
  <2>1. pc[r] = "rollout"
    BY <1>4 DEF CreateMachine, CreateFails
  <2>2. plan[r] \in Plans
    BY <2>1 DEF LocalsOK
  <2>3. \/ UNCHANGED fly
        \/ \E id \in Offered(used), c \in todo[r] : Hand(id, GroupMachine(plan[r], c))
    BY <1>4 DEF CreateMachine, CreateFails
  <2>4. \A c \in todo[r] : GroupMachine(plan[r], c) \in Machine
    BY <2>2, MachinesTyped DEF TodoOK
  <2>. QED
    BY <1>2, <2>3, <2>4, HandTyped
<1>5. ASSUME NEW r \in Runners, UpdateMachine(r) \/ UpdateFails(r) PROVE FleetOK'
  <2>1. pc[r] = "update"
    BY <1>5 DEF UpdateMachine, UpdateFails
  <2>2. plan[r] \in Plans
    BY <2>1 DEF LocalsOK
  <2>3. \/ UNCHANGED fly
        \/ /\ UNCHANGED used
           /\ target[r] \in DOMAIN fleet
           /\ \E c \in todo[r] :
                fleet' = Put(fleet, target[r], Updated(fleet[target[r]], plan[r], c))
    BY <1>5 DEF UpdateMachine, UpdateFails, CanUpdate, fly
  <2>4. ASSUME NEW c \in todo[r], target[r] \in DOMAIN fleet
        PROVE  Updated(fleet[target[r]], plan[r], c) \in Machine
    BY <2>2, <2>4, MachinesTyped DEF TodoOK, FleetOK
  <2>. QED
    BY <1>2, <2>3, <2>4 DEF Put, FleetOK
<1>6. ASSUME NEW id, Remove(id) PROVE FleetOK'
  BY <1>6, RemoveTyped
<1>7. ASSUME NEW r \in Runners, Advance(r) PROVE FleetOK'
  <2>1. CASE MakePlan(r) \/ PlanFails(r) \/ ReleaseSucceeds(r) \/ ReleaseFails(r)
    BY <2>1, <1>2 DEF MakePlan, PlanFails, ReleaseSucceeds, ReleaseFails
  <2>2. CASE ReleaseCleanup(r) \/ ReleaseCleanupFails(r)
    BY <2>2, <1>2, <1>6 DEF ReleaseCleanup, ReleaseCleanupFails
  <2>3. CASE GetMachine(r) \/ GetMachineFails(r) \/ Verify(r) \/ VerifyFails(r) \/ Succeed(r)
    BY <2>3, <1>2 DEF GetMachine, GetMachineFails, Verify, VerifyFails, Succeed
  <2>4. CASE DeleteOld(r) \/ DeleteOldFails(r)
    BY <2>4, <1>2, <1>6 DEF DeleteOld, DeleteOldFails
  <2>5. CASE RollbackStep(r)
    BY <2>5, <1>2, <1>6 DEF RollbackStep, Undo, UndoFails, RolledBack
  <2>. QED
    BY <1>3, <1>4, <1>5, <1>7, <2>1, <2>2, <2>3, <2>4, <2>5
    DEF Advance, ReleaseStep, RolloutStep
<1>8. ASSUME NEW r \in Runners, Crash(r) \/ \E p \in Plans : Start(r, p) PROVE FleetOK'
  BY <1>2, <1>8 DEF Crash, Start
<1>9. ASSUME NEW id \in MachineIds, Settle(id) PROVE FleetOK'
  BY <1>9 DEF Settle, FleetOK, Machine, Health
<1>10. ASSUME NEW id \in MachineIds, Vanish(id) PROVE FleetOK'
  BY <1>6, <1>10 DEF Vanish
<1>. QED
  BY <1>1, <1>7, <1>8, <1>9, <1>10 DEF Next

(***************************************************************************)
(* Every step keeps the local variables of every invocation well-formed.   *)
(***************************************************************************)
LEMMA LocalStep ==
    ASSUME TypeInv, [Next]_vars
    PROVE  LocalsOK' /\ TodoOK' /\ HistoryOK' /\ BudgetOK'
<1>. USE DEF TypeInv, TypeOK
<1>. DEFINE Goal == LocalsOK' /\ TodoOK' /\ HistoryOK' /\ BudgetOK'
<1>. USE DEF LocalsOK, TodoOK, HistoryOK, Goto, RollBack, Phases, Idle
<1>1. CASE UNCHANGED <<locals, history, budget>>
  BY <1>1 DEF locals, history, BudgetOK
<1>2. ASSUME NEW r \in Runners, MakePlan(r) PROVE Goal
  <2>1. plan[r] \in Plans
    BY <1>2 DEF MakePlan
  <2>2. /\ Diff(plan[r].groups, fleet) \subseteq Change
        /\ \A c \in Diff(plan[r].groups, fleet) :
            c.action # "delete" => c.group \in DOMAIN plan[r].groups
    BY <2>1, DiffTyped
  <2>3. DOMAIN plan[r].groups \subseteq GroupNames
    BY <2>1, ConstantsAssumption DEF Valid
  <2>4. LocalsOK' /\ TodoOK'
    BY <1>2, <2>1, <2>2 DEF MakePlan
  <2>5. HistoryOK' /\ BudgetOK'
    BY <1>2, <2>3 DEF MakePlan, BudgetOK
  <2>. QED
    BY <2>4, <2>5
<1>3. ASSUME NEW r \in Runners, PlanFails(r) PROVE Goal
  BY <1>3, SpendTyped DEF PlanFails, history, BudgetOK
<1>4. ASSUME NEW r \in Runners, ReleaseCreate(r) PROVE Goal
  BY <1>4, OfferedAreNew DEF ReleaseCreate, history, BudgetOK
<1>5. ASSUME NEW r \in Runners, ReleaseCreateFails(r) PROVE Goal
  BY <1>5, SpendTyped DEF ReleaseCreateFails, history, BudgetOK
<1>6. ASSUME NEW r \in Runners, ReleaseSucceeds(r) PROVE Goal
  BY <1>6, SpendTyped DEF ReleaseSucceeds, history, BudgetOK
<1>7. ASSUME NEW r \in Runners, ReleaseFails(r) PROVE Goal
  BY <1>7, SpendTyped DEF ReleaseFails, history, BudgetOK
<1>8. ASSUME NEW r \in Runners, ReleaseCleanup(r) PROVE Goal
  BY <1>8, SpendTyped DEF ReleaseCleanup, history, BudgetOK
<1>9. ASSUME NEW r \in Runners, ReleaseCleanupFails(r) PROVE Goal
  BY <1>9, SpendTyped DEF ReleaseCleanupFails, history, BudgetOK
<1>10. ASSUME NEW r \in Runners, CreateMachine(r) PROVE Goal
  BY <1>10, OfferedAreNew DEF CreateMachine, history, BudgetOK
<1>11. ASSUME NEW r \in Runners, CreateFails(r) PROVE Goal
  BY <1>11, SpendTyped DEF CreateFails, history, BudgetOK
<1>12. ASSUME NEW r \in Runners, GetMachine(r) PROVE Goal
  BY <1>12 DEF GetMachine, history, BudgetOK, FleetOK, Machine
<1>13. ASSUME NEW r \in Runners, GetMachineFails(r) PROVE Goal
  BY <1>13, SpendTyped DEF GetMachineFails, history, BudgetOK
<1>14. ASSUME NEW r \in Runners, UpdateMachine(r) PROVE Goal
  <2>1. target[r] \in MachineIds
    BY <1>14 DEF UpdateMachine, CanUpdate, FleetOK
  <2>. QED
    BY <1>14, <2>1 DEF UpdateMachine, BudgetOK
<1>15. ASSUME NEW r \in Runners, UpdateFails(r) PROVE Goal
  BY <1>15, SpendTyped DEF UpdateFails, history, BudgetOK
<1>16. ASSUME NEW r \in Runners, Verify(r) PROVE Goal
  <2>1. target[r] \in MachineIds
    BY <1>16 DEF Verify, Passing, FleetOK
  <2>. QED
    BY <1>16, <2>1 DEF Verify, BudgetOK
<1>17. ASSUME NEW r \in Runners, VerifyFails(r) PROVE Goal
  BY <1>17, SpendTyped DEF VerifyFails, history, BudgetOK
<1>18. ASSUME NEW r \in Runners, DeleteOld(r) PROVE Goal
  BY <1>18, SpendTyped DEF DeleteOld, history, BudgetOK
<1>19. ASSUME NEW r \in Runners, DeleteOldFails(r) PROVE Goal
  BY <1>19, SpendTyped DEF DeleteOldFails, history, BudgetOK
<1>20. ASSUME NEW r \in Runners, Succeed(r) PROVE Goal
  BY <1>20, SpendTyped DEF Succeed, history, BudgetOK
<1>21. ASSUME NEW r \in Runners, Undo(r) PROVE Goal
  BY <1>21, SpendTyped DEF Undo, history, BudgetOK
<1>22. ASSUME NEW r \in Runners, UndoFails(r) PROVE Goal
  BY <1>22, SpendTyped DEF UndoFails, history, BudgetOK
<1>23. ASSUME NEW r \in Runners, RolledBack(r) PROVE Goal
  BY <1>23, SpendTyped DEF RolledBack, history, BudgetOK
<1>24. ASSUME NEW r \in Runners, Crash(r) PROVE Goal
  BY <1>24, SpendTyped DEF Crash, history, BudgetOK
<1>25. ASSUME NEW r \in Runners, NEW p \in Plans, Start(r, p) PROVE Goal
  BY <1>25, SpendTyped DEF Start, BudgetOK
<1>26. ASSUME NEW id \in MachineIds, Settle(id) \/ Vanish(id) PROVE Goal
  BY <1>26, SpendTyped DEF Settle, Vanish, locals, history, BudgetOK
<1>27. ASSUME NEW r \in Runners, Advance(r) PROVE Goal
  BY <1>27, <1>2, <1>3, <1>4, <1>5, <1>6, <1>7, <1>8, <1>9, <1>10, <1>11, <1>12, <1>13,
     <1>14, <1>15, <1>16, <1>17, <1>18, <1>19, <1>20, <1>21, <1>22, <1>23
  DEF Advance, ReleaseStep, RolloutStep, RollbackStep
<1>. QED
  BY <1>1, <1>24, <1>25, <1>26, <1>27 DEF Next, vars

LEMMA TypeStep ==
    ASSUME TypeInv, [Next]_vars
    PROVE  TypeInv'
  BY FleetStep, LocalStep DEF TypeInv, TypeOK

LEMMA TypeInit == Init => TypeInv
  BY ConstantsAssumption
  DEF Init, TypeInv, TypeOK, FleetOK, LocalsOK, HistoryOK, BudgetOK, TodoOK, Phases, Idle

(***************************************************************************)
(* Every variable keeps its type in every execution.                       *)
(***************************************************************************)
THEOREM TypeCorrect == Spec => []TypeOK
<1>1. TypeInv /\ [Next]_vars => TypeInv'
  BY TypeStep
<1>2. TypeInv => TypeOK
  BY DEF TypeInv
<1>. QED
  BY <1>1, <1>2, TypeInit, PTL DEF Spec

-----------------------------------------------------------------------------
(***************************************************************************)
(* The ids an invocation may still act on: those of its changes, those it  *)
(* created, and the machine it is busy with.  They were read or handed out *)
(* some calls ago, so such a machine may be gone by now; but while it is   *)
(* there it carries the group key, and its id is never given away again.   *)
(***************************************************************************)
Busy == {"releaseExit", "releaseCleanup", "releaseAbort", "update", "wait"}

Handle(r, id) ==
    \/ \E c \in todo[r] : c.action # "create" /\ c.id = id
    \/ \E c \in deferred[r] : c.id = id
    \/ id \in created[r] \/ id \in undo[r]
    \/ pc[r] \in Busy /\ id = target[r]

ManagedOrGone(id) ==
    id \in used /\ (id \in DOMAIN fleet => fleet[id].group # NoGroup)

ManagedInv ==
    \A r \in Runners : \A id : Handle(r, id) => ManagedOrGone(id)

\* The ways in which one step may change the fleet.
AddsManaged ==
    \E id \in MachineIds \ used, machine \in Machine :
        machine.group # NoGroup /\ Hand(id, machine)

RewritesManaged ==
    /\ UNCHANGED used
    /\ \E id \in DOMAIN fleet, machine \in Machine :
        /\ fleet[id].group # NoGroup /\ machine.group # NoGroup
        /\ fleet' = Put(fleet, id, machine)

RemovesManaged == \E id \in MachineIds : ManagedOrGone(id) /\ Remove(id)

OnlySettles ==
    /\ UNCHANGED used
    /\ DOMAIN fleet' = DOMAIN fleet
    /\ \A id \in DOMAIN fleet : Identity(fleet'[id]) = Identity(fleet[id])

FleetChange ==
    \/ UNCHANGED fly \/ AddsManaged \/ RewritesManaged \/ RemovesManaged \/ OnlySettles
    \/ OutsideStep /\ \E id \in MachineIds : Remove(id)

LEMMA NamesAreGroups ==
    ASSUME NEW g \in GroupNames PROVE g # NoGroup
  BY ConstantsAssumption, NoGroupAssumption

LEMMA StepChangesFleet ==
    ASSUME TypeInv, ManagedInv, [Next]_vars
    PROVE  FleetChange
<1>. USE DEF TypeInv, TypeOK
<1>1. CASE UNCHANGED vars
  BY <1>1 DEF vars, FleetChange
<1>2. CASE UNCHANGED fly
  BY <1>2 DEF FleetChange
<1>3. ASSUME NEW r \in Runners, NEW id, Handle(r, id), Remove(id) PROVE FleetChange
  BY <1>3 DEF FleetChange, RemovesManaged, ManagedInv, ManagedOrGone, FleetOK
<1>4. ASSUME NEW r \in Runners, ReleaseCreate(r) \/ ReleaseCreateFails(r) PROVE FleetChange
  <2>1. pc[r] = "release"
    BY <1>4 DEF ReleaseCreate, ReleaseCreateFails
  <2>2. plan[r] \in Plans
    BY <2>1 DEF LocalsOK
  <2>3. \/ UNCHANGED fly
        \/ \E id \in Offered(used), g \in DOMAIN plan[r].groups : Hand(id, ReleaseMachine(plan[r], g))
    BY <1>4 DEF ReleaseCreate, ReleaseCreateFails
  <2>4. \A g : ReleaseMachine(plan[r], g).group # NoGroup
    BY NamesAreGroups, ConstantsAssumption DEF ReleaseMachine, NewMachine
  <2>5. \A g \in DOMAIN plan[r].groups : ReleaseMachine(plan[r], g) \in Machine
    BY <2>2, MachinesTyped
  <2>. QED
    BY <1>2, <2>3, <2>4, <2>5, OfferedAreNew DEF FleetChange, AddsManaged
<1>5. ASSUME NEW r \in Runners, CreateMachine(r) \/ CreateFails(r) PROVE FleetChange
  <2>1. pc[r] = "rollout"
    BY <1>5 DEF CreateMachine, CreateFails
  <2>2. plan[r] \in Plans
    BY <2>1 DEF LocalsOK
  <2>3. \/ UNCHANGED fly
        \/ \E id \in Offered(used), c \in todo[r] : Hand(id, GroupMachine(plan[r], c))
    BY <1>5 DEF CreateMachine, CreateFails
  <2>4. \A c \in todo[r] : GroupMachine(plan[r], c) \in Machine
    BY <2>2, MachinesTyped DEF TodoOK
  <2>5. \A c \in todo[r] : GroupMachine(plan[r], c).group # NoGroup
    BY NamesAreGroups DEF GroupMachine, NewMachine, LocalsOK, Change
  <2>. QED
    BY <1>2, <2>3, <2>4, <2>5, OfferedAreNew DEF FleetChange, AddsManaged
<1>6. ASSUME NEW r \in Runners, UpdateMachine(r) \/ UpdateFails(r) PROVE FleetChange
  <2>1. pc[r] = "update"
    BY <1>6 DEF UpdateMachine, UpdateFails
  <2>2. plan[r] \in Plans
    BY <2>1 DEF LocalsOK
  <2>3. \/ UNCHANGED fly
        \/ /\ UNCHANGED used
           /\ target[r] \in DOMAIN fleet
           /\ \E c \in todo[r] :
                fleet' = Put(fleet, target[r], Updated(fleet[target[r]], plan[r], c))
    BY <1>6 DEF UpdateMachine, UpdateFails, CanUpdate, fly
  <2>4. ASSUME NEW c \in todo[r], target[r] \in DOMAIN fleet
        PROVE  /\ Updated(fleet[target[r]], plan[r], c) \in Machine
               /\ Updated(fleet[target[r]], plan[r], c).group # NoGroup
    <3>1. Updated(fleet[target[r]], plan[r], c) \in Machine
      BY <2>2, <2>4, MachinesTyped DEF TodoOK, FleetOK
    <3>2. c.group # NoGroup
      BY NamesAreGroups DEF LocalsOK, Change
    <3>. QED
      BY <3>1, <3>2 DEF Updated
  <2>5. target[r] \in DOMAIN fleet => fleet[target[r]].group # NoGroup
    BY <2>1 DEF ManagedInv, Handle, Busy, ManagedOrGone
  <2>. QED
    BY <1>2, <2>3, <2>4, <2>5 DEF FleetChange, RewritesManaged
<1>7. ASSUME NEW r \in Runners, Advance(r) PROVE FleetChange
  <2>1. CASE MakePlan(r) \/ PlanFails(r) \/ ReleaseSucceeds(r) \/ ReleaseFails(r)
    BY <2>1, <1>2 DEF MakePlan, PlanFails, ReleaseSucceeds, ReleaseFails
  <2>2. CASE ReleaseCleanup(r) \/ ReleaseCleanupFails(r)
    BY <2>2, <1>2, <1>3 DEF ReleaseCleanup, ReleaseCleanupFails, Handle, Busy
  <2>3. CASE GetMachine(r) \/ GetMachineFails(r) \/ Verify(r) \/ VerifyFails(r) \/ Succeed(r)
    BY <2>3, <1>2 DEF GetMachine, GetMachineFails, Verify, VerifyFails, Succeed
  <2>4. CASE DeleteOld(r) \/ DeleteOldFails(r)
    BY <2>4, <1>2, <1>3 DEF DeleteOld, DeleteOldFails, Handle
  <2>5. CASE RollbackStep(r)
    BY <2>5, <1>2, <1>3 DEF RollbackStep, Undo, UndoFails, RolledBack, Handle
  <2>. QED
    BY <1>4, <1>5, <1>6, <1>7, <2>1, <2>2, <2>3, <2>4, <2>5
    DEF Advance, ReleaseStep, RolloutStep
<1>8. ASSUME NEW r \in Runners, Crash(r) \/ \E p \in Plans : Start(r, p) PROVE FleetChange
  BY <1>2, <1>8 DEF Crash, Start
<1>9. ASSUME NEW id \in MachineIds, Settle(id) PROVE FleetChange
  <2>1. OnlySettles
    BY <1>9 DEF Settle, OnlySettles, FleetOK, Machine, Identity
  <2>. QED
    BY <2>1 DEF FleetChange
<1>10. ASSUME NEW id \in MachineIds, Vanish(id) PROVE FleetChange
  <2>1. OutsideStep
    BY <1>10 DEF Vanish, Spend, OutsideStep, BudgetOK
  <2>. QED
    BY <1>10, <2>1 DEF Vanish, FleetChange
<1>. QED
  BY <1>1, <1>7, <1>8, <1>9, <1>10 DEF Next

LEMMA ManagedStaysManaged ==
    ASSUME TypeInv, FleetChange, NEW id, ManagedOrGone(id)
    PROVE  ManagedOrGone(id)'
  BY DEF TypeInv, TypeOK, FleetOK, FleetChange, AddsManaged, RewritesManaged, RemovesManaged, OnlySettles,
         ManagedOrGone, Hand, Put, Remove, Drop, Identity, fly

(***************************************************************************)
(* An invocation gets hold of a new id only by reading a managed machine   *)
(* or by creating one.                                                     *)
(***************************************************************************)
LEMMA HandlesAreManaged ==
    ASSUME TypeInv, ManagedInv, NEW r \in Runners, NEW id, [Next]_vars, Handle(r, id)'
    PROVE  ManagedOrGone(id) \/ ManagedOrGone(id)'
<1>. USE DEF TypeInv, TypeOK, LocalsOK, Busy, Goto, RollBack
<1>. DEFINE Goal == ManagedOrGone(id) \/ ManagedOrGone(id)'
<1>0. CASE Handle(r, id)
  BY <1>0 DEF ManagedInv
<1>1. CASE UNCHANGED <<pc, todo, deferred, created, undo, target>>
  BY <1>0, <1>1 DEF Handle
<1>2. ASSUME NEW s \in Runners, MakePlan(s) PROVE Goal
  <2>1. \A c \in Diff(plan[s].groups, fleet) : c.action # "create" => ManagedOrGone(c.id)
    <3>1. DOMAIN plan[s].groups \subseteq Int
      BY <1>2, ConstantsAssumption DEF MakePlan, Valid
    <3>. QED
      BY <3>1, DiffIsManaged DEF ManagedOrGone, FleetOK
  <2>2. \A c \in deferred'[s] : c \in Diff(plan[s].groups, fleet) /\ c.action = "delete"
    BY <1>2 DEF MakePlan
  <2>3. \A c \in todo'[s] : c \in Diff(plan[s].groups, fleet)
    BY <1>2 DEF MakePlan
  <2>4. CASE r # s
    BY <1>0, <1>2, <2>4 DEF MakePlan, Handle
  <2>5. CASE r = s
    <3>1. pc'[r] \notin Busy
      BY <1>2, <2>5 DEF MakePlan
    <3>2. created'[r] = created[r] /\ undo'[r] = undo[r]
      BY <1>2 DEF MakePlan
    <3>. QED
      BY <1>0, <2>1, <2>2, <2>3, <2>5, <3>1, <3>2 DEF Handle
  <2>. QED
    BY <2>4, <2>5
<1>3. ASSUME NEW s \in Runners, ReleaseCreate(s) PROVE Goal
  <2>1. PICK new \in Offered(used), g \in DOMAIN plan[s].groups :
            Hand(new, ReleaseMachine(plan[s], g)) /\ target' = [target EXCEPT ![s] = new]
    BY <1>3 DEF ReleaseCreate
  <2>2. ManagedOrGone(new)'
    BY <2>1, NamesAreGroups, ConstantsAssumption
    DEF Hand, Put, ManagedOrGone, ReleaseMachine, NewMachine
  <2>. QED
    BY <1>0, <1>3, <2>1, <2>2 DEF ReleaseCreate, Handle
<1>4. ASSUME NEW s \in Runners, CreateMachine(s) PROVE Goal
  <2>1. PICK new \in Offered(used), c \in todo[s] :
            /\ Hand(new, GroupMachine(plan[s], c)) /\ target' = [target EXCEPT ![s] = new]
            /\ created' = [created EXCEPT ![s] = @ \cup {new}]
    BY <1>4 DEF CreateMachine
  <2>2. c.group # NoGroup
    BY NamesAreGroups DEF Change
  <2>3. ManagedOrGone(new)'
    BY <2>1, <2>2 DEF Hand, Put, ManagedOrGone, GroupMachine, NewMachine
  <2>. QED
    BY <1>0, <1>4, <2>1, <2>3 DEF CreateMachine, Handle
<1>5. ASSUME NEW s \in Runners, GetMachine(s) PROVE Goal
  <2>1. PICK c \in todo[s] : c.action = "update" /\ target' = [target EXCEPT ![s] = c.id]
    BY <1>5 DEF GetMachine
  <2>2. Handle(s, c.id)
    BY <2>1 DEF Handle
  <2>. QED
    BY <1>0, <1>5, <2>1, <2>2 DEF GetMachine, Handle, ManagedInv
<1>6. ASSUME NEW s \in Runners, Verify(s) PROVE Goal
  <2>1. PICK c \in todo[s] :
            /\ todo' = [todo EXCEPT ![s] = @ \ {c}]
            /\ deferred' = [deferred EXCEPT ![s] = IF c.action = "replace" THEN @ \cup {c} ELSE @]
    BY <1>6 DEF Verify
  <2>. QED
    BY <1>0, <1>6, <2>1 DEF Verify, Handle
<1>7. ASSUME NEW s \in Runners,
             \/ CreateFails(s) \/ GetMachineFails(s) \/ UpdateFails(s)
             \/ VerifyFails(s) \/ DeleteOldFails(s)
      PROVE  Goal
  <2>1. /\ UNCHANGED <<todo, deferred, created, target>>
        /\ pc' = [pc EXCEPT ![s] = "rollback"]
        /\ undo' = [undo EXCEPT ![s] = created[s]]
    BY <1>7 DEF CreateFails, GetMachineFails, UpdateFails, VerifyFails, DeleteOldFails
  <2>. QED
    BY <1>0, <2>1 DEF Handle
<1>8. ASSUME NEW s \in Runners, UpdateMachine(s) PROVE Goal
  BY <1>0, <1>8 DEF UpdateMachine, Handle
<1>9. ASSUME NEW s \in Runners,
             \/ PlanFails(s) \/ ReleaseCreateFails(s)
             \/ Succeed(s) \/ RolledBack(s) \/ Crash(s)
      PROVE  Goal
  <2>1. /\ UNCHANGED <<todo, deferred, created, undo, target>>
        /\ \E phase \in Idle : pc' = [pc EXCEPT ![s] = phase]
    BY <1>9 DEF PlanFails, ReleaseCreateFails, Succeed, RolledBack, Crash, Idle
  <2>. QED
    BY <1>0, <2>1 DEF Handle, Idle
<1>10. ASSUME NEW s \in Runners,
             ReleaseSucceeds(s) \/ ReleaseFails(s) \/ ReleaseCleanup(s) \/ ReleaseCleanupFails(s)
      PROVE  Goal
  <2>1. /\ UNCHANGED <<todo, deferred, created, undo, target>>
        /\ pc[s] \in Busy
        /\ \E phase \in Phases : pc' = [pc EXCEPT ![s] = phase]
    BY <1>10 DEF ReleaseSucceeds, ReleaseFails, ReleaseCleanup, ReleaseCleanupFails, Phases, Idle
  <2>. QED
    BY <1>0, <2>1 DEF Handle
<1>11. ASSUME NEW s \in Runners, DeleteOld(s) \/ Undo(s) \/ UndoFails(s) PROVE Goal
  BY <1>0, <1>11 DEF DeleteOld, Undo, UndoFails, Handle
<1>12. ASSUME NEW s \in Runners, NEW p \in Plans, Start(s, p) PROVE Goal
  BY <1>0, <1>12 DEF Start, Handle
<1>13. ASSUME NEW m \in MachineIds, Settle(m) \/ Vanish(m) PROVE Goal
  BY <1>1, <1>13 DEF Settle, Vanish, locals
<1>14. ASSUME NEW s \in Runners, Advance(s) PROVE Goal
  BY <1>2, <1>3, <1>4, <1>5, <1>6, <1>7, <1>8, <1>9, <1>10, <1>11, <1>14
  DEF Advance, ReleaseStep, RolloutStep, RollbackStep
<1>. QED
  BY <1>1, <1>9, <1>12, <1>13, <1>14 DEF Next, vars, locals

LEMMA ManagedStep ==
    ASSUME TypeInv, ManagedInv, [Next]_vars
    PROVE  ManagedInv'
<1>1. FleetChange
  BY StepChangesFleet
<1>. QED
  BY <1>1, HandlesAreManaged, ManagedStaysManaged DEF ManagedInv

LEMMA ManagedInit == Init => ManagedInv
  BY DEF Init, ManagedInv, Handle, Busy

(***************************************************************************)
(* No apply ever modifies or destroys a machine without the group key.     *)
(***************************************************************************)
THEOREM UnmanagedSafe == Spec => UnmanagedUntouched
<1>. DEFINE Untouched ==
        \A id \in DOMAIN fleet :
            fleet[id].group = NoGroup /\ ~OutsideStep =>
                id \in DOMAIN fleet' /\ Identity(fleet'[id]) = Identity(fleet[id])
<1>1. TypeInv /\ ManagedInv /\ [Next]_vars => TypeInv' /\ ManagedInv'
  BY TypeStep, ManagedStep
<1>2. Init => TypeInv /\ ManagedInv
  BY TypeInit, ManagedInit
<1>3. TypeInv /\ ManagedInv /\ [Next]_vars => [Untouched]_vars
  <2>. SUFFICES ASSUME TypeInv, ManagedInv, [Next]_vars PROVE Untouched
    OBVIOUS
  <2>1. FleetChange
    BY StepChangesFleet
  <2>. QED
    BY <2>1 DEF FleetChange, AddsManaged, RewritesManaged, RemovesManaged, OnlySettles,
        ManagedOrGone, Hand, Put, Remove, Drop, fly, TypeInv, TypeOK, FleetOK
<1>. QED
  BY <1>1, <1>2, <1>3, PTL DEF Spec, UnmanagedUntouched

-----------------------------------------------------------------------------
(***************************************************************************)
(* Where an invocation is tells what it has already made sure of: outside  *)
(* a wait, that everything it wrote was verified; during one, everything   *)
(* but the machine it waits for; before the rollout, that it has written   *)
(* nothing; and that rollback deletes nothing but its own work.            *)
(***************************************************************************)
Early == {"list", "release", "releaseExit", "releaseCleanup", "releaseAbort"}

WrittenInv ==
    \A r \in Runners :
        /\ pc[r] \in Early => written[r] = {} /\ created[r] = {}
        /\ pc[r] \in {"rollout", "update"} => written[r] \subseteq verified[r]
        /\ pc[r] = "wait" => written[r] \subseteq verified[r] \cup {target[r]}
        /\ undo[r] \subseteq created[r]

LEMMA WrittenInit == Init => WrittenInv
  BY DEF Init, WrittenInv, Early

LEMMA WrittenStep ==
    ASSUME TypeInv, WrittenInv, [Next]_vars
    PROVE  WrittenInv'
<1>. USE DEF TypeInv, TypeOK, LocalsOK, HistoryOK, WrittenInv, Early, Goto, RollBack
<1>1. CASE UNCHANGED <<locals, history>>
  BY <1>1 DEF locals, history
<1>2. ASSUME NEW r \in Runners,
             \/ MakePlan(r) \/ ReleaseCreate(r) \/ ReleaseSucceeds(r) \/ ReleaseFails(r)
             \/ ReleaseCleanup(r)
      PROVE  WrittenInv'
  <2>1. /\ UNCHANGED <<created, undo, written, verified>>
        /\ target' = [target EXCEPT ![r] = target'[r]]
        /\ pc[r] \in Early
        /\ \E phase \in Early \cup {"rollout", "failed"} : pc' = [pc EXCEPT ![r] = phase]
    BY <1>2 DEF MakePlan, ReleaseCreate, ReleaseSucceeds, ReleaseFails, ReleaseCleanup, history
  <2>. QED
    BY <2>1
<1>3. ASSUME NEW r \in Runners,
             \/ PlanFails(r) \/ ReleaseCreateFails(r) \/ ReleaseCleanupFails(r)
             \/ Succeed(r) \/ RolledBack(r) \/ Crash(r)
      PROVE  WrittenInv'
  <2>1. /\ UNCHANGED <<created, undo, written, verified, target>>
        /\ \E phase \in Idle : pc' = [pc EXCEPT ![r] = phase]
    BY <1>3 DEF PlanFails, ReleaseCreateFails, ReleaseCleanupFails, Succeed, RolledBack, Crash,
        history, Idle
  <2>. QED
    BY <2>1 DEF Idle
<1>4. ASSUME NEW r \in Runners,
             \/ CreateFails(r) \/ GetMachineFails(r) \/ UpdateFails(r)
             \/ VerifyFails(r) \/ DeleteOldFails(r)
      PROVE  WrittenInv'
  <2>1. /\ UNCHANGED <<created, written, verified, target>>
        /\ pc' = [pc EXCEPT ![r] = "rollback"]
        /\ undo' = [undo EXCEPT ![r] = created[r]]
    BY <1>4 DEF CreateFails, GetMachineFails, UpdateFails, VerifyFails, DeleteOldFails, history
  <2>. QED
    BY <2>1
<1>5. ASSUME NEW r \in Runners, CreateMachine(r) PROVE WrittenInv'
  BY <1>5 DEF CreateMachine
<1>6. ASSUME NEW r \in Runners, GetMachine(r) PROVE WrittenInv'
  BY <1>6 DEF GetMachine, history
<1>7. ASSUME NEW r \in Runners, UpdateMachine(r) PROVE WrittenInv'
  BY <1>7 DEF UpdateMachine
<1>8. ASSUME NEW r \in Runners, Verify(r) PROVE WrittenInv'
  <2>1. verified' = [verified EXCEPT ![r] = @ \cup {target[r]}]
    <3>1. {id \in {target[r]} : Passing(id)} = {target[r]}
      BY <1>8 DEF Verify
    <3>. QED
      BY <1>8, <3>1 DEF Verify
  <2>. QED
    BY <1>8, <2>1 DEF Verify
<1>9. ASSUME NEW r \in Runners, DeleteOld(r) \/ Undo(r) \/ UndoFails(r) PROVE WrittenInv'
  BY <1>9 DEF DeleteOld, Undo, UndoFails, history
<1>10. ASSUME NEW r \in Runners, NEW p \in Plans, Start(r, p) PROVE WrittenInv'
  BY <1>10 DEF Start
<1>11. ASSUME NEW m \in MachineIds, Settle(m) \/ Vanish(m) PROVE WrittenInv'
  BY <1>1, <1>11 DEF Settle, Vanish
<1>. QED
  BY <1>1, <1>2, <1>3, <1>4, <1>5, <1>6, <1>7, <1>8, <1>9, <1>10, <1>11
  DEF Next, Advance, ReleaseStep, RolloutStep, RollbackStep, vars

(***************************************************************************)
(* An invocation destroys only its release machine, what it created, and - *)
(* after all it wrote was verified - the machines it was to replace.       *)
(***************************************************************************)
THEOREM OldKept == Spec => OldKeptUntilVerified
<1>. DEFINE Destroyer(r, id) ==
        /\ Acting(r)
        /\ \/ id \in created[r]
           \/ id = target[r] /\ pc[r] \in {"releaseCleanup", "releaseAbort"}
           \/ todo[r] = {} /\ written[r] \subseteq verified[r]
<1>. DEFINE Kept1 ==
        \A id \in DOMAIN fleet \ DOMAIN fleet' :
            ~OutsideStep => \E r \in Runners : Destroyer(r, id)
<1>1. TypeInv /\ WrittenInv /\ [Next]_vars => TypeInv' /\ WrittenInv'
  BY TypeStep, WrittenStep
<1>2. Init => TypeInv /\ WrittenInv
  BY TypeInit, WrittenInit
<1>3. TypeInv /\ WrittenInv /\ [Next]_vars => [Kept1]_vars
  <2>. SUFFICES ASSUME TypeInv, WrittenInv, [Next]_vars,
                       NEW id \in DOMAIN fleet \ DOMAIN fleet', ~OutsideStep
                PROVE  \E r \in Runners : Destroyer(r, id)
    OBVIOUS
  <2>. USE DEF TypeInv, TypeOK, LocalsOK, Goto, RollBack
  <2>1. fleet' # fleet
    OBVIOUS
  <2>2. ASSUME NEW r \in Runners, DeleteOld(r) \/ DeleteOldFails(r) PROVE Destroyer(r, id)
    <3>1. todo[r] = {} /\ written[r] \subseteq verified[r]
      BY <2>2 DEF DeleteOld, DeleteOldFails, WrittenInv
    <3>2. Acting(r)
      BY <2>2 DEF DeleteOld, DeleteOldFails, Acting
    <3>. QED
      BY <3>1, <3>2
  <2>3. ASSUME NEW r \in Runners, Undo(r) \/ UndoFails(r) PROVE Destroyer(r, id)
    <3>1. PICK m \in undo[r] :
            (UNCHANGED fly \/ Remove(m)) /\ undo' = [undo EXCEPT ![r] = @ \ {m}]
      BY <2>3 DEF Undo, UndoFails
    <3>2. id = m
      BY <3>1 DEF Remove, Drop, fly
    <3>3. Acting(r)
      BY <3>1 DEF Acting
    <3>. QED
      BY <3>2, <3>3 DEF WrittenInv
  <2>4. ASSUME NEW r \in Runners, ReleaseCleanup(r) \/ ReleaseCleanupFails(r) PROVE Destroyer(r, id)
    <3>1. pc[r] \in {"releaseCleanup", "releaseAbort"} /\ (UNCHANGED fly \/ Remove(target[r]))
      BY <2>4 DEF ReleaseCleanup, ReleaseCleanupFails
    <3>2. id = target[r]
      BY <3>1 DEF Remove, Drop, fly
    <3>3. Acting(r)
      BY <2>4 DEF ReleaseCleanup, ReleaseCleanupFails, Acting
    <3>. QED
      BY <3>1, <3>2, <3>3
  <2>5. ASSUME NEW r \in Runners,
               ReleaseCreate(r) \/ ReleaseCreateFails(r) \/ CreateMachine(r) \/ CreateFails(r)
        PROVE  FALSE
    <3>1. UNCHANGED fleet \/ \E new, machine : fleet' = Put(fleet, new, machine)
      <4>1. CASE ReleaseCreate(r)
        BY <4>1 DEF ReleaseCreate, Hand
      <4>2. CASE ReleaseCreateFails(r)
        BY <4>2 DEF ReleaseCreateFails, Hand, fly
      <4>3. CASE CreateMachine(r)
        BY <4>3 DEF CreateMachine, Hand
      <4>4. CASE CreateFails(r)
        BY <4>4 DEF CreateFails, Hand, fly
      <4>. QED
        BY <2>5, <4>1, <4>2, <4>3, <4>4
    <3>. QED
      BY <3>1 DEF Put
  <2>6. ASSUME NEW r \in Runners, UpdateMachine(r) \/ UpdateFails(r) PROVE FALSE
    BY <2>6 DEF UpdateMachine, UpdateFails, Put
  <2>7. ASSUME NEW r \in Runners,
               \/ MakePlan(r) \/ PlanFails(r) \/ ReleaseSucceeds(r) \/ ReleaseFails(r)
               \/ GetMachine(r) \/ GetMachineFails(r) \/ Verify(r) \/ VerifyFails(r)
               \/ Succeed(r) \/ RolledBack(r) \/ Crash(r) \/ \E p \in Plans : Start(r, p)
        PROVE  FALSE
    BY <2>1, <2>7 DEF MakePlan, PlanFails, ReleaseSucceeds, ReleaseFails, GetMachine,
        GetMachineFails, Verify, VerifyFails, Succeed, RolledBack, Crash, Start, fly
  <2>8. ASSUME NEW m \in MachineIds, Settle(m) PROVE FALSE
    BY <2>8 DEF Settle
  <2>9. ASSUME NEW m \in MachineIds, Vanish(m) PROVE FALSE
    BY <2>9 DEF Vanish, Spend, OutsideStep, BudgetOK
  <2>10. CASE UNCHANGED vars
    BY <2>1, <2>10 DEF vars, fly
  <2>. HIDE DEF Destroyer
  <2>. QED
    BY <2>2, <2>3, <2>4, <2>5, <2>6, <2>7, <2>8, <2>9, <2>10
    DEF Next, Advance, ReleaseStep, RolloutStep, RollbackStep
<1>. QED
  BY <1>1, <1>2, <1>3, PTL DEF Spec, OldKeptUntilVerified

-----------------------------------------------------------------------------
(***************************************************************************)
(* While rollback is under way, what it created and still exists is yet to *)
(* be deleted or was reported; other runners' steps add no such machine,   *)
(* because the ids an invocation created were used before.                 *)
(***************************************************************************)
LeftInv ==
    \A r \in Runners :
        /\ pc[r] = "rollback" => created[r] \cap DOMAIN fleet \subseteq undo[r] \cup unclean[r]
        /\ pc[r] = "failed" => created[r] \cap DOMAIN fleet \subseteq unclean[r]

LEMMA NothingReturns ==
    ASSUME TypeInv, ManagedInv, FleetChange, NEW r \in Runners
    PROVE  created[r] \cap DOMAIN fleet' \subseteq created[r] \cap DOMAIN fleet
<1>1. created[r] \subseteq used
  BY DEF ManagedInv, Handle, ManagedOrGone
<1>2. ASSUME NEW id \in DOMAIN fleet' PROVE id \in DOMAIN fleet \/ id \notin used
  <2>1. CASE AddsManaged
    BY <1>2, <2>1 DEF AddsManaged, Hand, Put
  <2>2. CASE RewritesManaged
    BY <1>2, <2>2 DEF RewritesManaged, Put
  <2>3. CASE \E m \in MachineIds : Remove(m)
    BY <1>2, <2>3 DEF Remove, Drop
  <2>4. CASE UNCHANGED fly \/ OnlySettles
    BY <1>2, <2>4 DEF OnlySettles, fly
  <2>. QED
    BY <2>1, <2>2, <2>3, <2>4 DEF FleetChange, RemovesManaged
<1>. QED
  BY <1>1, <1>2

LEMMA LeftStep ==
    ASSUME TypeInv, ManagedInv, WrittenInv, LeftInv, [Next]_vars
    PROVE  LeftInv'
<1>. USE DEF TypeInv, TypeOK, LocalsOK, HistoryOK, Goto, RollBack
<1>1. \A r \in Runners : created[r] \cap DOMAIN fleet' \subseteq created[r] \cap DOMAIN fleet
  BY NothingReturns, StepChangesFleet
<1>2. CASE UNCHANGED <<pc, created, undo, unclean>>
  BY <1>1, <1>2 DEF LeftInv
\* The steps after which the invocation neither rolls back nor has failed.
<1>3. ASSUME NEW r \in Runners,
             \/ MakePlan(r) \/ ReleaseCreate(r) \/ ReleaseSucceeds(r) \/ ReleaseFails(r)
             \/ CreateMachine(r) \/ GetMachine(r) \/ UpdateMachine(r) \/ Verify(r) \/ DeleteOld(r)
             \/ Succeed(r) \/ Crash(r) \/ \E p \in Plans : Start(r, p)
      PROVE  LeftInv'
  <2>1. /\ pc'[r] \notin {"rollback", "failed"}
        /\ \A s \in Runners \ {r} :
            /\ pc'[s] = pc[s] /\ created'[s] = created[s]
            /\ undo'[s] = undo[s] /\ unclean'[s] = unclean[s]
    BY <1>3 DEF MakePlan, ReleaseCreate, ReleaseSucceeds, ReleaseFails, CreateMachine, GetMachine,
        UpdateMachine, Verify, DeleteOld, Succeed, Crash, Start, history
  <2>. QED
    BY <1>1, <2>1 DEF LeftInv
\* Before the rollout nothing has been created.
<1>4. ASSUME NEW r \in Runners,
             \/ PlanFails(r) \/ ReleaseCreateFails(r) \/ ReleaseCleanup(r) \/ ReleaseCleanupFails(r)
      PROVE  LeftInv'
  <2>1. created[r] = {} /\ UNCHANGED <<created, undo, unclean>>
    BY <1>4 DEF PlanFails, ReleaseCreateFails, ReleaseCleanup, ReleaseCleanupFails, WrittenInv,
        Early, history
  <2>2. \A s \in Runners \ {r} : pc'[s] = pc[s]
    BY <1>4 DEF PlanFails, ReleaseCreateFails, ReleaseCleanup, ReleaseCleanupFails
  <2>. QED
    BY <1>1, <2>1, <2>2 DEF LeftInv
<1>5. ASSUME NEW r \in Runners,
             \/ CreateFails(r) \/ GetMachineFails(r) \/ UpdateFails(r)
             \/ VerifyFails(r) \/ DeleteOldFails(r)
      PROVE  LeftInv'
  <2>1. /\ UNCHANGED <<created, unclean>>
        /\ pc' = [pc EXCEPT ![r] = "rollback"]
        /\ undo' = [undo EXCEPT ![r] = created[r]]
    BY <1>5 DEF CreateFails, GetMachineFails, UpdateFails, VerifyFails, DeleteOldFails, history
  <2>. QED
    BY <1>1, <2>1 DEF LeftInv
<1>6. ASSUME NEW r \in Runners, Undo(r) PROVE LeftInv'
  <2>1. PICK id \in undo[r] : Remove(id) /\ undo' = [undo EXCEPT ![r] = @ \ {id}]
    BY <1>6 DEF Undo
  <2>2. id \notin DOMAIN fleet' /\ UNCHANGED <<pc, created, unclean>> /\ pc[r] = "rollback"
    BY <1>6, <2>1 DEF Undo, Remove, Drop, history
  <2>. QED
    BY <1>1, <2>1, <2>2 DEF LeftInv
<1>7. ASSUME NEW r \in Runners, UndoFails(r) PROVE LeftInv'
  <2>1. PICK id \in undo[r] :
          /\ undo' = [undo EXCEPT ![r] = @ \ {id}]
          /\ unclean' = [unclean EXCEPT ![r] = @ \cup {id}]
    BY <1>7 DEF UndoFails
  <2>2. UNCHANGED <<pc, created>> /\ pc[r] = "rollback"
    BY <1>7 DEF UndoFails
  <2>. QED
    BY <1>1, <2>1, <2>2 DEF LeftInv
<1>8. ASSUME NEW r \in Runners, RolledBack(r) PROVE LeftInv'
  BY <1>1, <1>8 DEF RolledBack, LeftInv, history
<1>9. ASSUME NEW m \in MachineIds, Settle(m) \/ Vanish(m) PROVE LeftInv'
  BY <1>2, <1>9 DEF Settle, Vanish, locals, history
<1>. QED
  BY <1>2, <1>3, <1>4, <1>5, <1>6, <1>7, <1>8, <1>9
  DEF Next, Advance, ReleaseStep, RolloutStep, RollbackStep, vars, locals, history

(***************************************************************************)
(* An apply that fails leaves no machine of its own behind unreported.     *)
(***************************************************************************)
THEOREM LeftoversReported == Spec => []NoSilentLeftovers
<1>. DEFINE IInv == TypeInv /\ ManagedInv /\ WrittenInv /\ LeftInv
<1>1. Init => IInv
  <2>1. Init => LeftInv
    BY DEF Init, LeftInv
  <2>. QED
    BY <2>1, TypeInit, ManagedInit, WrittenInit
<1>2. IInv /\ [Next]_vars => IInv'
  BY TypeStep, ManagedStep, WrittenStep, LeftStep
<1>3. IInv => NoSilentLeftovers
  BY DEF LeftInv, NoSilentLeftovers
<1>. QED
  BY <1>1, <1>2, <1>3, PTL DEF Spec
-----------------------------------------------------------------------------
(***************************************************************************)
(* Apply implements AppContract.  The contract's view of the variables it  *)
(* speaks of, by the mapping of the module Reconcile:                      *)
(***************************************************************************)
SeenFleet ==
    [id \in DOMAIN fleet |-> [managed |-> fleet[id].group # NoGroup,
                              config |-> Identity(fleet[id])]]

PhaseOf(r) ==
    IF pc[r] \in Idle THEN "idle"
    ELSE IF pc[r] = "rollback" THEN "undoing"
    ELSE IF pc[r] = "rollout" /\ todo[r] = {} THEN "pruning"
    ELSE "writing"

OwnOf(r) == created[r] \cup OwnRelease(r)

ContractVars == Contract!vars

\* What a step of invocation r may do to the fleet the contract sees.
SeenStep(r) ==
    \/ UNCHANGED fleet /\ OwnOf(r)' \subseteq OwnOf(r)
    \/ /\ PhaseOf(r) = "writing"
       /\ \E id \in MachineIds, machine \in Machine :
            /\ machine.group # NoGroup
            /\ fleet' = Put(fleet, id, machine)
            /\ \/ id \notin DOMAIN fleet /\ OwnOf(r)' \subseteq OwnOf(r) \cup {id}
               \/ /\ id \in DOMAIN fleet /\ fleet[id].group # NoGroup
                  /\ OwnOf(r)' \subseteq OwnOf(r)
    \/ \E id \in MachineIds :
        /\ \/ PhaseOf(r) = "pruning"
           \/ PhaseOf(r) \in {"writing", "undoing"} /\ id \in OwnOf(r)
        /\ ManagedOrGone(id)
        /\ Remove(id)
        /\ OwnOf(r)' \subseteq OwnOf(r)

\* Only invocation r moved.
OthersStay(r) ==
    \A s \in Runners \ {r} : PhaseOf(s)' = PhaseOf(s) /\ OwnOf(s)' = OwnOf(s)

LEMMA SeenStepIsContractStep ==
    ASSUME TypeInv, NEW r \in Runners, SeenStep(r), OthersStay(r),
           PhaseOf(r)' \in Contract!Later[PhaseOf(r)], UNCHANGED budget.vanished
    PROVE  Contract!Step(r)
<1>. DEFINE phase == [s \in Runners |-> PhaseOf(s)]
            own == [s \in Runners |-> OwnOf(s)]
<1>1. phase' = [phase EXCEPT ![r] = phase'[r]]
  BY DEF OthersStay
<1>2. own' = [own EXCEPT ![r] = own'[r]]
  BY DEF OthersStay
<1>3. CASE UNCHANGED fleet /\ OwnOf(r)' \subseteq OwnOf(r)
  <2>1. own'[r] \subseteq own[r] /\ UNCHANGED SeenFleet
    BY <1>3 DEF SeenFleet, Identity
  <2>. QED
    BY <1>1, <1>2, <2>1 DEF Contract!Step, SeenFleet, PhaseOf, OwnOf
<1>4. ASSUME NEW id \in MachineIds, NEW machine \in Machine,
             PhaseOf(r) = "writing", machine.group # NoGroup, fleet' = Put(fleet, id, machine),
             id \notin DOMAIN fleet, OwnOf(r)' \subseteq OwnOf(r) \cup {id}
      PROVE  Contract!Step(r)
  <2>1. Contract!Add(r, id)
    BY <1>4 DEF Contract!Add, Contract!Same, Put, PhaseOf, Identity
  <2>2. own'[r] \subseteq own[r] \cup {id}
    BY <1>4
  <2>. QED
    BY <1>1, <1>2, <2>1, <2>2 DEF Contract!Step, PhaseOf, OwnOf
<1>5. ASSUME NEW id \in MachineIds, NEW machine \in Machine,
             PhaseOf(r) = "writing", machine.group # NoGroup, fleet' = Put(fleet, id, machine),
             id \in DOMAIN fleet, fleet[id].group # NoGroup, OwnOf(r)' \subseteq OwnOf(r)
      PROVE  Contract!Step(r)
  <2>1. Contract!Rewrite(r, id)
    BY <1>5 DEF Contract!Rewrite, Contract!Same, Put, PhaseOf, Identity
  <2>2. own'[r] \subseteq own[r]
    BY <1>5
  <2>. QED
    BY <1>1, <1>2, <2>1, <2>2 DEF Contract!Step, PhaseOf, OwnOf
<1>6. ASSUME NEW id \in MachineIds,
             \/ PhaseOf(r) = "pruning"
             \/ PhaseOf(r) \in {"writing", "undoing"} /\ id \in OwnOf(r),
             ManagedOrGone(id), Remove(id), OwnOf(r)' \subseteq OwnOf(r)
      PROVE  Contract!Step(r)
  <2>1. Contract!Remove(r, id)
    BY <1>6 DEF Contract!Remove, Contract!Same, Remove, Drop, ManagedOrGone, PhaseOf, OwnOf, Identity
  <2>2. own'[r] \subseteq own[r]
    BY <1>6
  <2>. QED
    BY <1>1, <1>2, <2>1, <2>2 DEF Contract!Step, PhaseOf, OwnOf
<1>. QED
  BY <1>3, <1>4, <1>5, <1>6 DEF SeenStep

(***************************************************************************)
(* Each action of an invocation is one step of the contract.               *)
(***************************************************************************)
Allowed(r) ==
    SeenStep(r) /\ OthersStay(r) /\ PhaseOf(r)' \in Contract!Later[PhaseOf(r)]

LEMMA InvocationFollowsContract ==
    ASSUME TypeInv, ManagedInv, WrittenInv, NEW r \in Runners,
           Advance(r) \/ Crash(r) \/ \E p \in Plans : Start(r, p)
    PROVE  Allowed(r)
<1>. USE DEF TypeInv, TypeOK, LocalsOK, Goto, RollBack, Idle, Phases, Allowed, OthersStay,
             PhaseOf, OwnOf, OwnRelease, Contract!Later
\* Moves that leave the fleet as it is and own no more than before.
<1>1. ASSUME NEW p \in Plans, Start(r, p) PROVE Allowed(r)
  BY <1>1 DEF Start, SeenStep, fly
<1>2. CASE MakePlan(r)
  BY <1>2 DEF MakePlan, SeenStep, fly
<1>3. CASE PlanFails(r)
  BY <1>3 DEF PlanFails, SeenStep, fly
<1>4. CASE ReleaseSucceeds(r) \/ ReleaseFails(r)
  BY <1>4 DEF ReleaseSucceeds, ReleaseFails, SeenStep, fly
<1>5. CASE GetMachine(r) \/ GetMachineFails(r)
  BY <1>5 DEF GetMachine, GetMachineFails, SeenStep, fly
<1>6. CASE Verify(r) \/ VerifyFails(r)
  BY <1>6 DEF Verify, VerifyFails, SeenStep, fly
<1>7. CASE Succeed(r) \/ RolledBack(r)
  BY <1>7 DEF Succeed, RolledBack, SeenStep, fly
<1>8. CASE Crash(r)
  BY <1>8 DEF Crash, SeenStep, fly
\* Moves that add a machine.
<1>9. ASSUME NEW id \in Offered(used), NEW machine, Hand(id, machine)
      PROVE  id \in MachineIds /\ id \notin DOMAIN fleet /\ fleet' = Put(fleet, id, machine)
  BY <1>9, OfferedAreNew DEF FleetOK, Hand
<1>10. CASE ReleaseCreate(r)
  <2>1. plan[r] \in Plans
    BY <1>10 DEF ReleaseCreate
  <2>2. PICK id \in Offered(used), g \in DOMAIN plan[r].groups :
            Hand(id, ReleaseMachine(plan[r], g)) /\ target' = [target EXCEPT ![r] = id]
    BY <1>10 DEF ReleaseCreate
  <2>3. ReleaseMachine(plan[r], g) \in Machine /\ ReleaseMachine(plan[r], g).group # NoGroup
    BY <2>1, MachinesTyped, NamesAreGroups, ConstantsAssumption DEF ReleaseMachine, NewMachine
  <2>4. OwnOf(r)' \subseteq OwnOf(r) \cup {id} /\ PhaseOf(r) = "writing"
    BY <1>10, <2>2 DEF ReleaseCreate
  <2>5. SeenStep(r)
    BY <2>2, <2>3, <2>4, <1>9 DEF SeenStep
  <2>. QED
    BY <1>10, <2>2, <2>5 DEF ReleaseCreate
<1>11. CASE ReleaseCreateFails(r)
  <2>1. plan[r] \in Plans
    BY <1>11 DEF ReleaseCreateFails
  <2>2. \/ UNCHANGED fleet
        \/ \E id \in Offered(used), g \in DOMAIN plan[r].groups :
                Hand(id, ReleaseMachine(plan[r], g))
    BY <1>11 DEF ReleaseCreateFails, fly
  <2>3. \A g \in DOMAIN plan[r].groups :
            ReleaseMachine(plan[r], g) \in Machine /\ ReleaseMachine(plan[r], g).group # NoGroup
    BY <2>1, MachinesTyped, NamesAreGroups, ConstantsAssumption DEF ReleaseMachine, NewMachine
  <2>4. OwnOf(r)' \subseteq OwnOf(r) /\ PhaseOf(r) = "writing"
    BY <1>11 DEF ReleaseCreateFails
  <2>5. SeenStep(r)
    BY <2>2, <2>3, <2>4, <1>9 DEF SeenStep
  <2>. QED
    BY <1>11, <2>5 DEF ReleaseCreateFails
<1>12. CASE CreateMachine(r)
  <2>1. plan[r] \in Plans /\ PhaseOf(r) = "writing"
    BY <1>12 DEF CreateMachine
  <2>2. PICK c \in todo[r], id \in Offered(used) :
            /\ Hand(id, GroupMachine(plan[r], c))
            /\ created' = [created EXCEPT ![r] = @ \cup {id}]
    BY <1>12 DEF CreateMachine
  <2>3. GroupMachine(plan[r], c) \in Machine /\ GroupMachine(plan[r], c).group # NoGroup
    BY <2>1, MachinesTyped, NamesAreGroups, ConstantsAssumption
    DEF GroupMachine, NewMachine, TodoOK, Valid
  <2>4. OwnOf(r)' \subseteq OwnOf(r) \cup {id}
    BY <1>12, <2>2 DEF CreateMachine
  <2>5. SeenStep(r)
    BY <2>1, <2>2, <2>3, <2>4, <1>9 DEF SeenStep
  <2>. QED
    BY <1>12, <2>1, <2>2, <2>5 DEF CreateMachine
<1>13. CASE CreateFails(r)
  <2>1. plan[r] \in Plans /\ PhaseOf(r) = "writing"
    BY <1>13 DEF CreateFails
  <2>2. \/ UNCHANGED fleet
        \/ \E c \in todo[r], id \in Offered(used) : Hand(id, GroupMachine(plan[r], c))
    BY <1>13 DEF CreateFails, fly
  <2>3. \A c \in todo[r] :
            GroupMachine(plan[r], c) \in Machine /\ GroupMachine(plan[r], c).group # NoGroup
    BY <2>1, MachinesTyped, NamesAreGroups, ConstantsAssumption
    DEF GroupMachine, NewMachine, TodoOK, Valid
  <2>4. OwnOf(r)' \subseteq OwnOf(r)
    BY <1>13 DEF CreateFails
  <2>5. SeenStep(r)
    BY <2>1, <2>2, <2>3, <2>4, <1>9 DEF SeenStep
  <2>. QED
    BY <1>13, <2>1, <2>5 DEF CreateFails
\* Moves that rewrite a machine.
<1>14. CASE UpdateMachine(r) \/ UpdateFails(r)
  <2>1. plan[r] \in Plans /\ PhaseOf(r) = "writing" /\ pc[r] = "update"
    BY <1>14 DEF UpdateMachine, UpdateFails
  <2>2. \/ UNCHANGED fleet
        \/ /\ target[r] \in DOMAIN fleet
           /\ \E c \in todo[r] :
                fleet' = Put(fleet, target[r], Updated(fleet[target[r]], plan[r], c))
    BY <1>14 DEF UpdateMachine, UpdateFails, CanUpdate
  <2>3. ASSUME NEW c \in todo[r], target[r] \in DOMAIN fleet
        PROVE  /\ Updated(fleet[target[r]], plan[r], c) \in Machine
               /\ Updated(fleet[target[r]], plan[r], c).group # NoGroup
    BY <2>1, <2>3, MachinesTyped, NamesAreGroups, ConstantsAssumption
    DEF Updated, TodoOK, FleetOK, Valid
  <2>4. target[r] \in DOMAIN fleet => fleet[target[r]].group # NoGroup /\ target[r] \in MachineIds
    BY <2>1 DEF ManagedInv, Handle, ManagedOrGone, Busy, FleetOK
  <2>5. OwnOf(r)' \subseteq OwnOf(r)
    BY <1>14 DEF UpdateMachine, UpdateFails
  <2>6. SeenStep(r)
    BY <2>1, <2>2, <2>3, <2>4, <2>5 DEF SeenStep
  <2>. QED
    BY <1>14, <2>1, <2>6 DEF UpdateMachine, UpdateFails
\* Moves that remove a machine.
<1>15. \A id : Handle(r, id) => ManagedOrGone(id) /\ id \in MachineIds
  BY DEF ManagedInv, ManagedOrGone, FleetOK
<1>16. CASE ReleaseCleanup(r) \/ ReleaseCleanupFails(r)
  <2>1. /\ PhaseOf(r) = "writing"
        /\ pc[r] \in {"releaseCleanup", "releaseAbort"}
        /\ UNCHANGED fleet \/ Remove(target[r])
    BY <1>16 DEF ReleaseCleanup, ReleaseCleanupFails, fly
  <2>2. Handle(r, target[r]) /\ target[r] \in OwnOf(r)
    BY <2>1 DEF Handle, Busy
  <2>3. OwnOf(r)' \subseteq OwnOf(r)
    BY <1>16 DEF ReleaseCleanup, ReleaseCleanupFails
  <2>4. SeenStep(r)
    BY <2>1, <2>2, <2>3, <1>15 DEF SeenStep
  <2>. QED
    BY <1>16, <2>4 DEF ReleaseCleanup, ReleaseCleanupFails
<1>17. CASE DeleteOld(r) \/ DeleteOldFails(r)
  <2>1. PhaseOf(r) = "pruning" /\ OwnOf(r)' \subseteq OwnOf(r)
    BY <1>17 DEF DeleteOld, DeleteOldFails
  <2>2. UNCHANGED fleet \/ \E c \in deferred[r] : Remove(c.id)
    BY <1>17 DEF DeleteOld, DeleteOldFails, fly
  <2>3. \A c \in deferred[r] : Handle(r, c.id)
    BY DEF Handle
  <2>4. SeenStep(r)
    BY <2>1, <2>2, <2>3, <1>15 DEF SeenStep
  <2>. QED
    BY <1>17, <2>4 DEF DeleteOld, DeleteOldFails
<1>18. CASE Undo(r) \/ UndoFails(r)
  <2>1. PhaseOf(r) = "undoing" /\ OwnOf(r)' \subseteq OwnOf(r)
    BY <1>18 DEF Undo, UndoFails
  <2>2. UNCHANGED fleet \/ \E id \in undo[r] : Remove(id)
    BY <1>18 DEF Undo, UndoFails, fly
  <2>3. \A id \in undo[r] : Handle(r, id) /\ id \in OwnOf(r)
    BY DEF Handle, WrittenInv
  <2>4. SeenStep(r)
    BY <2>1, <2>2, <2>3, <1>15 DEF SeenStep
  <2>. QED
    BY <1>18, <2>4 DEF Undo, UndoFails
<1>. QED
  BY <1>1, <1>2, <1>3, <1>4, <1>5, <1>6, <1>7, <1>8, <1>10, <1>11, <1>12, <1>13, <1>14,
     <1>16, <1>17, <1>18
  DEF Advance, ReleaseStep, RolloutStep, RollbackStep

\* What an invocation destroys is never counted among what others destroyed.
LEMMA NoneIsLost ==
    ASSUME TypeInv, NEW r \in Runners,
           Advance(r) \/ Crash(r) \/ \E p \in Plans : Start(r, p)
    PROVE  UNCHANGED budget.vanished
<1>1. BudgetOK
  BY DEF TypeInv, TypeOK
<1>2. \A what \in {"applies", "faults", "crashes"} : Spend(what) => UNCHANGED budget.vanished
  BY <1>1 DEF Spend, BudgetOK
<1>3. ASSUME NEW p \in Plans, Start(r, p) PROVE UNCHANGED budget.vanished
  BY <1>2, <1>3 DEF Start
<1>4. CASE MakePlan(r) \/ PlanFails(r) \/ ReleaseStep(r)
  BY <1>2, <1>4
  DEF MakePlan, PlanFails, ReleaseStep, ReleaseCreate, ReleaseCreateFails, ReleaseSucceeds,
      ReleaseFails, ReleaseCleanup, ReleaseCleanupFails
<1>5. CASE RolloutStep(r)
  BY <1>2, <1>5
  DEF RolloutStep, CreateMachine, CreateFails, GetMachine, GetMachineFails, UpdateMachine,
      UpdateFails, Verify, VerifyFails, DeleteOld, DeleteOldFails, Succeed
<1>6. CASE RollbackStep(r) \/ Crash(r)
  BY <1>2, <1>6 DEF RollbackStep, Undo, UndoFails, RolledBack, Crash
<1>. QED
  BY <1>3, <1>4, <1>5, <1>6 DEF Advance

LEMMA WorldFollowsContract ==
    ASSUME TypeInv, NEW id \in MachineIds, Settle(id) \/ Vanish(id)
    PROVE  Contract!Outside(id) \/ UNCHANGED ContractVars
<1>1. UNCHANGED locals
  BY DEF Settle, Vanish
<1>2. CASE Settle(id)
  <2>1. DOMAIN fleet' = DOMAIN fleet
    BY <1>2 DEF Settle
  <2>2. \A m \in DOMAIN fleet :
            fleet'[m].group = fleet[m].group /\ Identity(fleet'[m]) = Identity(fleet[m])
    BY <1>2 DEF Settle, Identity, TypeInv, TypeOK, FleetOK, Machine
  <2>3. UNCHANGED SeenFleet
    BY <2>1, <2>2 DEF SeenFleet
  <2>4. UNCHANGED budget.vanished
    BY <1>2 DEF Settle, Spend, TypeInv, TypeOK, BudgetOK
  <2>. QED
    BY <1>1, <2>3, <2>4 DEF ContractVars, Contract!vars, SeenFleet, locals, OwnRelease
<1>3. CASE Vanish(id)
  <2>1. budget.vanished' = budget.vanished + 1 /\ id \in DOMAIN fleet
    BY <1>3 DEF Vanish, Spend, TypeInv, TypeOK, BudgetOK
  <2>. QED
    BY <1>1, <1>3, <2>1
    DEF Vanish, Remove, Drop, Contract!Outside, Contract!Same, locals, OwnRelease, Identity
<1>. QED
  BY <1>2, <1>3

LEMMA ContractStep ==
    ASSUME TypeInv, ManagedInv, WrittenInv, [Next]_vars
    PROVE  [Contract!Next]_ContractVars
<1>1. CASE UNCHANGED vars
  BY <1>1 DEF vars, fly, locals, ContractVars, Contract!vars, OwnRelease, Identity
<1>2. ASSUME NEW r \in Runners, Advance(r) \/ Crash(r) \/ \E p \in Plans : Start(r, p)
      PROVE  Contract!Next
  <2>1. Contract!Step(r)
    BY <1>2, InvocationFollowsContract, NoneIsLost, SeenStepIsContractStep DEF Allowed
  <2>. QED
    BY <2>1 DEF Contract!Next
<1>3. ASSUME NEW id \in MachineIds, Settle(id) \/ Vanish(id)
      PROVE  Contract!Next \/ UNCHANGED ContractVars
  BY <1>3, WorldFollowsContract DEF Contract!Next
<1>. QED
  BY <1>1, <1>2, <1>3 DEF Next

(***************************************************************************)
(* Whatever runs against an app, its owner may rely on the contract.       *)
(***************************************************************************)
THEOREM ContractRefined == Spec => ImplementsContract
<1>. DEFINE IInv == TypeInv /\ ManagedInv /\ WrittenInv
<1>1. Init => IInv /\ Contract!Init
  <2>1. Init => Contract!Init
    BY ConstantsAssumption DEF Init, Contract!Init, OwnRelease, Idle
  <2>. QED
    BY <2>1, TypeInit, ManagedInit, WrittenInit
<1>2. IInv /\ [Next]_vars => IInv'
  BY TypeStep, ManagedStep, WrittenStep
<1>3. IInv /\ [Next]_vars => [Contract!Next]_(Contract!vars)
  BY ContractStep DEF ContractVars
<1>. QED
  BY <1>1, <1>2, <1>3, PTL DEF Spec, ImplementsContract, Contract!Spec
-----------------------------------------------------------------------------
(***************************************************************************)
(* One operator at a time.  What Apply promises about the app as a whole   *)
(* it can only promise while nobody else changes the app; failed calls,    *)
(* lost answers, kills and whatever earlier invocations left stay in.      *)
(***************************************************************************)
SoleActor == (\A r, s \in Runners : r = s) /\ MaxVanished = 0

LEMMA NothingVanishes ==
    ASSUME SoleActor, TypeInv, NEW id PROVE ~Vanish(id)
  BY ConstantsAssumption DEF SoleActor, TypeInv, TypeOK, BudgetOK, Vanish

Faulted(r) == budget.faults > mishaps[r]

\* Where an invocation has a plan it still follows.
Following == {"release", "releaseExit", "releaseCleanup", "releaseAbort",
              "rollout", "update", "wait"}

\* The machines but for the release machine the invocation is busy with.
Present(r) == DOMAIN fleet \ OwnRelease(r)

UpdateOf(r, id) == \E c \in todo[r] : First(todo[r], c) /\ c.action = "update" /\ c.id = id

(***************************************************************************)
(* Whatever the invocation is about to call Fly for is there, so a call    *)
(* that fails was made to fail.                                            *)
(***************************************************************************)
WedgeOf(r) ==
    /\ mishaps[r] <= budget.faults
    /\ pc[r] \in Following => \A c \in todo[r] : c.action # "create" => c.id \in Present(r)
    /\ pc[r] = "release" => plan[r].release
    /\ pc[r] \in {"releaseExit", "releaseCleanup", "releaseAbort", "wait"} =>
            target[r] \in DOMAIN fleet
    /\ pc[r] = "update" => CanUpdate(r) /\ UpdateOf(r, target[r])
    /\ pc[r] = "wait" /\ fleet[target[r]].health = "failing" => Faulted(r)
    /\ pc[r] \in {"releaseAbort", "rollback"} => Faulted(r)
    /\ pc[r] = "failed" => Faulted(r) \/ (plan[r].release /\ ReleaseNameTaken)

WedgeInv == \A r \in Runners : WedgeOf(r)

\* A step after which the machines that count are the same, in what the
\* planner reads of them.
Calm(r) ==
    /\ Present(r)' = Present(r)
    /\ \A m \in Present(r) :
        /\ fleet'[m].group = fleet[m].group
        /\ fleet'[m].hash = fleet[m].hash
        /\ fleet'[m].region = fleet[m].region

LEMMA SettleIsCalm ==
    ASSUME TypeInv, NEW r \in Runners, NEW id \in MachineIds, Settle(id)
    PROVE  /\ Calm(r) /\ UNCHANGED <<locals, history>>
           /\ DOMAIN fleet' = DOMAIN fleet
           /\ \A m \in DOMAIN fleet :
                /\ fleet'[m].version = fleet[m].version
                /\ fleet'[m].name = fleet[m].name
                /\ fleet'[m].region = fleet[m].region
                /\ fleet'[m].health = "failing" /\ fleet[m].health # "failing" =>
                        budget'.faults = budget.faults + 1
           /\ budget'.faults \in {budget.faults, budget.faults + 1}
<1>1. UNCHANGED <<locals, history>> /\ DOMAIN fleet' = DOMAIN fleet
  BY DEF Settle
<1>2. \A m \in DOMAIN fleet :
        /\ fleet'[m].group = fleet[m].group /\ fleet'[m].hash = fleet[m].hash
        /\ fleet'[m].region = fleet[m].region /\ fleet'[m].version = fleet[m].version
        /\ fleet'[m].name = fleet[m].name
  BY DEF Settle, TypeInv, TypeOK, FleetOK, Machine
<1>3. OwnRelease(r)' = OwnRelease(r)
  BY <1>1 DEF OwnRelease, locals
<1>4. Calm(r)
  BY <1>1, <1>2, <1>3 DEF Calm, Present
<1>5. /\ budget'.faults \in {budget.faults, budget.faults + 1}
      /\ \A m \in DOMAIN fleet : fleet'[m].health = "failing" /\ fleet[m].health # "failing" =>
            budget'.faults = budget.faults + 1
  <2>1. CASE fleet' = [fleet EXCEPT ![id].health = "passing"] /\ UNCHANGED budget
    BY <2>1 DEF TypeInv, TypeOK, FleetOK, Machine
  <2>2. CASE Spend("faults")
    BY <2>2 DEF Spend, TypeInv, TypeOK, BudgetOK
  <2>. QED
    BY <2>1, <2>2 DEF Settle
<1>. QED
  BY <1>1, <1>2, <1>4, <1>5

\* The moves of an invocation after which as many machines count as before.
LEMMA CalmMoves ==
    ASSUME TypeInv, WedgeInv, NEW r \in Runners,
           \/ ReleaseCreate(r) \/ ReleaseSucceeds(r) \/ ReleaseFails(r) \/ ReleaseCleanup(r)
           \/ GetMachine(r) \/ Verify(r) \/ Succeed(r) \/ MakePlan(r)
    PROVE  Calm(r)
<1>. USE DEF Calm, Present, OwnRelease, TypeInv, TypeOK, LocalsOK, Goto, fly
<1>1. CASE ReleaseCreate(r)
  <2>1. PICK id \in Offered(used), machine \in {ReleaseMachine(plan[r], g) : g \in DOMAIN plan[r].groups} :
            Hand(id, machine) /\ target' = [target EXCEPT ![r] = id]
    BY <1>1 DEF ReleaseCreate
  <2>2. id \notin DOMAIN fleet
    BY OfferedAreNew DEF FleetOK
  <2>3. pc[r] = "release" /\ pc'[r] = "releaseExit" /\ target'[r] = id
    BY <1>1, <2>1 DEF ReleaseCreate
  <2>4. DOMAIN fleet' = DOMAIN fleet \cup {id} /\ \A m \in DOMAIN fleet : fleet'[m] = fleet[m]
    BY <2>1, <2>2 DEF Hand, Put
  <2>. QED
    BY <2>2, <2>3, <2>4
<1>2. CASE ReleaseSucceeds(r) \/ ReleaseFails(r)
  <2>1. UNCHANGED <<fleet, target>> /\ pc[r] = "releaseExit" /\ pc'[r] \in {"releaseCleanup", "releaseAbort"}
    BY <1>2 DEF ReleaseSucceeds, ReleaseFails
  <2>. QED
    BY <2>1
<1>3. CASE ReleaseCleanup(r)
  <2>1. /\ DOMAIN fleet' = DOMAIN fleet \ {target[r]}
        /\ \A m \in DOMAIN fleet' : fleet'[m] = fleet[m]
        /\ pc[r] \in {"releaseCleanup", "releaseAbort"} /\ pc'[r] \in {"rollout", "failed"}
    BY <1>3 DEF ReleaseCleanup, Remove, Drop
  <2>. QED
    BY <2>1
<1>4. CASE GetMachine(r) \/ Verify(r) \/ Succeed(r) \/ MakePlan(r)
  <2>1. /\ UNCHANGED fleet
        /\ pc[r] \in {"list", "rollout", "wait"}
        /\ pc'[r] \in {"rollout", "release", "update", "done"}
    BY <1>4 DEF GetMachine, Verify, Succeed, MakePlan
  <2>. QED
    BY <2>1
<1>. QED
  BY <1>1, <1>2, <1>3, <1>4

LEMMA WedgeStep ==
    ASSUME SoleActor, TypeInv, ManagedInv, WedgeInv, [Next]_vars, NEW r \in Runners
    PROVE  WedgeOf(r)'
<1>. USE DEF TypeInv, TypeOK, LocalsOK, HistoryOK, BudgetOK, Goto, RollBack, Following
<1>0. /\ WedgeOf(r) /\ mishaps[r] \in Nat /\ budget.faults \in Nat
      /\ \A s \in Runners : s = r
  BY DEF WedgeInv, SoleActor
\* Failing: there was a fault now or before.
<1>1. ASSUME \/ Spend("faults") /\ UNCHANGED mishaps
             \/ Faulted(r) /\ UNCHANGED <<budget, mishaps>>,
             pc'[r] \in {"failed", "rollback", "releaseAbort"},
             pc'[r] = "releaseAbort" =>
                pc[r] = "releaseExit" /\ UNCHANGED <<fleet, todo, target>>
      PROVE  WedgeOf(r)'
  <2>1. Faulted(r)' /\ mishaps'[r] <= budget'.faults
    BY <1>0, <1>1 DEF Faulted, Spend, WedgeOf
  <2>2. pc'[r] = "releaseAbort" => Present(r)' = Present(r)
    BY <1>1 DEF Present, OwnRelease
  <2>. QED
    BY <1>0, <1>1, <2>1, <2>2 DEF WedgeOf
<1>2. CASE UNCHANGED vars
  BY <1>0, <1>2 DEF WedgeOf, vars, fly, locals, history, Present, OwnRelease, CanUpdate, UpdateOf,
      Faulted, ReleaseNameTaken
<1>3. ASSUME NEW p \in Plans, Start(r, p) PROVE WedgeOf(r)'
  BY <1>3 DEF Start, Spend, WedgeOf
<1>4. CASE MakePlan(r)
  <2>1. plan[r] \in Plans /\ pc[r] = "list"
    BY <1>4 DEF MakePlan
  <2>2. DOMAIN plan[r].groups \subseteq Int
    BY <2>1, ConstantsAssumption DEF Valid
  <2>3. \A c \in todo'[r] : c \in Diff(plan[r].groups, fleet)
    BY <1>4 DEF MakePlan
  <2>4. \A c \in todo'[r] : c.action # "create" => c.id \in DOMAIN fleet
    BY <2>2, <2>3, DiffIsManaged
  <2>5. Present(r)' = DOMAIN fleet
    BY <1>4 DEF MakePlan, Present, OwnRelease, fly
  <2>6. /\ pc'[r] \in {"release", "rollout"} /\ UNCHANGED <<plan, mishaps, budget>>
        /\ pc'[r] = "release" => plan[r].release
    BY <1>4 DEF MakePlan
  <2>. QED
    BY <1>0, <2>4, <2>5, <2>6 DEF WedgeOf
<1>5. CASE PlanFails(r) \/ ReleaseCleanupFails(r) \/ DeleteOldFails(r) \/ CreateFails(r)
  BY <1>1, <1>5 DEF PlanFails, ReleaseCleanupFails, DeleteOldFails, CreateFails, history
<1>6. CASE ReleaseCreateFails(r)
  <2>1. CASE Spend("faults")
    BY <1>1, <1>6, <2>1 DEF ReleaseCreateFails, history
  <2>2. CASE ReleaseNameTaken /\ UNCHANGED <<fly, budget>>
    <3>1. pc'[r] = "failed" /\ UNCHANGED <<fleet, plan, mishaps, budget>>
      BY <1>6, <2>2 DEF ReleaseCreateFails, history, fly
    <3>2. plan[r].release
      BY <1>0, <1>6 DEF ReleaseCreateFails, WedgeOf
    <3>. QED
      BY <1>0, <2>2, <3>1, <3>2 DEF WedgeOf, ReleaseNameTaken
  <2>. QED
    BY <1>6, <2>1, <2>2 DEF ReleaseCreateFails
<1>7. CASE ReleaseCreate(r)
  <2>1. Present(r)' = Present(r)
    BY <1>7, CalmMoves DEF Calm
  <2>2. target'[r] \in DOMAIN fleet'
    <3>1. PICK id \in Offered(used), machine \in {ReleaseMachine(plan[r], g) : g \in DOMAIN plan[r].groups} :
            Hand(id, machine) /\ target' = [target EXCEPT ![r] = id]
      BY <1>7 DEF ReleaseCreate
    <3>. QED
      BY <3>1 DEF Hand, Put
  <2>3. /\ pc[r] = "release" /\ pc'[r] = "releaseExit"
        /\ UNCHANGED <<todo, mishaps, budget>>
    BY <1>7 DEF ReleaseCreate, history
  <2>. QED
    BY <1>0, <2>1, <2>2, <2>3 DEF WedgeOf
<1>8. CASE ReleaseSucceeds(r)
  <2>1. Present(r)' = Present(r)
    BY <1>8, CalmMoves DEF Calm
  <2>2. /\ pc[r] = "releaseExit" /\ pc'[r] = "releaseCleanup"
        /\ UNCHANGED <<fleet, todo, target, mishaps, budget>>
    BY <1>8 DEF ReleaseSucceeds, history, fly
  <2>. QED
    BY <1>0, <2>1, <2>2 DEF WedgeOf
<1>9. CASE ReleaseFails(r)
  <2>1. target[r] \in DOMAIN fleet
    BY <1>0, <1>9 DEF ReleaseFails, WedgeOf
  <2>. QED
    BY <1>1, <1>9, <2>1 DEF ReleaseFails, history, fly
<1>10. CASE ReleaseCleanup(r)
  <2>1. Present(r)' = Present(r)
    BY <1>10, CalmMoves DEF Calm
  <2>2. /\ UNCHANGED <<todo, mishaps, budget>>
        /\ \/ pc[r] = "releaseCleanup" /\ pc'[r] = "rollout"
           \/ pc[r] = "releaseAbort" /\ pc'[r] = "failed"
    BY <1>10 DEF ReleaseCleanup, history
  <2>. QED
    BY <1>0, <2>1, <2>2 DEF WedgeOf, Faulted
<1>11. CASE CreateMachine(r)
  <2>1. PICK c \in todo[r], id \in Offered(used) :
            /\ Hand(id, GroupMachine(plan[r], c)) /\ target' = [target EXCEPT ![r] = id]
    BY <1>11 DEF CreateMachine
  <2>2. /\ DOMAIN fleet' = DOMAIN fleet \cup {id}
        /\ fleet'[id].health = "unknown"
        /\ target'[r] = id
    BY <2>1 DEF Hand, Put, GroupMachine, NewMachine
  <2>3. /\ pc[r] = "rollout" /\ pc'[r] = "wait"
        /\ UNCHANGED <<todo, mishaps, budget>>
    BY <1>11 DEF CreateMachine
  <2>4. Present(r) \subseteq Present(r)'
    BY <2>2, <2>3 DEF Present, OwnRelease
  <2>. QED
    BY <1>0, <2>2, <2>3, <2>4 DEF WedgeOf
<1>12. CASE GetMachine(r)
  <2>1. Present(r)' = Present(r)
    BY <1>12, CalmMoves DEF Calm
  <2>2. PICK c \in todo[r] :
            /\ First(todo[r], c) /\ c.action = "update" /\ c.id \in DOMAIN fleet
            /\ target' = [target EXCEPT ![r] = c.id]
            /\ version' = [version EXCEPT ![r] = fleet[c.id].version]
    BY <1>12 DEF GetMachine
  <2>3. /\ pc[r] = "rollout" /\ pc'[r] = "update"
        /\ UNCHANGED <<fleet, todo, mishaps, budget>>
    BY <1>12 DEF GetMachine, history, fly
  <2>4. CanUpdate(r)' /\ UpdateOf(r, target[r])'
    BY <2>2, <2>3 DEF CanUpdate, UpdateOf
  <2>. QED
    BY <1>0, <2>1, <2>3, <2>4 DEF WedgeOf
<1>13. CASE GetMachineFails(r)
  <2>1. \A c \in todo[r] : c.action # "create" => c.id \in DOMAIN fleet
    BY <1>0, <1>13 DEF GetMachineFails, WedgeOf, Present
  <2>2. Spend("faults")
    BY <1>13, <2>1 DEF GetMachineFails
  <2>. QED
    BY <1>1, <1>13, <2>2 DEF GetMachineFails, history
<1>14. CASE UpdateMachine(r)
  <2>1. target[r] \in DOMAIN fleet
    BY <1>14 DEF UpdateMachine, CanUpdate
  <2>2. /\ DOMAIN fleet' = DOMAIN fleet
        /\ fleet'[target[r]].health = "unknown"
    <3>1. PICK c \in todo[r] :
            fleet' = Put(fleet, target[r], Updated(fleet[target[r]], plan[r], c))
      BY <1>14 DEF UpdateMachine
    <3>2. Updated(fleet[target[r]], plan[r], c).health = "unknown"
      BY DEF Updated
    <3>3. /\ DOMAIN fleet' = DOMAIN fleet \cup {target[r]}
          /\ fleet'[target[r]] = Updated(fleet[target[r]], plan[r], c)
      BY <3>1 DEF Put
    <3>4. DOMAIN fleet' = DOMAIN fleet
      BY <2>1, <3>3
    <3>. QED
      BY <3>2, <3>3, <3>4
  <2>3. /\ pc[r] = "update" /\ pc'[r] = "wait"
        /\ UNCHANGED <<todo, target, mishaps, budget>>
    BY <1>14 DEF UpdateMachine
  <2>4. Present(r)' = Present(r)
    BY <2>2, <2>3 DEF Present, OwnRelease
  <2>. QED
    BY <1>0, <2>1, <2>2, <2>3, <2>4 DEF WedgeOf
<1>15. CASE UpdateFails(r)
  <2>1. CanUpdate(r)
    BY <1>0, <1>15 DEF UpdateFails, WedgeOf
  <2>2. Spend("faults")
    BY <1>15, <2>1 DEF UpdateFails
  <2>. QED
    BY <1>1, <1>15, <2>2 DEF UpdateFails, history
<1>16. CASE Verify(r)
  <2>1. Present(r)' = Present(r)
    BY <1>16, CalmMoves DEF Calm
  <2>2. todo'[r] \subseteq todo[r]
    BY <1>16 DEF Verify
  <2>3. pc[r] = "wait" /\ pc'[r] = "rollout" /\ UNCHANGED <<mishaps, budget>>
    BY <1>16 DEF Verify
  <2>. QED
    BY <1>0, <2>1, <2>2, <2>3 DEF WedgeOf
<1>17. CASE VerifyFails(r)
  <2>1. /\ target[r] \in DOMAIN fleet
        /\ fleet[target[r]].health = "failing" => Faulted(r)
    BY <1>0, <1>17 DEF VerifyFails, WedgeOf
  <2>2. Spend("faults") \/ (Faulted(r) /\ UNCHANGED budget)
    BY <1>17, <2>1 DEF VerifyFails
  <2>. QED
    BY <1>1, <1>17, <2>2 DEF VerifyFails, history
<1>18. CASE DeleteOld(r)
  <2>1. /\ pc[r] = "rollout" /\ pc' = pc /\ todo[r] = {}
        /\ UNCHANGED <<todo, mishaps, budget>>
    BY <1>18 DEF DeleteOld, history
  <2>. QED
    BY <1>0, <2>1 DEF WedgeOf
<1>19. CASE Succeed(r)
  BY <1>0, <1>19 DEF Succeed, WedgeOf, history
<1>20. CASE Undo(r)
  <2>1. pc[r] = "rollback" /\ pc' = pc /\ UNCHANGED <<mishaps, budget>>
    BY <1>20 DEF Undo, history
  <2>. QED
    BY <1>0, <2>1 DEF WedgeOf, Faulted
<1>21. CASE UndoFails(r)
  BY <1>1, <1>21 DEF UndoFails
<1>22. CASE RolledBack(r)
  <2>1. Faulted(r)
    BY <1>0, <1>22 DEF RolledBack, WedgeOf
  <2>. QED
    BY <1>1, <1>22, <2>1 DEF RolledBack, history
<1>23. CASE Crash(r)
  BY <1>0, <1>23 DEF Crash, Spend, WedgeOf, history
<1>24. ASSUME NEW id \in MachineIds, Settle(id) PROVE WedgeOf(r)'
  <2>1. /\ Present(r)' = Present(r) /\ UNCHANGED <<pc, plan, todo, target, version, mishaps>>
        /\ DOMAIN fleet' = DOMAIN fleet
        /\ \A m \in DOMAIN fleet :
            /\ fleet'[m].version = fleet[m].version
            /\ fleet'[m].name = fleet[m].name
            /\ fleet'[m].health = "failing" /\ fleet[m].health # "failing" =>
                    budget'.faults = budget.faults + 1
        /\ budget'.faults \in {budget.faults, budget.faults + 1}
    BY <1>24, SettleIsCalm DEF Calm, locals, history
  <2>2. Faulted(r) => Faulted(r)'
    BY <1>0, <2>1 DEF Faulted
  <2>3. mishaps'[r] <= budget'.faults
    BY <1>0, <2>1 DEF WedgeOf
  <2>4. CanUpdate(r) => CanUpdate(r)'
    BY <2>1 DEF CanUpdate
  <2>5. UpdateOf(r, target[r]) => UpdateOf(r, target[r])'
    BY <2>1 DEF UpdateOf
  <2>6. ReleaseNameTaken => ReleaseNameTaken'
    BY <2>1 DEF ReleaseNameTaken
  <2>7. pc[r] = "wait" /\ fleet'[target[r]].health = "failing" => Faulted(r)'
    BY <1>0, <2>1, <2>2 DEF WedgeOf, Faulted
  <2>. QED
    BY <1>0, <2>1, <2>2, <2>3, <2>4, <2>5, <2>6, <2>7 DEF WedgeOf
<1>. QED
  BY <1>0, <1>2, <1>3, <1>4, <1>5, <1>6, <1>7, <1>8, <1>9, <1>10, <1>11, <1>12, <1>13, <1>14,
     <1>15, <1>16, <1>17, <1>18, <1>19, <1>20, <1>21, <1>22, <1>23, <1>24, NothingVanishes
  DEF Next, Advance, ReleaseStep, RolloutStep, RollbackStep

LEMMA WedgeInit == Init => WedgeInv
  BY DEF Init, WedgeInv, WedgeOf, Following

(***************************************************************************)
(* With no other actor, an apply during which nothing fails succeeds,      *)
(* whatever was left behind, but for a release machine in the way.         *)
(***************************************************************************)
THEOREM OnlyReleaseMachinesWedge ==
    ASSUME SoleActor
    PROVE  Spec => []OnlyReleaseWedges
<1>. DEFINE IInv == TypeInv /\ ManagedInv /\ WedgeInv
<1>1. Init => IInv
  BY TypeInit, ManagedInit, WedgeInit
<1>2. IInv /\ [Next]_vars => IInv'
  BY TypeStep, ManagedStep, WedgeStep DEF WedgeInv
<1>3. IInv => OnlyReleaseWedges
  BY DEF WedgeInv, WedgeOf, OnlyReleaseWedges, Faulted
<1>. QED
  BY <1>1, <1>2, <1>3, PTL DEF Spec

-----------------------------------------------------------------------------
(***************************************************************************)
(* What the rest of the plan makes of the app.  "Ahead" are the changes    *)
(* not yet made: during a wait the first of todo has been made already.    *)
(***************************************************************************)
Ahead(r) == {c \in todo[r] : ~(pc[r] = "wait" /\ First(todo[r], c))}

Updating(r) == {c.id : c \in {d \in Ahead(r) : d.action = "update"}}

Doomed(r) == Leaving(todo[r]) \cup Leaving(deferred[r])

Staying(r, g) == {m \in Present(r) : fleet[m].group = g} \ Doomed(r)

Count(r, g) == Cardinality(Staying(r, g)) + Cardinality(Coming(Ahead(r), g))

\* No group but the plan's is left once the deletes are done; what no change
\* is to touch is up to date; an update finds the machine of its group in the
\* right region; and the machines that stay, with those still to be created,
\* are as many as the plan wants.
OrphansGo(r) ==
    \A m \in Present(r) :
        fleet[m].group \in DOMAIN plan[r].groups \cup {NoGroup} \/ m \in Leaving(deferred[r])

RestUpToDate(r) ==
    \A m \in Present(r) \ (Doomed(r) \cup Updating(r)) :
        fleet[m].group \in DOMAIN plan[r].groups =>
            UpToDate(fleet[m], plan[r].groups[fleet[m].group])

UpdatesFit(r) ==
    \A c \in Ahead(r) : c.action = "update" =>
        /\ c.id \in Present(r)
        /\ fleet[c.id].group = c.group
        /\ fleet[c.id].region = plan[r].groups[c.group].region

CountsFit(r) ==
    \A g \in DOMAIN plan[r].groups :
        /\ IsFiniteSet(Staying(r, g)) /\ IsFiniteSet(Coming(Ahead(r), g))
        /\ Count(r, g) \in plan[r].groups[g].min .. plan[r].groups[g].max

SyncOf(r) == OrphansGo(r) /\ RestUpToDate(r) /\ UpdatesFit(r) /\ CountsFit(r)

SyncInv ==
    \A r \in Runners :
        /\ pc[r] \in Following \cup {"done"} => SyncOf(r)
        /\ pc[r] = "done" => todo[r] = {} /\ deferred[r] = {}
        /\ \A c \in deferred[r] : c.action \in {"delete", "replace"}
        /\ \A c \in todo[r] : c.action # "delete"

\* Fly reports the region of every machine.
RegionsKnown == \A m \in DOMAIN fleet : fleet[m].region # NoRegion

FiniteInv == IsFiniteSet(DOMAIN fleet)

LEMMA FiniteStep ==
    ASSUME TypeInv, ManagedInv, FiniteInv, [Next]_vars
    PROVE  FiniteInv'
<1>1. \E id : DOMAIN fleet' \subseteq DOMAIN fleet \cup {id}
  BY StepChangesFleet DEF FleetChange, AddsManaged, RewritesManaged, RemovesManaged, OnlySettles,
     Hand, Put, Remove, Drop, fly
<1>2. PICK id : DOMAIN fleet' \subseteq DOMAIN fleet \cup {id}
  BY <1>1
<1>3. IsFiniteSet(DOMAIN fleet \cup {id})
  BY FS_AddElement DEF FiniteInv
<1>. QED
  BY <1>2, <1>3, FS_Subset DEF FiniteInv

LEMMA RegionsStep ==
    ASSUME TypeInv, RegionsKnown, [Next]_vars
    PROVE  RegionsKnown'
<1>. USE DEF TypeInv, TypeOK, LocalsOK
<1>1. CASE UNCHANGED fleet
  BY <1>1 DEF RegionsKnown
<1>2. ASSUME NEW id, Remove(id) PROVE RegionsKnown'
  BY <1>2 DEF Remove, Drop, RegionsKnown
<1>3. ASSUME NEW id, NEW machine, machine.region # NoRegion, fleet' = Put(fleet, id, machine)
      PROVE  RegionsKnown'
  BY <1>3 DEF Put, RegionsKnown
<1>4. ASSUME NEW r \in Runners, plan[r] \in Plans, NEW g \in DOMAIN plan[r].groups
      PROVE  plan[r].groups[g].region # NoRegion
  BY <1>4, ConstantsAssumption DEF Valid, GroupSpec
<1>5. ASSUME NEW r \in Runners, ReleaseCreate(r) \/ ReleaseCreateFails(r) PROVE RegionsKnown'
  <2>1. plan[r] \in Plans
    BY <1>5 DEF ReleaseCreate, ReleaseCreateFails
  <2>2. \/ UNCHANGED fleet
        \/ \E id \in Offered(used), g \in DOMAIN plan[r].groups :
                fleet' = Put(fleet, id, ReleaseMachine(plan[r], g))
    BY <1>5 DEF ReleaseCreate, ReleaseCreateFails, Hand, fly
  <2>3. \A g \in DOMAIN plan[r].groups : ReleaseMachine(plan[r], g).region # NoRegion
    BY <1>4, <2>1 DEF ReleaseMachine, NewMachine
  <2>. QED
    BY <1>1, <1>3, <2>2, <2>3
<1>6. ASSUME NEW r \in Runners, CreateMachine(r) \/ CreateFails(r) PROVE RegionsKnown'
  <2>1. plan[r] \in Plans
    BY <1>6 DEF CreateMachine, CreateFails
  <2>2. \/ UNCHANGED fleet
        \/ \E id \in Offered(used), c \in todo[r] : fleet' = Put(fleet, id, GroupMachine(plan[r], c))
    BY <1>6 DEF CreateMachine, CreateFails, Hand, fly
  <2>3. \A c \in todo[r] : GroupMachine(plan[r], c).region # NoRegion
    BY <1>4, <2>1 DEF GroupMachine, NewMachine, TodoOK
  <2>. QED
    BY <1>1, <1>3, <2>2, <2>3
<1>7. ASSUME NEW r \in Runners, UpdateMachine(r) \/ UpdateFails(r) PROVE RegionsKnown'
  <2>1. \/ UNCHANGED fleet
        \/ /\ target[r] \in DOMAIN fleet
           /\ \E c \in todo[r] :
                fleet' = Put(fleet, target[r], Updated(fleet[target[r]], plan[r], c))
    BY <1>7 DEF UpdateMachine, UpdateFails, CanUpdate
  <2>2. \A machine, c : Updated(machine, plan[r], c).region = machine.region
    BY DEF Updated
  <2>. QED
    BY <1>1, <1>3, <2>1, <2>2 DEF RegionsKnown
<1>8. ASSUME NEW id \in MachineIds, Settle(id) PROVE RegionsKnown'
  <2>1. DOMAIN fleet' = DOMAIN fleet /\ \A m \in DOMAIN fleet : fleet'[m].region = fleet[m].region
    BY <1>8 DEF Settle, FleetOK, Machine
  <2>. QED
    BY <2>1 DEF RegionsKnown
<1>9. ASSUME NEW r \in Runners,
             \/ ReleaseCleanup(r) \/ ReleaseCleanupFails(r) \/ DeleteOld(r) \/ DeleteOldFails(r)
             \/ Undo(r) \/ UndoFails(r)
      PROVE  RegionsKnown'
  <2>1. UNCHANGED fleet \/ \E id : Remove(id)
    BY <1>9 DEF ReleaseCleanup, ReleaseCleanupFails, DeleteOld, DeleteOldFails, Undo, UndoFails, fly
  <2>. QED
    BY <1>1, <1>2, <2>1
<1>10. ASSUME NEW r \in Runners,
             \/ MakePlan(r) \/ PlanFails(r) \/ ReleaseSucceeds(r) \/ ReleaseFails(r)
             \/ GetMachine(r) \/ GetMachineFails(r) \/ Verify(r) \/ VerifyFails(r)
             \/ Succeed(r) \/ RolledBack(r) \/ Crash(r) \/ \E p \in Plans : Start(r, p)
      PROVE  RegionsKnown'
  BY <1>1, <1>10 DEF MakePlan, PlanFails, ReleaseSucceeds, ReleaseFails, GetMachine,
     GetMachineFails, Verify, VerifyFails, Succeed, RolledBack, Crash, Start, fly
<1>. QED
  BY <1>1, <1>2, <1>5, <1>6, <1>7, <1>8, <1>9, <1>10
  DEF Next, Advance, ReleaseStep, RolloutStep, RollbackStep, Vanish, vars, fly

LEMMA FirstIsOne ==
    ASSUME NEW changes \in SUBSET Change, NEW c, NEW d, First(changes, c), First(changes, d)
    PROVE  c = d
<1>. SUFFICES ASSUME c # d PROVE FALSE
  OBVIOUS
<1>1. c \in Change /\ d \in Change /\ Before(c, d) /\ Before(d, c)
  BY DEF First
<1>2. c.group \in Int /\ d.group \in Int /\ c.id \in Int /\ d.id \in Int
  BY <1>1, ConstantsAssumption DEF Change
<1>3. ActionRank[c.action] \in Int /\ ActionRank[d.action] \in Int
  BY <1>1 DEF Change, Actions, ActionRank
<1>. QED
  BY <1>1, <1>2, <1>3 DEF Before

(***************************************************************************)
(* A calm step that takes nothing from the changes still ahead.            *)
(***************************************************************************)
LEMMA CalmKeepsSync ==
    ASSUME NEW r \in Runners, SyncOf(r), Calm(r), plan'[r] = plan[r],
           Doomed(r)' = Doomed(r), Ahead(r)' = Ahead(r),
           Leaving(deferred[r]) \subseteq Leaving(deferred'[r])
    PROVE  SyncOf(r)'
<1>. DEFINE groups == plan[r].groups
<1>1. /\ Present(r)' = Present(r)
      /\ \A m \in Present(r) :
            /\ fleet'[m].group = fleet[m].group /\ fleet'[m].hash = fleet[m].hash
            /\ fleet'[m].region = fleet[m].region
  BY DEF Calm
<1>2. Updating(r)' = Updating(r)
  BY DEF Updating
<1>3. OrphansGo(r)'
  BY <1>1 DEF SyncOf, OrphansGo
<1>4. RestUpToDate(r)'
  BY <1>1, <1>2 DEF SyncOf, RestUpToDate, UpToDate
<1>5. UpdatesFit(r)'
  BY <1>1 DEF SyncOf, UpdatesFit
<1>6. ASSUME NEW g PROVE Staying(r, g)' = Staying(r, g)
  BY <1>1 DEF Staying
<1>7. CountsFit(r)'
  BY <1>6 DEF SyncOf, CountsFit, Count
<1>. QED
  BY <1>3, <1>4, <1>5, <1>7 DEF SyncOf

(***************************************************************************)
(* The plan just made: what Diff promises.                                 *)
(***************************************************************************)
LEMMA PlanSyncs ==
    ASSUME TypeInv, FiniteInv, RegionsKnown, NEW r \in Runners, MakePlan(r)
    PROVE  SyncOf(r)'
<1>. DEFINE p == plan[r].groups
            changes == Diff(p, fleet)
<1>1. /\ plan[r] \in Plans /\ pc[r] = "list"
      /\ pc'[r] \in {"release", "rollout"}
      /\ todo'[r] = {c \in changes : c.action \notin {"noop", "delete"}}
      /\ deferred'[r] = {c \in changes : c.action = "delete"}
      /\ UNCHANGED <<fleet, plan>>
  BY DEF MakePlan, TypeInv, TypeOK, LocalsOK, Goto, fly
<1>2. /\ IsFiniteSet(DOMAIN fleet) /\ DOMAIN fleet \subseteq Int
      /\ Sized(p) /\ DOMAIN p \subseteq Int
      /\ \A g \in DOMAIN p : p[g].min \in Int /\ p[g].min <= p[g].max
  <2>1. Valid(plan[r])
    BY <1>1, ConstantsAssumption
  <2>2. /\ DOMAIN p \subseteq GroupNames
        /\ \A g \in DOMAIN p : p[g] \in GroupSpec /\ p[g].min <= p[g].max
    BY <2>1 DEF Valid
  <2>3. \A g \in DOMAIN p : p[g].min \in Nat /\ p[g].max \in Nat
    BY <2>2 DEF GroupSpec
  <2>4. DOMAIN p \subseteq Int
    BY <2>2, ConstantsAssumption
  <2>5. IsFiniteSet(DOMAIN fleet) /\ DOMAIN fleet \subseteq Int
    BY ConstantsAssumption DEF FiniteInv, TypeInv, TypeOK, FleetOK
  <2>6. Sized(p)
    BY <2>3, <2>4 DEF Sized
  <2>. QED
    BY <2>2, <2>3, <2>4, <2>5, <2>6
<1>3. Present(r)' = DOMAIN fleet /\ Ahead(r)' = todo'[r]
  BY <1>1 DEF Present, OwnRelease, Ahead
<1>4. /\ \A c \in changes : c.action \in Actions
      /\ \A c \in changes : c.action # "create" => c.id \in DOMAIN fleet /\ fleet[c.id].group = c.group
      /\ \A c \in changes : c.action \in {"noop", "update", "replace"} =>
            c.group \in DOMAIN p /\ c.action = KeepAction(fleet[c.id], p[c.group])
      /\ \A m \in DOMAIN fleet : fleet[m].group # NoGroup =>
            \E c \in changes : c.action # "create" /\ c.id = m
      /\ \A c \in changes : c.action # "delete" => c.group \in DOMAIN p
  BY <1>2, DiffShape, DiffIsManaged, DiffKeeps, DiffCovers
<1>5. \A g \in DOMAIN p :
        /\ IsFiniteSet(Members(fleet, g) \ Leaving(changes)) /\ IsFiniteSet(Coming(changes, g))
        /\ Cardinality(Members(fleet, g) \ Leaving(changes)) + Cardinality(Coming(changes, g))
                \in p[g].min .. p[g].max
  BY <1>2, DiffCounts
<1>. HIDE DEF changes
<1>6. Doomed(r)' = Leaving(changes)
  BY <1>1 DEF Doomed, Leaving
<1>7. \A g : Coming(Ahead(r)', g) = Coming(changes, g)
  BY <1>1, <1>3 DEF Coming
<1>8. OrphansGo(r)'
  <2>. SUFFICES ASSUME NEW m \in DOMAIN fleet, fleet[m].group \notin DOMAIN p \cup {NoGroup}
                PROVE  m \in Leaving(deferred'[r])
    BY <1>1, <1>3 DEF OrphansGo
  <2>1. PICK c \in changes : c.action # "create" /\ c.id = m
    BY <1>4
  <2>2. c.action = "delete"
    BY <1>4, <2>1
  <2>. QED
    BY <1>1, <2>1, <2>2 DEF Leaving
<1>9. RestUpToDate(r)'
  <2>. SUFFICES ASSUME NEW m \in DOMAIN fleet \ (Doomed(r)' \cup Updating(r)'), fleet[m].group \in DOMAIN p
                PROVE  UpToDate(fleet[m], p[fleet[m].group])
    BY <1>1, <1>3 DEF RestUpToDate
  <2>1. fleet[m].group # NoGroup
    BY <1>2, NoGroupAssumption
  <2>2. PICK c \in changes : c.action # "create" /\ c.id = m
    BY <1>4, <2>1
  <2>3. c.action \notin {"delete", "replace"}
    BY <1>6, <2>2 DEF Leaving
  <2>4. c.action # "update"
    BY <1>1, <1>3, <2>2 DEF Updating
  <2>5. c.action = "noop"
    BY <1>4, <2>2, <2>3, <2>4 DEF Actions
  <2>6. KeepAction(fleet[m], p[c.group]) = "noop" /\ c.group = fleet[m].group
    BY <1>4, <2>2, <2>5
  <2>. QED
    BY <2>6 DEF KeepAction
<1>10. UpdatesFit(r)'
  <2>. SUFFICES ASSUME NEW c \in changes, c.action = "update"
                PROVE  /\ c.id \in DOMAIN fleet
                       /\ fleet[c.id].group = c.group
                       /\ fleet[c.id].region = p[c.group].region
    BY <1>1, <1>3 DEF UpdatesFit
  <2>1. c.id \in DOMAIN fleet /\ fleet[c.id].group = c.group
        /\ KeepAction(fleet[c.id], p[c.group]) = "update"
    BY <1>4
  <2>2. fleet[c.id].region # NoRegion
    BY <2>1 DEF RegionsKnown
  <2>. QED
    BY <2>1, <2>2 DEF KeepAction, RequiresReplacement
<1>11. CountsFit(r)'
  <2>1. \A g : Staying(r, g)' = Members(fleet, g) \ Leaving(changes)
    BY <1>1, <1>3, <1>6 DEF Staying, Members
  <2>. QED
    BY <1>1, <1>5, <1>7, <2>1 DEF CountsFit, Count
<1>. QED
  BY <1>8, <1>9, <1>10, <1>11 DEF SyncOf

(***************************************************************************)
(* A machine created is one more that stays and one change fewer ahead.    *)
(***************************************************************************)
LEMMA CreateSyncs ==
    ASSUME TypeInv, ManagedInv, NEW r \in Runners, SyncOf(r), CreateMachine(r)
    PROVE  SyncOf(r)'
<1>. DEFINE p == plan[r].groups
<1>. USE DEF TypeInv, TypeOK, LocalsOK, Goto
<1>1. PICK c \in todo[r], id \in Offered(used) :
        /\ First(todo[r], c) /\ Creates(c)
        /\ Hand(id, GroupMachine(plan[r], c))
  BY DEF CreateMachine
<1>2. /\ pc[r] = "rollout" /\ pc'[r] = "wait" /\ plan[r] \in Plans
      /\ UNCHANGED <<plan, todo, deferred>>
  BY DEF CreateMachine
<1>3. /\ id \notin DOMAIN fleet /\ id \notin used
      /\ DOMAIN fleet' = DOMAIN fleet \cup {id}
      /\ \A m \in DOMAIN fleet : fleet'[m] = fleet[m]
      /\ fleet'[id] = GroupMachine(plan[r], c)
  BY <1>1, OfferedAreNew DEF FleetOK, Hand, Put
<1>4. /\ c.group \in DOMAIN p
      /\ fleet'[id].group = c.group
      /\ UpToDate(fleet'[id], p[c.group])
  <2>1. c.group \in DOMAIN p
    BY DEF TodoOK
  <2>2. p[c.group].region # NoRegion
    BY <1>2, <2>1, ConstantsAssumption DEF Valid, GroupSpec
  <2>. QED
    BY <1>3, <2>1, <2>2 DEF GroupMachine, NewMachine, UpToDate
<1>5. Present(r) = DOMAIN fleet /\ Present(r)' = DOMAIN fleet \cup {id}
  BY <1>2, <1>3 DEF Present, OwnRelease
<1>6. Doomed(r)' = Doomed(r) /\ id \notin Doomed(r)
  <2>1. Doomed(r)' = Doomed(r)
    BY <1>2 DEF Doomed
  <2>2. ASSUME NEW d \in todo[r] \cup deferred[r], d.action \in {"delete", "replace"}
        PROVE  d.id # id
    <3>1. Handle(r, d.id)
      BY <2>2 DEF Handle
    <3>. QED
      BY <1>3, <3>1 DEF ManagedInv, ManagedOrGone
  <2>. QED
    BY <2>1, <2>2 DEF Doomed, Leaving
<1>7. Ahead(r) = todo[r] /\ Ahead(r)' = todo[r] \ {c}
  <2>1. todo[r] \in SUBSET Change
    OBVIOUS
  <2>2. \A d \in todo[r] : First(todo[r], d) <=> d = c
    BY <1>1, <2>1, FirstIsOne
  <2>. QED
    BY <1>2, <2>2 DEF Ahead
<1>8. Updating(r)' = Updating(r)
  BY <1>1, <1>7 DEF Updating, Creates
<1>9. OrphansGo(r)'
  BY <1>2, <1>3, <1>4, <1>5 DEF SyncOf, OrphansGo
<1>10. RestUpToDate(r)'
  <2>. SUFFICES ASSUME NEW m \in Present(r)' \ (Doomed(r) \cup Updating(r)), fleet'[m].group \in DOMAIN p
                PROVE  UpToDate(fleet'[m], p[fleet'[m].group])
    BY <1>2, <1>6, <1>8 DEF RestUpToDate
  <2>. QED
    BY <1>3, <1>4, <1>5 DEF SyncOf, RestUpToDate
<1>11. UpdatesFit(r)'
  BY <1>2, <1>3, <1>5, <1>7 DEF SyncOf, UpdatesFit
<1>12. CountsFit(r)'
  <2>. SUFFICES ASSUME NEW g \in DOMAIN p
                PROVE  /\ IsFiniteSet(Staying(r, g)') /\ IsFiniteSet(Coming(Ahead(r), g)')
                       /\ Count(r, g)' \in p[g].min .. p[g].max
    BY <1>2 DEF CountsFit
  <2>1. /\ IsFiniteSet(Staying(r, g)) /\ IsFiniteSet(Coming(Ahead(r), g))
        /\ Count(r, g) \in p[g].min .. p[g].max
    BY DEF SyncOf, CountsFit
  <2>2. Cardinality(Staying(r, g)) \in Nat /\ Cardinality(Coming(Ahead(r), g)) \in Nat
    BY <2>1, FS_CardinalityType
  <2>3. CASE c.group = g
    <3>1. Staying(r, g)' = Staying(r, g) \cup {id} /\ id \notin Staying(r, g)
      BY <1>3, <1>4, <1>5, <1>6, <2>3 DEF Staying
    <3>2. Coming(Ahead(r), g)' = Coming(Ahead(r), g) \ {c} /\ c \in Coming(Ahead(r), g)
      BY <1>1, <1>7, <2>3 DEF Coming, Creates
    <3>3. /\ IsFiniteSet(Staying(r, g)')
          /\ Cardinality(Staying(r, g)') = Cardinality(Staying(r, g)) + 1
      BY <2>1, <3>1, FS_AddElement
    <3>4. /\ IsFiniteSet(Coming(Ahead(r), g)')
          /\ Cardinality(Coming(Ahead(r), g)') = Cardinality(Coming(Ahead(r), g)) - 1
      BY <2>1, <3>2, FS_RemoveElement
    <3>5. Count(r, g)' = Count(r, g)
      BY <2>2, <3>3, <3>4 DEF Count
    <3>. QED
      BY <2>1, <3>3, <3>4, <3>5
  <2>4. CASE c.group # g
    <3>1. Staying(r, g)' = Staying(r, g)
      BY <1>3, <1>4, <1>5, <1>6, <2>4 DEF Staying
    <3>2. Coming(Ahead(r), g)' = Coming(Ahead(r), g)
      BY <1>7, <2>4 DEF Coming
    <3>. QED
      BY <2>1, <3>1, <3>2 DEF Count
  <2>. QED
    BY <2>3, <2>4
<1>. QED
  BY <1>9, <1>10, <1>11, <1>12 DEF SyncOf

(***************************************************************************)
(* A machine updated becomes up to date and stays where it was.            *)
(***************************************************************************)
LEMMA UpdateSyncs ==
    ASSUME TypeInv, WedgeInv, RegionsKnown, NEW r \in Runners, SyncOf(r), UpdateMachine(r)
    PROVE  SyncOf(r)'
<1>. DEFINE p == plan[r].groups
<1>. USE DEF TypeInv, TypeOK, LocalsOK, Goto
<1>1. PICK c \in todo[r] :
        /\ First(todo[r], c)
        /\ fleet' = Put(fleet, target[r], Updated(fleet[target[r]], plan[r], c))
  BY DEF UpdateMachine
<1>2. /\ pc[r] = "update" /\ pc'[r] = "wait"
      /\ target[r] \in DOMAIN fleet
      /\ UNCHANGED <<plan, todo, deferred>>
  BY DEF UpdateMachine, CanUpdate
<1>3. \A d \in todo[r] : First(todo[r], d) <=> d = c
  <2>1. todo[r] \in SUBSET Change
    OBVIOUS
  <2>. QED
    BY <1>1, <2>1, FirstIsOne
<1>4. c.action = "update" /\ c.id = target[r]
  <2>1. UpdateOf(r, target[r])
    BY <1>2 DEF WedgeInv, WedgeOf
  <2>. QED
    BY <1>3, <2>1 DEF UpdateOf
<1>5. Ahead(r) = todo[r] /\ Ahead(r)' = todo[r] \ {c}
  BY <1>2, <1>3 DEF Ahead
<1>6. /\ fleet[c.id].group = c.group /\ fleet[c.id].region = p[c.group].region
      /\ fleet[c.id].region # NoRegion
      /\ c.group \in DOMAIN p
  BY <1>2, <1>4, <1>5 DEF SyncOf, UpdatesFit, RegionsKnown, TodoOK
<1>7. /\ DOMAIN fleet' = DOMAIN fleet
      /\ \A m \in DOMAIN fleet : m # c.id => fleet'[m] = fleet[m]
      /\ fleet'[c.id] = Updated(fleet[c.id], plan[r], c)
  <2>1. DOMAIN fleet' = DOMAIN fleet \cup {c.id}
    BY <1>1, <1>4 DEF Put
  <2>2. DOMAIN fleet' = DOMAIN fleet
    BY <1>2, <1>4, <2>1
  <2>. QED
    BY <1>1, <1>4, <2>2 DEF Put
<1>8. /\ \A m \in DOMAIN fleet : fleet'[m].group = fleet[m].group /\ fleet'[m].region = fleet[m].region
      /\ UpToDate(fleet'[c.id], p[c.group])
  BY <1>6, <1>7 DEF Updated, UpToDate
<1>9. Present(r)' = Present(r) /\ Doomed(r)' = Doomed(r) /\ Present(r) = DOMAIN fleet
  BY <1>2, <1>7 DEF Present, OwnRelease, Doomed
<1>10. OrphansGo(r)'
  BY <1>2, <1>8, <1>9 DEF SyncOf, OrphansGo
<1>11. RestUpToDate(r)'
  <2>. SUFFICES ASSUME NEW m \in DOMAIN fleet \ (Doomed(r) \cup Updating(r)'), fleet'[m].group \in DOMAIN p
                PROVE  UpToDate(fleet'[m], p[fleet'[m].group])
    BY <1>2, <1>9 DEF RestUpToDate
  <2>1. CASE m = c.id
    BY <1>6, <1>8, <2>1
  <2>2. CASE m # c.id
    <3>1. m \notin Updating(r)
      BY <1>5, <2>2 DEF Updating
    <3>. QED
      BY <1>7, <1>9, <2>2, <3>1 DEF SyncOf, RestUpToDate
  <2>. QED
    BY <2>1, <2>2
<1>12. UpdatesFit(r)'
  BY <1>2, <1>5, <1>8, <1>9 DEF SyncOf, UpdatesFit
<1>13. CountsFit(r)'
  <2>1. \A g : Staying(r, g)' = Staying(r, g)
    BY <1>8, <1>9 DEF Staying
  <2>2. \A g : Coming(Ahead(r), g)' = Coming(Ahead(r), g)
    BY <1>4, <1>5 DEF Coming
  <2>. QED
    BY <1>2, <2>1, <2>2 DEF SyncOf, CountsFit, Count
<1>. QED
  BY <1>10, <1>11, <1>12, <1>13 DEF SyncOf

(***************************************************************************)
(* A machine deleted at the end was not counted any more.                  *)
(***************************************************************************)
LEMMA DeleteSyncs ==
    ASSUME TypeInv, SyncInv, NEW r \in Runners, DeleteOld(r)
    PROVE  /\ SyncOf(r)'
           /\ \A g : Staying(r, g)' = Staying(r, g)
<1>. USE DEF TypeInv, TypeOK, LocalsOK
<1>1. PICK c \in deferred[r] :
        Remove(c.id) /\ deferred' = [deferred EXCEPT ![r] = @ \ {c}]
  BY DEF DeleteOld
<1>2. /\ pc[r] = "rollout" /\ todo[r] = {} /\ UNCHANGED <<pc, plan, todo>>
      /\ deferred'[r] = deferred[r] \ {c}
      /\ DOMAIN fleet' = DOMAIN fleet \ {c.id}
      /\ \A m \in DOMAIN fleet' : fleet'[m] = fleet[m]
  BY <1>1 DEF DeleteOld, Remove, Drop
<1>3. SyncOf(r) /\ c.action \in {"delete", "replace"}
  BY <1>2 DEF SyncInv, Following
<1>4. Present(r) = DOMAIN fleet /\ Present(r)' = DOMAIN fleet \ {c.id}
  BY <1>2 DEF Present, OwnRelease
<1>5. /\ Leaving(deferred[r]) = Leaving(deferred'[r]) \cup {c.id}
      /\ Ahead(r) = {} /\ Ahead(r)' = {}
  BY <1>1, <1>2, <1>3 DEF Leaving, Ahead
<1>6. Doomed(r) = Doomed(r)' \cup {c.id}
  BY <1>2, <1>5 DEF Doomed
<1>7. \A g : Staying(r, g)' = Staying(r, g)
  BY <1>2, <1>4, <1>6 DEF Staying
<1>8. OrphansGo(r)'
  BY <1>2, <1>3, <1>4, <1>5 DEF SyncOf, OrphansGo
<1>9. RestUpToDate(r)'
  <2>1. Updating(r)' = Updating(r)
    BY <1>5 DEF Updating
  <2>. QED
    BY <1>2, <1>3, <1>4, <1>6, <2>1 DEF SyncOf, RestUpToDate
<1>10. UpdatesFit(r)'
  BY <1>5 DEF UpdatesFit
<1>11. CountsFit(r)'
  BY <1>2, <1>3, <1>5, <1>7 DEF SyncOf, CountsFit, Count
<1>. QED
  BY <1>7, <1>8, <1>9, <1>10, <1>11 DEF SyncOf

LEMMA SyncStep ==
    ASSUME SoleActor, TypeInv, ManagedInv, WedgeInv, FiniteInv, RegionsKnown, SyncInv,
           [Next]_vars, NEW r \in Runners
    PROVE  /\ pc'[r] \in Following \cup {"done"} => SyncOf(r)'
           /\ pc'[r] = "done" => todo'[r] = {} /\ deferred'[r] = {}
           /\ \A c \in deferred'[r] : c.action \in {"delete", "replace"}
           /\ \A c \in todo'[r] : c.action # "delete"
<1>. DEFINE Good == /\ pc'[r] \in Following \cup {"done"} => SyncOf(r)'
                    /\ pc'[r] = "done" => todo'[r] = {} /\ deferred'[r] = {}
                    /\ \A c \in deferred'[r] : c.action \in {"delete", "replace"}
                    /\ \A c \in todo'[r] : c.action # "delete"
<1>. USE DEF TypeInv, TypeOK, LocalsOK, Goto, RollBack, Following
<1>0. /\ pc[r] \in Following \cup {"done"} => SyncOf(r)
      /\ pc[r] = "done" => todo[r] = {} /\ deferred[r] = {}
      /\ \A c \in deferred[r] : c.action \in {"delete", "replace"}
      /\ \A c \in todo[r] : c.action # "delete"
      /\ \A s \in Runners : s = r
  BY DEF SyncInv, SoleActor
\* The invocation stops following its plan.
<1>1. ASSUME pc'[r] \notin Following \cup {"done"},
             deferred'[r] = deferred[r] \/ deferred'[r] = {},
             todo'[r] = todo[r] \/ todo'[r] = {}
      PROVE  Good
  BY <1>0, <1>1
\* The changes stay as they are.
<1>2. ASSUME Calm(r), pc[r] \in Following, pc'[r] \in Following \cup {"done"},
             "wait" \notin {pc[r], pc'[r]},
             UNCHANGED <<plan, todo, deferred>>,
             pc'[r] = "done" => todo'[r] = {} /\ deferred'[r] = {}
      PROVE  Good
  <2>1. Ahead(r)' = Ahead(r) /\ Doomed(r)' = Doomed(r)
    BY <1>2 DEF Ahead, Doomed
  <2>2. SyncOf(r)'
    BY <1>0, <1>2, <2>1, CalmKeepsSync
  <2>. QED
    BY <1>0, <1>2, <2>2
<1>3. CASE UNCHANGED vars
  <2>1. UNCHANGED <<fleet, pc, plan, todo, deferred, target>>
    BY <1>3 DEF vars, fly, locals
  <2>2. /\ Calm(r) /\ Ahead(r)' = Ahead(r) /\ Doomed(r)' = Doomed(r)
    BY <2>1 DEF Calm, Present, OwnRelease, Ahead, Doomed
  <2>3. SyncOf(r) => SyncOf(r)'
    BY <2>1, <2>2, CalmKeepsSync
  <2>. QED
    BY <1>0, <2>1, <2>3
<1>4. ASSUME NEW id \in MachineIds, Settle(id) PROVE Good
  <2>1. Calm(r) /\ UNCHANGED <<pc, plan, todo, deferred>>
    BY <1>4, SettleIsCalm DEF locals
  <2>2. Ahead(r)' = Ahead(r) /\ Doomed(r)' = Doomed(r)
    BY <2>1 DEF Ahead, Doomed
  <2>3. SyncOf(r) => SyncOf(r)'
    BY <2>1, <2>2, CalmKeepsSync
  <2>. QED
    BY <1>0, <2>1, <2>3
<1>5. ASSUME NEW p \in Plans, Start(r, p) PROVE Good
  BY <1>1, <1>5 DEF Start
<1>6. CASE MakePlan(r)
  <2>1. SyncOf(r)'
    BY <1>6, PlanSyncs
  <2>2. deferred'[r] = {c \in Diff(plan[r].groups, fleet) : c.action = "delete"}
    BY <1>6 DEF MakePlan
  <2>3. todo'[r] = {c \in Diff(plan[r].groups, fleet) : c.action \notin {"noop", "delete"}}
    BY <1>6 DEF MakePlan
  <2>4. pc'[r] # "done"
    BY <1>6 DEF MakePlan
  <2>. QED
    BY <2>1, <2>2, <2>3, <2>4
<1>7. CASE ReleaseCreate(r) \/ ReleaseSucceeds(r) \/ Succeed(r) \/ GetMachine(r)
  <2>1. Calm(r)
    BY <1>7, CalmMoves
  <2>. QED
    BY <1>2, <1>7, <2>1 DEF ReleaseCreate, ReleaseSucceeds, Succeed, GetMachine
<1>8. CASE ReleaseFails(r)
  <2>1. Calm(r)
    BY <1>8, CalmMoves
  <2>. QED
    BY <1>2, <1>8, <2>1 DEF ReleaseFails
<1>9. CASE ReleaseCleanup(r)
  <2>1. Calm(r)
    BY <1>9, CalmMoves
  <2>2. /\ pc[r] \in {"releaseCleanup", "releaseAbort"} /\ pc'[r] \in {"rollout", "failed"}
        /\ UNCHANGED <<plan, todo, deferred>>
    BY <1>9 DEF ReleaseCleanup
  <2>. QED
    BY <1>1, <1>2, <2>1, <2>2
<1>10. CASE CreateMachine(r)
  <2>1. SyncOf(r)'
    BY <1>0, <1>10, CreateSyncs DEF CreateMachine
  <2>2. pc'[r] = "wait" /\ deferred' = deferred /\ todo' = todo
    BY <1>10 DEF CreateMachine
  <2>. QED
    BY <1>0, <2>1, <2>2
<1>11. CASE UpdateMachine(r)
  <2>1. SyncOf(r)'
    BY <1>0, <1>11, UpdateSyncs DEF UpdateMachine
  <2>2. pc'[r] = "wait" /\ deferred' = deferred /\ todo' = todo
    BY <1>11 DEF UpdateMachine
  <2>. QED
    BY <1>0, <2>1, <2>2
<1>12. CASE Verify(r)
  <2>1. PICK c \in todo[r] :
          /\ First(todo[r], c)
          /\ todo' = [todo EXCEPT ![r] = @ \ {c}]
          /\ deferred' = [deferred EXCEPT ![r] = IF c.action = "replace" THEN @ \cup {c} ELSE @]
    BY <1>12 DEF Verify
  <2>2. /\ todo'[r] = todo[r] \ {c}
        /\ deferred'[r] = IF c.action = "replace" THEN deferred[r] \cup {c} ELSE deferred[r]
        /\ pc[r] = "wait" /\ pc'[r] = "rollout" /\ plan' = plan
    BY <1>12, <2>1 DEF Verify
  <2>3. Calm(r)
    BY <1>12, CalmMoves
  <2>4. Ahead(r)' = Ahead(r)
    <3>1. todo[r] \in SUBSET Change
      OBVIOUS
    <3>2. \A d \in todo[r] : First(todo[r], d) <=> d = c
      BY <2>1, <3>1, FirstIsOne
    <3>. QED
      BY <2>2, <3>2 DEF Ahead
  <2>5. c.action # "delete"
    BY <1>0, <2>1
  <2>6. Doomed(r)' = Doomed(r) /\ Leaving(deferred[r]) \subseteq Leaving(deferred'[r])
    BY <2>2, <2>5 DEF Doomed, Leaving
  <2>7. SyncOf(r)'
    BY <1>0, <2>2, <2>3, <2>4, <2>6, CalmKeepsSync
  <2>. QED
    BY <1>0, <2>2, <2>7
<1>13. CASE DeleteOld(r)
  <2>1. SyncOf(r)'
    BY <1>13, DeleteSyncs
  <2>2. pc'[r] # "done" /\ deferred'[r] \subseteq deferred[r] /\ todo' = todo
    BY <1>13 DEF DeleteOld
  <2>. QED
    BY <1>0, <2>1, <2>2
<1>14. CASE \/ PlanFails(r) \/ ReleaseCreateFails(r) \/ ReleaseCleanupFails(r)
            \/ CreateFails(r) \/ GetMachineFails(r) \/ UpdateFails(r) \/ VerifyFails(r)
            \/ DeleteOldFails(r) \/ Undo(r) \/ UndoFails(r) \/ RolledBack(r) \/ Crash(r)
  <2>1. deferred' = deferred /\ todo' = todo /\ pc'[r] \in {"failed", "rollback", "crashed"}
    BY <1>14 DEF PlanFails, ReleaseCreateFails, ReleaseCleanupFails, CreateFails, GetMachineFails,
       UpdateFails, VerifyFails, DeleteOldFails, Undo, UndoFails, RolledBack, Crash
  <2>. QED
    BY <1>1, <2>1
<1>. QED
  BY <1>0, <1>3, <1>4, <1>5, <1>6, <1>7, <1>8, <1>9, <1>10, <1>11, <1>12, <1>13, <1>14,
     NothingVanishes
  DEF Next, Advance, ReleaseStep, RolloutStep, RollbackStep

(***************************************************************************)
(* Fly has told the region of every machine the app starts with.           *)
(***************************************************************************)
Reported == \A f \in InitialFleets : \A id \in DOMAIN f : f[id].region # NoRegion

PlanInv == TypeInv /\ ManagedInv /\ WedgeInv /\ FiniteInv /\ RegionsKnown /\ SyncInv

LEMMA PlanInvariant ==
    ASSUME SoleActor, Reported
    PROVE  Spec => []PlanInv
<1>1. Init => PlanInv
  <2>. SUFFICES ASSUME Init PROVE PlanInv
    OBVIOUS
  <2>1. FiniteInv
    BY ConstantsAssumption DEF Init, FiniteInv
  <2>2. RegionsKnown
    BY DEF Init, Reported, RegionsKnown
  <2>3. SyncInv
    BY DEF Init, SyncInv, Following
  <2>. QED
    BY <2>1, <2>2, <2>3, TypeInit, ManagedInit, WedgeInit DEF PlanInv
<1>2. PlanInv /\ [Next]_vars => PlanInv'
  <2>. SUFFICES ASSUME PlanInv, [Next]_vars PROVE PlanInv'
    OBVIOUS
  <2>1. TypeInv' /\ ManagedInv' /\ WedgeInv'
    BY TypeStep, ManagedStep, WedgeStep DEF PlanInv, WedgeInv
  <2>2. FiniteInv' /\ RegionsKnown'
    BY FiniteStep, RegionsStep DEF PlanInv
  <2>3. SyncInv'
    BY SyncStep DEF PlanInv, SyncInv
  <2>. QED
    BY <2>1, <2>2, <2>3 DEF PlanInv
<1>. QED
  BY <1>1, <1>2, PTL DEF Spec

LEMMA PlanIsSized ==
    ASSUME TypeInv, NEW r \in Runners, plan[r] \in Plans
    PROVE  /\ Sized(plan[r].groups)
           /\ \A g \in DOMAIN plan[r].groups :
                plan[r].groups[g].min \in Nat /\ plan[r].groups[g].max \in Nat
<1>. DEFINE p == plan[r].groups
<1>1. Valid(plan[r])
  BY ConstantsAssumption
<1>2. DOMAIN p \subseteq GroupNames /\ \A g \in DOMAIN p : p[g] \in GroupSpec
  BY <1>1 DEF Valid
<1>3. \A g \in DOMAIN p : p[g].min \in Nat /\ p[g].max \in Nat
  BY <1>2 DEF GroupSpec
<1>4. DOMAIN p \subseteq Int
  BY <1>2, ConstantsAssumption
<1>. QED
  BY <1>3, <1>4 DEF Sized

(***************************************************************************)
(* With no other actor, after an apply that succeeded the planner finds    *)
(* nothing left to do, for every plan and whatever was left behind.        *)
(***************************************************************************)
THEOREM ApplyIsIdempotent ==
    ASSUME SoleActor, Reported
    PROVE  Spec => []SuccessIsInSync
<1>1. PlanInv => SuccessIsInSync
  <2>. SUFFICES ASSUME PlanInv, NEW r \in Runners, pc[r] = "done"
                PROVE  InSync(plan[r].groups, fleet)
    BY DEF SuccessIsInSync
  <2>. DEFINE p == plan[r].groups
  <2>. USE DEF PlanInv
  <2>1. /\ SyncOf(r) /\ todo[r] = {} /\ deferred[r] = {}
    BY DEF SyncInv
  <2>2. /\ Present(r) = DOMAIN fleet /\ Doomed(r) = {} /\ Ahead(r) = {} /\ Updating(r) = {}
    BY <2>1 DEF Present, OwnRelease, Doomed, Ahead, Updating, Leaving
  <2>3. /\ Sized(p) /\ \A g \in DOMAIN p : p[g].min \in Nat /\ p[g].max \in Nat
    BY PlanIsSized DEF TypeInv, TypeOK, LocalsOK
  <2>4. \A m \in DOMAIN fleet :
            /\ fleet[m].group \in DOMAIN p \cup {NoGroup}
            /\ fleet[m].group \in DOMAIN p => UpToDate(fleet[m], p[fleet[m].group])
    BY <2>1, <2>2 DEF SyncOf, OrphansGo, RestUpToDate, Leaving
  <2>5. ASSUME NEW g \in DOMAIN p PROVE Cardinality(Members(fleet, g)) \in p[g].min .. p[g].max
    <3>1. Staying(r, g) = Members(fleet, g) /\ Coming(Ahead(r), g) = {}
      BY <2>2 DEF Staying, Members, Coming
    <3>2. /\ IsFiniteSet(Members(fleet, g))
          /\ Cardinality(Members(fleet, g)) + Cardinality({}) \in p[g].min .. p[g].max
      BY <2>1, <3>1 DEF SyncOf, CountsFit, Count
    <3>3. Cardinality({}) = 0 /\ Cardinality(Members(fleet, g)) \in Nat
      BY <3>2, FS_EmptySet, FS_CardinalityType
    <3>. QED
      BY <2>3, <3>2, <3>3
  <2>6. DOMAIN fleet \subseteq Int /\ IsFiniteSet(DOMAIN fleet)
    BY ConstantsAssumption DEF TypeInv, TypeOK, FleetOK, FiniteInv
  <2>. QED
    BY <2>3, <2>4, <2>5, <2>6, NothingToDo
<1>. QED
  BY <1>1, PlanInvariant, PTL

(***************************************************************************)
(* With no other actor, an old machine goes only while every group has its *)
(* minimum of machines in the desired configuration without it.            *)
(***************************************************************************)
THEOREM CapacityIsThereFirst ==
    ASSUME SoleActor, Reported
    PROVE  Spec => CapacityBeforeDelete
<1>. DEFINE Enough(r, g) ==
        Cardinality({m \in Members(fleet', g) : UpToDate(fleet'[m], plan[r].groups[g])})
            >= plan[r].groups[g].min
<1>1. PlanInv /\ [Next]_vars =>
        \A r \in Runners : pc[r] = "rollout" /\ deferred'[r] # deferred[r] =>
            \A g \in DOMAIN plan[r].groups : Enough(r, g)
  <2>. SUFFICES ASSUME PlanInv, [Next]_vars, NEW r \in Runners,
                       pc[r] = "rollout", deferred'[r] # deferred[r],
                       NEW g \in DOMAIN plan[r].groups
                PROVE  Enough(r, g)
    OBVIOUS
  <2>. DEFINE p == plan[r].groups
              U == {m \in Members(fleet', g) : UpToDate(fleet'[m], p[g])}
  <2>. USE DEF PlanInv
  <2>1. DeleteOld(r)
    <3>1. \A s \in Runners : s = r
      BY DEF SoleActor
    <3>2. deferred' # deferred
      OBVIOUS
    <3>. QED
      BY <3>1, <3>2 DEF Next, Advance, ReleaseStep, RolloutStep, RollbackStep, vars, locals, Start, MakePlan,
         PlanFails, ReleaseCreate, ReleaseCreateFails, ReleaseSucceeds, ReleaseFails, ReleaseCleanup,
         ReleaseCleanupFails, CreateMachine, CreateFails, GetMachine, GetMachineFails, UpdateMachine,
         UpdateFails, Verify, VerifyFails, DeleteOldFails, Succeed, Undo, UndoFails, RolledBack,
         Crash, Settle, Vanish, Idle
  <2>2. /\ SyncOf(r)' /\ SyncOf(r) /\ \A h : Staying(r, h)' = Staying(r, h)
    BY <2>1, DeleteSyncs DEF SyncInv, Following
  <2>3. /\ todo[r] = {} /\ todo'[r] = {} /\ pc'[r] = "rollout" /\ plan'[r] = plan[r]
    BY <2>1 DEF DeleteOld
  <2>4. /\ Ahead(r) = {} /\ Ahead(r)' = {} /\ Updating(r)' = {}
        /\ Present(r)' = DOMAIN fleet'
    BY <2>3 DEF Ahead, Updating, Present, OwnRelease
  <2>5. Staying(r, g)' \subseteq U
    <3>. SUFFICES ASSUME NEW m \in Staying(r, g)' PROVE m \in U
      OBVIOUS
    <3>1. m \in DOMAIN fleet' /\ fleet'[m].group = g /\ m \notin Doomed(r)'
      BY <2>4 DEF Staying
    <3>2. UpToDate(fleet'[m], p[g])
      BY <2>2, <2>3, <2>4, <3>1 DEF SyncOf, RestUpToDate
    <3>. QED
      BY <3>1, <3>2 DEF Members
  <2>6. /\ Cardinality(Staying(r, g)') >= p[g].min /\ Cardinality(Staying(r, g)') \in Nat
    <3>1. /\ IsFiniteSet(Staying(r, g)) /\ Coming(Ahead(r), g) = {}
          /\ Cardinality(Staying(r, g)) + Cardinality(Coming(Ahead(r), g)) \in p[g].min .. p[g].max
      BY <2>2, <2>4 DEF SyncOf, CountsFit, Count, Coming
    <3>2. Cardinality(Coming(Ahead(r), g)) = 0 /\ Cardinality(Staying(r, g)) \in Nat
      BY <3>1, FS_EmptySet, FS_CardinalityType
    <3>3. p[g].min \in Nat /\ p[g].max \in Nat
      BY PlanIsSized DEF TypeInv, TypeOK, LocalsOK
    <3>. QED
      BY <2>2, <3>1, <3>2, <3>3
  <2>7. /\ IsFiniteSet(U) /\ Cardinality(U) \in Nat
        /\ Cardinality(Staying(r, g)') <= Cardinality(U)
    <3>1. IsFiniteSet(DOMAIN fleet')
      BY FiniteStep DEF FiniteInv
    <3>2. IsFiniteSet(U)
      BY <3>1, FS_Subset DEF Members
    <3>. QED
      BY <2>5, <3>2, FS_Subset, FS_CardinalityType
  <2>8. p[g].min \in Nat
    BY PlanIsSized DEF TypeInv, TypeOK, LocalsOK
  <2>. QED
    <3>. HIDE DEF U
    <3>1. Cardinality(U) >= p[g].min
      BY <2>6, <2>7, <2>8
    <3>. QED
      BY <3>1 DEF U
<1>2. [][PlanInv /\ [Next]_vars]_vars => CapacityBeforeDelete
  BY <1>1, PTL DEF CapacityBeforeDelete
<1>. QED
  BY <1>1, PlanInvariant, PTL DEF Spec, CapacityBeforeDelete
-----------------------------------------------------------------------------
(***************************************************************************)
(* What an invocation wrote stays and stays healthy: it is none of the     *)
(* machines still to be deleted, an update is none of them either, and     *)
(* only the machine being waited for may not be passing yet.               *)
(***************************************************************************)
Marked(r) == Leaving(todo[r]) \cup {c.id : c \in deferred[r]}

FreshOf(r) ==
    /\ pc[r] \in Following => Updating(r) \cap Marked(r) = {}
    /\ pc[r] \in Following \cup {"done"} =>
        \A m \in written[r] :
            /\ m \in DOMAIN fleet \ Marked(r)
            /\ fleet[m].health = "passing" \/ (pc[r] = "wait" /\ m = target[r])

FreshInv == \A r \in Runners : FreshOf(r)

\* The plan just made marks a machine for one thing only.
LEMMA PlanIsFresh ==
    ASSUME TypeInv, FiniteInv, WrittenInv, NEW r \in Runners, MakePlan(r)
    PROVE  FreshOf(r)'
<1>. DEFINE p == plan[r].groups
            changes == Diff(p, fleet)
<1>1. /\ plan[r] \in Plans /\ pc[r] = "list" /\ pc'[r] \in {"release", "rollout"}
      /\ todo'[r] = {c \in changes : c.action \notin {"noop", "delete"}}
      /\ deferred'[r] = {c \in changes : c.action = "delete"}
      /\ written' = written
  BY DEF MakePlan, TypeInv, TypeOK, LocalsOK, Goto
<1>2. IsFiniteSet(DOMAIN fleet) /\ Sized(p)
  BY <1>1, PlanIsSized DEF FiniteInv
<1>3. \A c, d \in changes : c.action # "create" /\ d.action # "create" /\ c.id = d.id => c = d
  BY <1>2, DiffChoosesOne
<1>. HIDE DEF changes
<1>4. Updating(r)' \cap Marked(r)' = {}
  <2>. SUFFICES ASSUME NEW m \in Updating(r)', m \in Marked(r)' PROVE FALSE
    OBVIOUS
  <2>1. PICK c \in changes : c.action = "update" /\ c.id = m
    BY <1>1 DEF Updating, Ahead
  <2>2. PICK d \in changes : d.action \in {"delete", "replace"} /\ d.id = m
    BY <1>1 DEF Marked, Leaving
  <2>. QED
    BY <1>3, <2>1, <2>2
<1>5. written'[r] = {}
  BY <1>1 DEF WrittenInv, Early
<1>. QED
  BY <1>4, <1>5 DEF FreshOf

LEMMA FreshStep ==
    ASSUME SoleActor, TypeInv, ManagedInv, WedgeInv, FiniteInv, WrittenInv, FreshInv,
           [Next]_vars, NEW r \in Runners
    PROVE  FreshOf(r)'
<1>. USE DEF TypeInv, TypeOK, LocalsOK, HistoryOK, Goto, RollBack, Following
<1>0. /\ FreshOf(r)
      /\ \A s \in Runners : s = r
      /\ \A m \in Marked(r) : m \in used
      /\ WrittenInv'
  <2>1. \A m \in Marked(r) : Handle(r, m)
    BY DEF Marked, Leaving, Handle
  <2>2. \A m \in Marked(r) : m \in used
    BY <2>1 DEF ManagedInv, ManagedOrGone
  <2>. QED
    BY <2>2, WrittenStep DEF FreshInv, SoleActor
\* The invocation stops following its plan.
<1>1. ASSUME pc'[r] \notin Following \cup {"done"} PROVE FreshOf(r)'
  BY <1>1 DEF FreshOf
\* It goes on, with the changes it had, and has written nothing.
<1>2. ASSUME written'[r] = {}, UNCHANGED <<todo, deferred>>,
             pc[r] \in Following, "wait" \notin {pc[r], pc'[r]}
      PROVE  FreshOf(r)'
  <2>1. Updating(r)' = Updating(r) /\ Marked(r)' = Marked(r)
    BY <1>2 DEF Updating, Ahead, Marked
  <2>. QED
    BY <1>0, <1>2, <2>1 DEF FreshOf
\* The machines it wrote stay as they are.
<1>3. ASSUME UNCHANGED <<todo, deferred, written>>, "wait" \notin {pc[r], pc'[r]},
             pc[r] \in Following, \A m \in written[r] : m \in DOMAIN fleet' /\ fleet'[m] = fleet[m]
      PROVE  FreshOf(r)'
  <2>1. Updating(r)' = Updating(r) /\ Marked(r)' = Marked(r)
    BY <1>3 DEF Updating, Ahead, Marked
  <2>. QED
    BY <1>0, <1>3, <2>1 DEF FreshOf
<1>4. CASE UNCHANGED vars
  <2>1. UNCHANGED <<fleet, pc, todo, deferred, target, written>>
    BY <1>4 DEF vars, fly, locals, history
  <2>2. Updating(r)' = Updating(r) /\ Marked(r)' = Marked(r)
    BY <2>1 DEF Updating, Ahead, Marked
  <2>. QED
    BY <1>0, <2>1, <2>2 DEF FreshOf
<1>5. ASSUME NEW id \in MachineIds, Settle(id) PROVE FreshOf(r)'
  <2>1. UNCHANGED <<pc, todo, deferred, target, written>> /\ DOMAIN fleet' = DOMAIN fleet
    BY <1>5 DEF Settle, locals, history
  <2>2. \A m \in DOMAIN fleet : fleet[m].health = "passing" => fleet'[m].health = "passing"
    <3>1. \A m \in DOMAIN fleet \ {id} : fleet'[m] = fleet[m]
      BY <1>5 DEF Settle
    <3>. QED
      BY <1>5, <3>1 DEF Settle
  <2>3. Updating(r)' = Updating(r) /\ Marked(r)' = Marked(r)
    BY <2>1 DEF Updating, Ahead, Marked
  <2>. QED
    BY <1>0, <2>1, <2>2, <2>3 DEF FreshOf
<1>6. ASSUME NEW p \in Plans, Start(r, p) PROVE FreshOf(r)'
  BY <1>1, <1>6 DEF Start
<1>7. CASE MakePlan(r)
  BY <1>7, PlanIsFresh
<1>8. CASE ReleaseCreate(r) \/ ReleaseSucceeds(r) \/ ReleaseFails(r) \/ ReleaseCleanup(r)
  <2>1. /\ pc[r] \in Early \ {"list"} /\ pc'[r] \in Early \cup {"rollout", "failed"}
        /\ UNCHANGED <<todo, deferred, written>>
    BY <1>8 DEF ReleaseCreate, ReleaseSucceeds, ReleaseFails, ReleaseCleanup, history, Early
  <2>2. written'[r] = {}
    BY <2>1 DEF WrittenInv
  <2>. QED
    BY <1>2, <2>1, <2>2 DEF Early
<1>9. CASE CreateMachine(r)
  <2>1. PICK c \in todo[r], id \in Offered(used) :
          Hand(id, GroupMachine(plan[r], c)) /\ written' = [written EXCEPT ![r] = @ \cup {id}]
            /\ target' = [target EXCEPT ![r] = id]
    BY <1>9 DEF CreateMachine
  <2>2. /\ pc[r] = "rollout" /\ pc'[r] = "wait" /\ UNCHANGED <<todo, deferred>>
        /\ target'[r] = id /\ written'[r] = written[r] \cup {id}
    BY <1>9, <2>1 DEF CreateMachine
  <2>3. /\ id \notin used /\ id \notin DOMAIN fleet /\ DOMAIN fleet' = DOMAIN fleet \cup {id}
        /\ \A m \in DOMAIN fleet : fleet'[m] = fleet[m]
    BY <2>1, OfferedAreNew DEF FleetOK, Hand, Put
  <2>4. Updating(r)' \subseteq Updating(r) /\ Marked(r)' = Marked(r)
    BY <2>2 DEF Updating, Ahead, Marked
  <2>5. Updating(r)' \cap Marked(r)' = {}
    BY <1>0, <2>2, <2>4 DEF FreshOf
  <2>6. \A m \in written[r] : m \in DOMAIN fleet \ Marked(r) /\ fleet[m].health = "passing"
    BY <1>0, <2>2 DEF FreshOf
  <2>. QED
    BY <1>0, <2>2, <2>3, <2>4, <2>5, <2>6 DEF FreshOf
<1>10. CASE UpdateMachine(r)
  <2>1. PICK c \in todo[r] :
          First(todo[r], c) /\ fleet' = Put(fleet, target[r], Updated(fleet[target[r]], plan[r], c))
    BY <1>10 DEF UpdateMachine
  <2>2. /\ pc[r] = "update" /\ pc'[r] = "wait" /\ UNCHANGED <<todo, deferred, target>>
        /\ written'[r] = written[r] \cup {target[r]} /\ target[r] \in DOMAIN fleet
    BY <1>10 DEF UpdateMachine, CanUpdate
  <2>3. DOMAIN fleet' = DOMAIN fleet /\ \A m \in DOMAIN fleet \ {target[r]} : fleet'[m] = fleet[m]
    <3>1. DOMAIN fleet' = DOMAIN fleet \cup {target[r]}
      BY <2>1 DEF Put
    <3>2. DOMAIN fleet' = DOMAIN fleet
      BY <2>2, <3>1
    <3>. QED
      BY <2>1, <3>2 DEF Put
  <2>4. target[r] \in Updating(r)
    <3>1. UpdateOf(r, target[r])
      BY <2>2 DEF WedgeInv, WedgeOf
    <3>2. Ahead(r) = todo[r]
      BY <2>2 DEF Ahead
    <3>. QED
      BY <3>1, <3>2 DEF UpdateOf, Updating
  <2>5. Updating(r)' \subseteq Updating(r) /\ Marked(r)' = Marked(r)
    BY <2>2 DEF Updating, Ahead, Marked
  <2>6. Updating(r) \cap Marked(r) = {}
    BY <1>0, <2>2 DEF FreshOf
  <2>7. \A m \in written[r] : m \in DOMAIN fleet \ Marked(r) /\ fleet[m].health = "passing"
    BY <1>0, <2>2 DEF FreshOf
  <2>. QED
    BY <2>2, <2>3, <2>4, <2>5, <2>6, <2>7 DEF FreshOf
<1>11. CASE Verify(r)
  <2>1. PICK c \in todo[r] :
          /\ First(todo[r], c)
          /\ todo' = [todo EXCEPT ![r] = @ \ {c}]
          /\ deferred' = [deferred EXCEPT ![r] = IF c.action = "replace" THEN @ \cup {c} ELSE @]
    BY <1>11 DEF Verify
  <2>2. /\ todo'[r] = todo[r] \ {c}
        /\ deferred'[r] = IF c.action = "replace" THEN deferred[r] \cup {c} ELSE deferred[r]
        /\ pc[r] = "wait" /\ pc'[r] = "rollout" /\ UNCHANGED <<fleet, written>>
        /\ Passing(target[r])
    BY <1>11, <2>1 DEF Verify, fly
  <2>3. Updating(r)' = Updating(r)
    <3>1. todo[r] \in SUBSET Change
      OBVIOUS
    <3>2. \A d \in todo[r] : First(todo[r], d) <=> d = c
      BY <2>1, <3>1, FirstIsOne
    <3>3. Ahead(r)' = Ahead(r)
      BY <2>2, <3>2 DEF Ahead
    <3>. QED
      BY <3>3 DEF Updating
  <2>4. Marked(r)' \subseteq Marked(r)
    <3>. SUFFICES ASSUME NEW m \in Marked(r)' PROVE m \in Marked(r)
      OBVIOUS
    <3>1. CASE m \in Leaving(todo'[r])
      BY <2>2, <3>1 DEF Marked, Leaving
    <3>2. CASE m \in {d.id : d \in deferred'[r]}
      BY <2>1, <2>2, <3>2 DEF Marked, Leaving
    <3>. QED
      BY <3>1, <3>2 DEF Marked
  <2>5. \A m \in written[r] : m \in DOMAIN fleet \ Marked(r) /\ fleet[m].health = "passing"
    BY <1>0, <2>2 DEF FreshOf, Passing
  <2>. QED
    BY <1>0, <2>2, <2>3, <2>4, <2>5 DEF FreshOf
<1>12. CASE DeleteOld(r)
  <2>1. PICK c \in deferred[r] :
          Remove(c.id) /\ deferred' = [deferred EXCEPT ![r] = @ \ {c}]
    BY <1>12 DEF DeleteOld
  <2>2. /\ pc[r] = "rollout" /\ UNCHANGED <<pc, todo, written>>
        /\ deferred'[r] = deferred[r] \ {c}
        /\ DOMAIN fleet' = DOMAIN fleet \ {c.id}
        /\ \A m \in DOMAIN fleet' : fleet'[m] = fleet[m]
    BY <1>12, <2>1 DEF DeleteOld, Remove, Drop, history
  <2>3. Updating(r)' = Updating(r) /\ Marked(r)' \subseteq Marked(r) /\ c.id \in Marked(r)
    BY <2>2 DEF Updating, Ahead, Marked
  <2>4. Updating(r) \cap Marked(r) = {}
    BY <1>0, <2>2 DEF FreshOf
  <2>5. \A m \in written[r] : m \in DOMAIN fleet \ Marked(r) /\ fleet[m].health = "passing"
    BY <1>0, <2>2 DEF FreshOf
  <2>. QED
    BY <2>2, <2>3, <2>4, <2>5 DEF FreshOf
<1>13. CASE GetMachine(r) \/ Succeed(r)
  <2>1. /\ UNCHANGED <<fleet, todo, deferred, written>>
        /\ pc[r] = "rollout" /\ pc'[r] \in {"update", "done"}
    BY <1>13 DEF GetMachine, Succeed, fly, history
  <2>2. \A m \in written[r] : m \in DOMAIN fleet
    BY <1>0, <2>1 DEF FreshOf
  <2>. QED
    BY <1>3, <2>1, <2>2
<1>14. CASE \/ PlanFails(r) \/ ReleaseCreateFails(r) \/ ReleaseCleanupFails(r)
            \/ CreateFails(r) \/ GetMachineFails(r) \/ UpdateFails(r) \/ VerifyFails(r)
            \/ DeleteOldFails(r) \/ Undo(r) \/ UndoFails(r) \/ RolledBack(r) \/ Crash(r)
  <2>1. pc'[r] \in {"failed", "rollback", "crashed"}
    BY <1>14 DEF PlanFails, ReleaseCreateFails, ReleaseCleanupFails, CreateFails, GetMachineFails,
       UpdateFails, VerifyFails, DeleteOldFails, Undo, UndoFails, RolledBack, Crash
  <2>. QED
    BY <1>1, <2>1
<1>. QED
  BY <1>0, <1>4, <1>5, <1>6, <1>7, <1>8, <1>9, <1>10, <1>11, <1>12, <1>13, <1>14,
     NothingVanishes
  DEF Next, Advance, ReleaseStep, RolloutStep, RollbackStep

\* How far SuccessMeansHealthy, which a run refutes, holds (docs/migration.md:75): with
\* no other actor, every machine a successful apply created or updated
\* (reconcile.go:93-171) is there and healthy when it returns, and as long as no
\* apply starts; the sick ones are those it found as planned and left alone.
THEOREM WrittenMachinesAreHealthy ==
    ASSUME SoleActor
    PROVE  Spec =>
            [](\A r \in Runners : pc[r] = "done" =>
                \A m \in written[r] : m \in DOMAIN fleet /\ fleet[m].health = "passing")
<1>. DEFINE IInv == TypeInv /\ ManagedInv /\ WedgeInv /\ FiniteInv /\ WrittenInv /\ FreshInv
            Good == \A r \in Runners : pc[r] = "done" =>
                        \A m \in written[r] : m \in DOMAIN fleet /\ fleet[m].health = "passing"
<1>1. Init => IInv
  <2>1. Init => FiniteInv
    BY ConstantsAssumption DEF Init, FiniteInv
  <2>2. Init => FreshInv
    BY DEF Init, FreshInv, FreshOf, Following
  <2>. QED
    BY <2>1, <2>2, TypeInit, ManagedInit, WedgeInit, WrittenInit
<1>2. IInv /\ [Next]_vars => IInv'
  <2>. SUFFICES ASSUME IInv, [Next]_vars PROVE IInv'
    OBVIOUS
  <2>1. FreshInv'
    BY FreshStep DEF FreshInv
  <2>2. WedgeInv'
    BY WedgeStep DEF WedgeInv
  <2>. QED
    BY <2>1, <2>2, TypeStep, ManagedStep, FiniteStep, WrittenStep
<1>3. IInv => Good
  BY DEF FreshInv, FreshOf
<1>. QED
  BY <1>1, <1>2, <1>3, PTL DEF Spec

-----------------------------------------------------------------------------
(***************************************************************************)
(* Until it deletes old machines, an invocation takes no machine away from *)
(* a group but those it added itself: the others only grow in number.      *)
(***************************************************************************)
Others(r, g) == {m \in Present(r) \ created[r] : fleet[m].group = g}

Unpruned(r) == pc[r] \in Following \cup {"rollback", "failed"} /\ todo[r] # {}

CapacityOf(r) ==
    /\ pc[r] = "list" => DOMAIN before[r] = {}
    /\ Unpruned(r) =>
        \A g \in DOMAIN before[r] :
            before[r][g] \in Nat /\ Cardinality(Others(r, g)) >= before[r][g]

CapacityInv == DOMAIN before = Runners /\ \A r \in Runners : CapacityOf(r)

LEMMA OthersFinite ==
    ASSUME FiniteInv, NEW r, NEW g
    PROVE  IsFiniteSet(Others(r, g))
<1>1. Others(r, g) \subseteq DOMAIN fleet
  BY DEF Others, Present
<1>. QED
  BY <1>1, FS_Subset DEF FiniteInv

LEMMA CountNeverFalls ==
    ASSUME FiniteInv, FiniteInv', NEW r \in Runners, CapacityOf(r), Unpruned(r),
           before'[r] = before[r], pc'[r] # "list",
           \A g : Others(r, g) \subseteq Others(r, g)'
    PROVE  CapacityOf(r)'
<1>1. ASSUME NEW g \in DOMAIN before[r]
      PROVE  before[r][g] \in Nat /\ Cardinality(Others(r, g)') >= before[r][g]
  <2>1. IsFiniteSet(Others(r, g)) /\ IsFiniteSet(Others(r, g)')
    <3>1. Others(r, g)' \subseteq DOMAIN fleet'
      BY DEF Others, Present
    <3>. QED
      BY <3>1, OthersFinite, FS_Subset DEF FiniteInv
  <2>2. Cardinality(Others(r, g)) <= Cardinality(Others(r, g)')
    BY <2>1, FS_Subset
  <2>3. Cardinality(Others(r, g)) \in Nat /\ Cardinality(Others(r, g)') \in Nat
    BY <2>1, FS_CardinalityType
  <2>. QED
    BY <2>2, <2>3 DEF CapacityOf
<1>. QED
  BY <1>1 DEF CapacityOf

\* The plan just made counts the groups as they are.
LEMMA PlanCounts ==
    ASSUME TypeInv, FiniteInv, WrittenInv, DOMAIN before = Runners, NEW r \in Runners, MakePlan(r)
    PROVE  CapacityOf(r)'
<1>1. /\ pc[r] = "list" /\ pc'[r] \in {"release", "rollout"}
      /\ before'[r] = [g \in DOMAIN plan[r].groups |-> Cardinality(Members(fleet, g))]
      /\ UNCHANGED <<fleet, created>> /\ created[r] = {}
  BY DEF MakePlan, TypeInv, TypeOK, LocalsOK, Goto, fly, WrittenInv, Early
<1>2. \A g : Others(r, g)' = Members(fleet, g)
  BY <1>1 DEF Others, Present, OwnRelease, Members
<1>3. \A g : Cardinality(Members(fleet, g)) \in Nat
  <2>1. \A g : Members(fleet, g) \subseteq DOMAIN fleet
    BY DEF Members
  <2>. QED
    BY <2>1, FS_Subset, FS_CardinalityType DEF FiniteInv
<1>. QED
  BY <1>1, <1>2, <1>3 DEF CapacityOf

\* No step of an invocation that has not begun to delete takes one of them away.
LEMMA OthersRemain ==
    ASSUME SoleActor, TypeInv, ManagedInv, WedgeInv, SyncInv, WrittenInv,
           NEW r \in Runners, Advance(r), pc[r] # "list", todo'[r] # {}
    PROVE  /\ \A g : Others(r, g) \subseteq Others(r, g)'
           /\ todo[r] # {} /\ pc'[r] # "list"
           /\ pc[r] \in Following \cup {"rollback"}
           /\ UNCHANGED before
<1>. USE DEF TypeInv, TypeOK, LocalsOK, Goto, RollBack, Following
<1>. DEFINE Stays == \A m \in Present(r) \ created[r] :
                        m \in Present(r)' \ created'[r] /\ fleet'[m].group = fleet[m].group
            Going == /\ todo[r] # {} /\ pc'[r] # "list"
                     /\ pc[r] \in Following \cup {"rollback"}
                     /\ UNCHANGED before
<1>. SUFFICES Stays /\ Going
  BY DEF Others
<1>2. WedgeOf(r) /\ TodoOK
  BY DEF WedgeInv
<1>3. ASSUME UNCHANGED <<fleet, created>>, Present(r)' = Present(r) PROVE Stays
  BY <1>3
\* The release machine.
<1>5. CASE ReleaseCreate(r) \/ ReleaseSucceeds(r) \/ ReleaseFails(r) \/ ReleaseCleanup(r)
  <2>1. Calm(r)
    BY <1>5, CalmMoves
  <2>2. Going /\ created' = created
    BY <1>5 DEF ReleaseCreate, ReleaseSucceeds, ReleaseFails, ReleaseCleanup, history
  <2>. QED
    BY <2>1, <2>2 DEF Calm
<1>6. CASE ReleaseCreateFails(r)
  <2>1. Going /\ created' = created /\ pc[r] = "release" /\ pc'[r] = "failed"
    BY <1>6 DEF ReleaseCreateFails, history
  <2>2. \/ UNCHANGED fleet
        \/ \E id \in Offered(used), g \in DOMAIN plan[r].groups : Hand(id, ReleaseMachine(plan[r], g))
    BY <1>6 DEF ReleaseCreateFails, fly
  <2>3. DOMAIN fleet \subseteq DOMAIN fleet' /\ \A m \in DOMAIN fleet : fleet'[m] = fleet[m]
    BY <2>2, OfferedAreNew DEF FleetOK, Hand, Put
  <2>4. Present(r) = DOMAIN fleet /\ Present(r)' = DOMAIN fleet'
    BY <2>1 DEF Present, OwnRelease
  <2>. QED
    BY <2>1, <2>3, <2>4
<1>7. CASE ReleaseCleanupFails(r)
  <2>1. /\ Going /\ created' = created
        /\ pc[r] \in {"releaseCleanup", "releaseAbort"} /\ pc'[r] = "failed"
    BY <1>7 DEF ReleaseCleanupFails, history
  <2>2. UNCHANGED fleet \/ Remove(target[r])
    BY <1>7 DEF ReleaseCleanupFails, fly
  <2>3. \A m \in DOMAIN fleet \ {target[r]} : m \in DOMAIN fleet' /\ fleet'[m] = fleet[m]
    BY <2>2 DEF Remove, Drop
  <2>4. Present(r) = DOMAIN fleet \ {target[r]} /\ Present(r)' = DOMAIN fleet'
    BY <2>1 DEF Present, OwnRelease
  <2>. QED
    BY <2>1, <2>3, <2>4
\* The rollout.
<1>8. CASE CreateMachine(r)
  <2>1. PICK c \in todo[r], id \in Offered(used) :
          Hand(id, GroupMachine(plan[r], c)) /\ created' = [created EXCEPT ![r] = @ \cup {id}]
    BY <1>8 DEF CreateMachine
  <2>2. Going /\ created'[r] = created[r] \cup {id} /\ pc[r] = "rollout" /\ pc'[r] = "wait"
    BY <1>8, <2>1 DEF CreateMachine
  <2>3. id \notin DOMAIN fleet /\ DOMAIN fleet \subseteq DOMAIN fleet'
        /\ \A m \in DOMAIN fleet : fleet'[m] = fleet[m]
    BY <2>1, OfferedAreNew DEF FleetOK, Hand, Put
  <2>4. Present(r) = DOMAIN fleet /\ Present(r)' = DOMAIN fleet'
    BY <2>2 DEF Present, OwnRelease
  <2>. QED
    BY <2>2, <2>3, <2>4
<1>9. CASE CreateFails(r)
  <2>1. Going /\ created' = created /\ pc[r] = "rollout" /\ pc'[r] = "rollback"
    BY <1>9 DEF CreateFails, history
  <2>2. \/ UNCHANGED fleet
        \/ \E c \in todo[r], id \in Offered(used) : Hand(id, GroupMachine(plan[r], c))
    BY <1>9 DEF CreateFails, fly
  <2>3. DOMAIN fleet \subseteq DOMAIN fleet' /\ \A m \in DOMAIN fleet : fleet'[m] = fleet[m]
    BY <2>2, OfferedAreNew DEF FleetOK, Hand, Put
  <2>4. Present(r) = DOMAIN fleet /\ Present(r)' = DOMAIN fleet'
    BY <2>1 DEF Present, OwnRelease
  <2>. QED
    BY <2>1, <2>3, <2>4
<1>10. CASE UpdateMachine(r) \/ UpdateFails(r)
  <2>1. /\ Going /\ created' = created /\ pc[r] = "update" /\ pc'[r] \in {"wait", "rollback"}
    BY <1>10 DEF UpdateMachine, UpdateFails, history
  <2>2. \/ UNCHANGED fleet
        \/ \E c \in todo[r] :
                First(todo[r], c) /\ fleet' = Put(fleet, target[r], Updated(fleet[target[r]], plan[r], c))
    BY <1>10 DEF UpdateMachine, UpdateFails
  <2>3. ASSUME NEW c \in todo[r], First(todo[r], c)
        PROVE  c.id = target[r] /\ fleet[c.id].group = c.group
    <3>1. PICK d \in todo[r] : First(todo[r], d) /\ d.action = "update" /\ d.id = target[r]
      BY <1>2, <2>1 DEF WedgeOf, UpdateOf
    <3>2. todo[r] \in SUBSET Change
      OBVIOUS
    <3>3. c = d
      BY <2>3, <3>1, <3>2, FirstIsOne
    <3>4. c \in Ahead(r) /\ c.action = "update"
      BY <2>1, <3>1, <3>3 DEF Ahead
    <3>5. UpdatesFit(r)
      BY <2>1 DEF SyncInv, SyncOf
    <3>. QED
      BY <3>1, <3>3, <3>4, <3>5 DEF UpdatesFit
  <2>4. \A m \in DOMAIN fleet : m \in DOMAIN fleet' /\ fleet'[m].group = fleet[m].group
    <3>1. CASE UNCHANGED fleet
      BY <3>1
    <3>2. ASSUME NEW c \in todo[r], First(todo[r], c),
                 fleet' = Put(fleet, target[r], Updated(fleet[target[r]], plan[r], c))
          PROVE  \A m \in DOMAIN fleet : m \in DOMAIN fleet' /\ fleet'[m].group = fleet[m].group
      <4>1. Updated(fleet[target[r]], plan[r], c).group = c.group
        BY DEF Updated
      <4>. QED
        BY <2>3, <3>2, <4>1 DEF Put
    <3>. QED
      BY <2>2, <3>1, <3>2
  <2>5. Present(r) = DOMAIN fleet /\ Present(r)' = DOMAIN fleet'
    BY <2>1 DEF Present, OwnRelease
  <2>. QED
    BY <2>1, <2>4, <2>5
<1>11. CASE GetMachine(r) \/ GetMachineFails(r) \/ VerifyFails(r)
  <2>1. /\ Going /\ UNCHANGED <<fleet, created>>
        /\ pc[r] \in {"rollout", "wait"} /\ pc'[r] \in {"update", "rollback"}
    BY <1>11 DEF GetMachine, GetMachineFails, VerifyFails, history, fly
  <2>2. Present(r)' = Present(r)
    BY <2>1 DEF Present, OwnRelease
  <2>. QED
    BY <1>3, <2>1, <2>2
<1>12. CASE Verify(r)
  <2>1. PICK c \in todo[r] : todo' = [todo EXCEPT ![r] = @ \ {c}]
    BY <1>12 DEF Verify
  <2>2. Going /\ UNCHANGED <<fleet, created>> /\ pc[r] = "wait" /\ pc'[r] = "rollout"
    BY <1>12, <2>1 DEF Verify, fly
  <2>3. Present(r)' = Present(r)
    BY <2>2 DEF Present, OwnRelease
  <2>. QED
    BY <1>3, <2>2, <2>3
<1>13. CASE DeleteOld(r) \/ DeleteOldFails(r) \/ Succeed(r)
  BY <1>13 DEF DeleteOld, DeleteOldFails, Succeed
\* The rollback.
<1>14. CASE Undo(r) \/ UndoFails(r)
  <2>1. PICK id \in undo[r] : UNCHANGED fleet \/ Remove(id)
    BY <1>14 DEF Undo, UndoFails, fly
  <2>2. Going /\ created' = created /\ pc[r] = "rollback" /\ pc' = pc
    BY <1>14 DEF Undo, UndoFails, history
  <2>3. id \in created[r]
    BY DEF WrittenInv
  <2>4. \A m \in DOMAIN fleet \ {id} : m \in DOMAIN fleet' /\ fleet'[m] = fleet[m]
    BY <2>1 DEF Remove, Drop
  <2>5. Present(r) = DOMAIN fleet /\ Present(r)' = DOMAIN fleet'
    BY <2>2 DEF Present, OwnRelease
  <2>. QED
    BY <2>2, <2>3, <2>4, <2>5
<1>15. CASE RolledBack(r)
  <2>1. Going /\ UNCHANGED <<fleet, created>> /\ pc[r] = "rollback" /\ pc'[r] = "failed"
    BY <1>15 DEF RolledBack, history, fly
  <2>2. Present(r)' = Present(r)
    BY <2>1 DEF Present, OwnRelease
  <2>. QED
    BY <1>3, <2>1, <2>2
<1>. HIDE DEF Stays, Going
<1>. QED
  BY <1>5, <1>6, <1>7, <1>8, <1>9, <1>10, <1>11, <1>12, <1>13, <1>14, <1>15
  DEF Advance, ReleaseStep, RolloutStep, RollbackStep, MakePlan, PlanFails

LEMMA CapacityStep ==
    ASSUME SoleActor, PlanInv, PlanInv', WrittenInv, CapacityInv, [Next]_vars
    PROVE  CapacityInv'
<1>. USE DEF PlanInv
<1>1. DOMAIN before' = Runners
  BY DEF CapacityInv, Next, Advance, ReleaseStep, RolloutStep, RollbackStep, Start, MakePlan,
     PlanFails, ReleaseCreate, ReleaseCreateFails, ReleaseSucceeds, ReleaseFails, ReleaseCleanup,
     ReleaseCleanupFails, CreateMachine, CreateFails, GetMachine, GetMachineFails, UpdateMachine,
     UpdateFails, Verify, VerifyFails, DeleteOld, DeleteOldFails, Succeed, Undo, UndoFails,
     RolledBack, Crash, Settle, Vanish, vars, history
<1>. SUFFICES ASSUME NEW r \in Runners PROVE CapacityOf(r)'
  BY <1>1 DEF CapacityInv
<1>2. CapacityOf(r) /\ DOMAIN before = Runners /\ \A s \in Runners : s = r
  BY DEF CapacityInv, SoleActor
<1>3. CASE UNCHANGED vars
  <2>1. UNCHANGED <<fleet, pc, todo, created, target, before>>
    BY <1>3 DEF vars, fly, locals, history
  <2>. QED
    BY <1>2, <2>1 DEF CapacityOf, Unpruned, Others, Present, OwnRelease
<1>4. ASSUME NEW p \in Plans, Start(r, p) PROVE CapacityOf(r)'
  <2>1. todo'[r] = {} /\ before'[r] = <<>>
    BY <1>2, <1>4 DEF Start, TypeInv, TypeOK, LocalsOK
  <2>. QED
    BY <2>1 DEF CapacityOf, Unpruned
<1>5. CASE MakePlan(r)
  BY <1>2, <1>5, PlanCounts
<1>6. CASE Crash(r)
  <2>1. pc'[r] = "crashed"
    BY <1>6 DEF Crash, Goto, TypeInv, TypeOK, LocalsOK
  <2>. QED
    BY <2>1 DEF CapacityOf, Unpruned, Following
<1>7. ASSUME Advance(r), pc[r] # "list" PROVE CapacityOf(r)'
  <2>1. CASE todo'[r] = {}
    <3>1. pc'[r] # "list"
      BY <1>7 DEF Advance, ReleaseStep, RolloutStep, RollbackStep, MakePlan,
         PlanFails, ReleaseCreate, ReleaseCreateFails, ReleaseSucceeds, ReleaseFails, ReleaseCleanup,
         ReleaseCleanupFails, CreateMachine, CreateFails, GetMachine, GetMachineFails, UpdateMachine,
         UpdateFails, Verify, VerifyFails, DeleteOld, DeleteOldFails, Succeed, Undo, UndoFails,
         RolledBack, Goto, RollBack, TypeInv, TypeOK, LocalsOK
    <3>. QED
      BY <2>1, <3>1 DEF CapacityOf, Unpruned
  <2>2. CASE todo'[r] # {}
    <3>1. /\ \A g : Others(r, g) \subseteq Others(r, g)'
          /\ todo[r] # {} /\ pc'[r] # "list" /\ UNCHANGED before
          /\ pc[r] \in Following \cup {"rollback"}
      BY <1>7, <2>2, OthersRemain
    <3>. QED
      BY <1>2, <3>1, CountNeverFalls DEF Unpruned
  <2>. QED
    BY <2>1, <2>2
<1>8. CASE PlanFails(r)
  <2>1. pc[r] = "list" /\ pc'[r] # "list" /\ UNCHANGED before
    BY <1>8 DEF PlanFails, Goto, TypeInv, TypeOK, LocalsOK, history
  <2>. QED
    BY <1>2, <2>1 DEF CapacityOf
<1>9. ASSUME NEW id \in MachineIds, Settle(id) PROVE CapacityOf(r)'
  <2>1. UNCHANGED <<pc, todo, before, created>> /\ Calm(r)
    BY <1>9, SettleIsCalm DEF locals, history
  <2>2. \A g : Others(r, g)' = Others(r, g)
    BY <2>1 DEF Calm, Others
  <2>. QED
    BY <1>2, <2>1, <2>2 DEF CapacityOf, Unpruned
<1>10. Advance(r) => MakePlan(r) \/ PlanFails(r) \/ pc[r] # "list"
  BY DEF Advance, ReleaseStep, RolloutStep, RollbackStep, ReleaseCreate, ReleaseCreateFails,
     ReleaseSucceeds, ReleaseFails, ReleaseCleanup, ReleaseCleanupFails, CreateMachine, CreateFails,
     GetMachine, GetMachineFails, UpdateMachine, UpdateFails, Verify, VerifyFails, DeleteOld,
     DeleteOldFails, Succeed, Undo, UndoFails, RolledBack
<1>. QED
  BY <1>2, <1>3, <1>4, <1>5, <1>6, <1>7, <1>8, <1>9, <1>10, NothingVanishes DEF Next

\* How far FailedApplyKeepsCapacity, which a run refutes, holds (reconcile.go:62-63):
\* with no other actor, an apply that fails before everything it was to write has been
\* verified - in the release command, in a create, an update or a wait - leaves each of
\* the plan's groups with at least as many machines as it found, whatever rollback
\* managed to delete; capacity is lost only by failing among the deletes.
THEOREM RolloutsKeepCapacity ==
    ASSUME SoleActor, Reported
    PROVE  Spec =>
            [](\A r \in Runners : pc[r] = "failed" /\ todo[r] # {} =>
                \A g \in DOMAIN before[r] : Cardinality(Members(fleet, g)) >= before[r][g])
<1>. DEFINE Good == \A r \in Runners : pc[r] = "failed" /\ todo[r] # {} =>
                        \A g \in DOMAIN before[r] : Cardinality(Members(fleet, g)) >= before[r][g]
<1>1. Init => WrittenInv /\ CapacityInv
  BY WrittenInit DEF Init, CapacityInv, CapacityOf, Unpruned
<1>2. PlanInv /\ PlanInv' /\ WrittenInv /\ CapacityInv /\ [Next]_vars => WrittenInv' /\ CapacityInv'
  BY WrittenStep, CapacityStep DEF PlanInv
<1>3. PlanInv /\ CapacityInv => Good
  <2>. SUFFICES ASSUME PlanInv, CapacityInv, NEW r \in Runners, pc[r] = "failed", todo[r] # {},
                       NEW g \in DOMAIN before[r]
                PROVE  Cardinality(Members(fleet, g)) >= before[r][g]
    OBVIOUS
  <2>1. Cardinality(Others(r, g)) >= before[r][g] /\ before[r][g] \in Nat
    BY DEF CapacityInv, CapacityOf, Unpruned
  <2>2. Others(r, g) \subseteq Members(fleet, g) /\ Members(fleet, g) \subseteq DOMAIN fleet
    BY DEF Others, Present, Members
  <2>3. IsFiniteSet(Members(fleet, g))
    BY <2>2, FS_Subset DEF PlanInv, FiniteInv
  <2>4. /\ Cardinality(Others(r, g)) <= Cardinality(Members(fleet, g))
        /\ Cardinality(Others(r, g)) \in Nat /\ Cardinality(Members(fleet, g)) \in Nat
    BY <2>2, <2>3, OthersFinite, FS_Subset, FS_CardinalityType DEF PlanInv
  <2>. QED
    BY <2>1, <2>4
<1>. QED
  BY <1>1, <1>2, <1>3, PlanInvariant, PTL DEF Spec

-----------------------------------------------------------------------------
(***************************************************************************)
(* What Terminates rests on.  How far an invocation has come: the stage it *)
(* is in, and within a stage the calls it has still to make - for a change *)
(* one call reads the machine, one writes it, one waits for it and one     *)
(* deletes the machine it replaces; in a rollback one for each machine.    *)
(***************************************************************************)
Rollout == {"rollout", "update", "wait"}

Stage(r) ==
    CASE pc[r] = "list" -> 6
      [] pc[r] = "release" -> 5
      [] pc[r] = "releaseExit" -> 4
      [] pc[r] \in {"releaseCleanup", "releaseAbort"} -> 3
      [] pc[r] \in Rollout -> 2
      [] pc[r] = "rollback" -> 1
      [] OTHER -> 0

Takes(c, call) ==
    \/ call \in {"put", "wait"}
    \/ call = "get" /\ c.action = "update"
    \/ call = "delete" /\ c.action = "replace"

\* Of the first change of todo: the calls that have returned.
Returned(r, call) ==
    \/ pc[r] = "update" /\ call = "get"
    \/ pc[r] = "wait" /\ call \in {"get", "put"}

CallsOf(r, call) ==
    {c \in todo[r] : Takes(c, call) /\ ~(First(todo[r], c) /\ Returned(r, call))}

CallsLeft(r) ==
    {x \in (todo[r] \cup deferred[r]) \X {"get", "put", "wait", "delete"} :
        x[1] \in CallsOf(r, x[2]) \/ (x[2] = "delete" /\ x[1] \in deferred[r])}

Rest(r) == IF pc[r] \in Rollout THEN CallsLeft(r)
           ELSE IF pc[r] = "rollback" THEN undo[r] ELSE {}

Descends(r) ==
    \/ Stage(r)' < Stage(r)
    \/ /\ Stage(r)' = Stage(r)
       /\ Rest(r)' \subseteq Rest(r) /\ Rest(r)' # Rest(r)

Unmoved(r) == Stage(r)' = Stage(r) /\ Rest(r)' = Rest(r)

LEMMA StageIs ==
    ASSUME NEW r
    PROVE  /\ pc[r] = "list" => Stage(r) = 6
           /\ pc[r] = "release" => Stage(r) = 5
           /\ pc[r] = "releaseExit" => Stage(r) = 4
           /\ pc[r] \in {"releaseCleanup", "releaseAbort"} => Stage(r) = 3
           /\ pc[r] \in Rollout => Stage(r) = 2
           /\ pc[r] = "rollback" => Stage(r) = 1
           /\ pc[r] \in Idle => Stage(r) = 0
           /\ pc[r] \in Phases \ Idle => Stage(r) \in 1 .. 6
  BY DEF Stage, Rollout, Idle, Phases

\* Fewer calls are left when none is new and one is gone.
LEMMA OneCallFewer ==
    ASSUME NEW r \in Runners, pc[r] \in Rollout, pc'[r] \in Rollout,
           \A c, call : <<c, call>> \in CallsLeft(r)' => <<c, call>> \in CallsLeft(r),
           NEW d, NEW made, <<d, made>> \in CallsLeft(r), <<d, made>> \notin CallsLeft(r)'
    PROVE  Descends(r)
<1>1. Stage(r) = 2 /\ Stage(r)' = 2
  <2>1. Stage(r) = 2
    BY StageIs
  <2>2. Stage(r)' = 2
    BY DEF Stage, Rollout
  <2>. QED
    BY <2>1, <2>2
<1>2. Rest(r) = CallsLeft(r) /\ Rest(r)' = CallsLeft(r)'
  BY DEF Rest
<1>3. CallsLeft(r)' \subseteq CallsLeft(r)
  <2>. SUFFICES ASSUME NEW x \in CallsLeft(r)' PROVE x \in CallsLeft(r)
    OBVIOUS
  <2>1. \E c, call : x = <<c, call>>
    BY DEF CallsLeft
  <2>. QED
    BY <2>1
<1>. QED
  BY <1>1, <1>2, <1>3 DEF Descends

LEMMA GetDescends ==
    ASSUME TypeInv, NEW r \in Runners, GetMachine(r) PROVE Descends(r)
<1>1. PICK c \in todo[r] : First(todo[r], c) /\ c.action = "update"
  BY DEF GetMachine
<1>2. /\ pc[r] = "rollout" /\ pc'[r] = "update"
      /\ todo' = todo /\ deferred' = deferred
  BY DEF GetMachine, Goto, TypeInv, TypeOK, LocalsOK
<1>3. \A call : CallsOf(r, call)' \subseteq CallsOf(r, call)
  BY <1>2 DEF CallsOf, Returned
<1>4. c \in CallsOf(r, "get") /\ c \notin CallsOf(r, "get")'
  BY <1>1, <1>2 DEF CallsOf, Returned, Takes
<1>5. \A d, call : <<d, call>> \in CallsLeft(r)' => <<d, call>> \in CallsLeft(r)
  BY <1>2, <1>3 DEF CallsLeft
<1>6. <<c, "get">> \in CallsLeft(r) /\ <<c, "get">> \notin CallsLeft(r)'
  BY <1>2, <1>4 DEF CallsLeft
<1>. QED
  BY <1>2, <1>5, <1>6, OneCallFewer DEF Rollout

LEMMA PutDescends ==
    ASSUME TypeInv, NEW r \in Runners, CreateMachine(r) \/ UpdateMachine(r) PROVE Descends(r)
<1>1. PICK c \in todo[r] : First(todo[r], c)
  BY DEF CreateMachine, UpdateMachine
<1>2. /\ pc[r] \in {"rollout", "update"} /\ pc'[r] = "wait"
      /\ todo' = todo /\ deferred' = deferred
  BY DEF CreateMachine, UpdateMachine, Goto, TypeInv, TypeOK, LocalsOK
<1>3. \A call : CallsOf(r, call)' \subseteq CallsOf(r, call)
  BY <1>2 DEF CallsOf, Returned
<1>4. c \in CallsOf(r, "put") /\ c \notin CallsOf(r, "put")'
  BY <1>1, <1>2 DEF CallsOf, Returned, Takes
<1>5. \A d, call : <<d, call>> \in CallsLeft(r)' => <<d, call>> \in CallsLeft(r)
  BY <1>2, <1>3 DEF CallsLeft
<1>6. <<c, "put">> \in CallsLeft(r) /\ <<c, "put">> \notin CallsLeft(r)'
  BY <1>2, <1>4 DEF CallsLeft
<1>. QED
  BY <1>2, <1>5, <1>6, OneCallFewer DEF Rollout

LEMMA VerifyDescends ==
    ASSUME TypeInv, NEW r \in Runners, Verify(r) PROVE Descends(r)
<1>1. PICK c \in todo[r] :
        /\ First(todo[r], c)
        /\ todo' = [todo EXCEPT ![r] = @ \ {c}]
        /\ deferred' = [deferred EXCEPT ![r] = IF c.action = "replace" THEN @ \cup {c} ELSE @]
  BY DEF Verify
<1>2. /\ pc[r] = "wait" /\ pc'[r] = "rollout"
      /\ todo'[r] = todo[r] \ {c}
      /\ deferred'[r] \subseteq deferred[r] \cup {c}
      /\ c.action # "replace" => deferred'[r] = deferred[r]
  BY <1>1 DEF Verify, Goto, TypeInv, TypeOK, LocalsOK
<1>3. \A d \in todo[r] : First(todo[r], d) => d = c
  BY <1>1, FirstIsOne DEF TypeInv, TypeOK, LocalsOK
<1>4. \A call : CallsOf(r, call)' \subseteq CallsOf(r, call)
  BY <1>2, <1>3 DEF CallsOf
<1>5. c.action = "replace" => c \in CallsOf(r, "delete")
  BY <1>2 DEF CallsOf, Returned, Takes
<1>6. c \in CallsOf(r, "wait") /\ c \notin CallsOf(r, "wait")'
  BY <1>2 DEF CallsOf, Returned, Takes
<1>7. \A d, call : <<d, call>> \in CallsLeft(r)' => <<d, call>> \in CallsLeft(r)
  <2>. SUFFICES ASSUME NEW d, NEW call, <<d, call>> \in CallsLeft(r)'
                PROVE  <<d, call>> \in CallsLeft(r)
    OBVIOUS
  <2>1. \/ call \in {"get", "put", "wait", "delete"} /\ d \in CallsOf(r, call)'
        \/ call = "delete" /\ d \in deferred'[r]
    BY DEF CallsLeft
  <2>2. \/ call \in {"get", "put", "wait", "delete"} /\ d \in CallsOf(r, call)
        \/ call = "delete" /\ d \in deferred[r]
    BY <1>2, <1>4, <1>5, <2>1
  <2>. QED
    BY <2>2 DEF CallsLeft, CallsOf
<1>8. <<c, "wait">> \in CallsLeft(r) /\ <<c, "wait">> \notin CallsLeft(r)'
  BY <1>6 DEF CallsLeft
<1>. QED
  BY <1>2, <1>7, <1>8, OneCallFewer DEF Rollout

LEMMA DeleteDescends ==
    ASSUME TypeInv, NEW r \in Runners, DeleteOld(r) PROVE Descends(r)
<1>1. PICK c \in deferred[r] : deferred' = [deferred EXCEPT ![r] = @ \ {c}]
  BY DEF DeleteOld
<1>2. /\ pc[r] = "rollout" /\ pc'[r] = "rollout"
      /\ todo[r] = {} /\ todo'[r] = {}
      /\ deferred'[r] = deferred[r] \ {c}
  BY <1>1 DEF DeleteOld, TypeInv, TypeOK, LocalsOK
<1>3. \A call : CallsOf(r, call)' = {} /\ CallsOf(r, call) = {}
  BY <1>2 DEF CallsOf
<1>4. /\ \A d, call : <<d, call>> \in CallsLeft(r)' => <<d, call>> \in CallsLeft(r)
      /\ <<c, "delete">> \in CallsLeft(r) /\ <<c, "delete">> \notin CallsLeft(r)'
  BY <1>2, <1>3 DEF CallsLeft
<1>. QED
  BY <1>2, <1>4, OneCallFewer DEF Rollout

LEMMA UndoDescends ==
    ASSUME TypeInv, NEW r \in Runners, Undo(r) \/ UndoFails(r) PROVE Descends(r)
<1>1. PICK id \in undo[r] : undo' = [undo EXCEPT ![r] = @ \ {id}]
  BY DEF Undo, UndoFails
<1>2. pc[r] = "rollback" /\ pc' = pc /\ undo'[r] = undo[r] \ {id}
  BY <1>1 DEF Undo, UndoFails, TypeInv, TypeOK, LocalsOK
<1>3. Stage(r)' = Stage(r)
  BY <1>2 DEF Stage
<1>4. Rest(r) = undo[r] /\ Rest(r)' = undo'[r]
  BY <1>2 DEF Rest, Rollout
<1>. QED
  BY <1>2, <1>3, <1>4 DEF Descends

\* The other steps of an invocation take it to a later stage.
LEMMA NextStageDescends ==
    ASSUME TypeInv, NEW r \in Runners,
           \/ MakePlan(r) \/ PlanFails(r) \/ ReleaseStep(r)
           \/ CreateFails(r) \/ GetMachineFails(r) \/ UpdateFails(r) \/ VerifyFails(r)
           \/ DeleteOldFails(r) \/ Succeed(r) \/ RolledBack(r) \/ Crash(r)
    PROVE  Descends(r)
<1>. USE DEF TypeInv, TypeOK, LocalsOK, Goto, RollBack, Stage, Rollout, Descends
<1>1. CASE MakePlan(r)
  BY <1>1 DEF MakePlan
<1>2. CASE PlanFails(r)
  BY <1>2 DEF PlanFails
<1>3. CASE ReleaseCreate(r) \/ ReleaseCreateFails(r)
  BY <1>3 DEF ReleaseCreate, ReleaseCreateFails
<1>4. CASE ReleaseSucceeds(r) \/ ReleaseFails(r)
  BY <1>4 DEF ReleaseSucceeds, ReleaseFails
<1>5. CASE ReleaseCleanup(r) \/ ReleaseCleanupFails(r)
  BY <1>5 DEF ReleaseCleanup, ReleaseCleanupFails
<1>6. CASE CreateFails(r) \/ GetMachineFails(r) \/ UpdateFails(r)
  BY <1>6 DEF CreateFails, GetMachineFails, UpdateFails
<1>7. CASE VerifyFails(r) \/ DeleteOldFails(r)
  BY <1>7 DEF VerifyFails, DeleteOldFails
<1>8. CASE Succeed(r) \/ RolledBack(r)
  BY <1>8 DEF Succeed, RolledBack
<1>9. CASE Crash(r)
  BY <1>9 DEF Crash, Phases, Idle
<1>. QED
  BY <1>1, <1>2, <1>3, <1>4, <1>5, <1>6, <1>7, <1>8, <1>9 DEF ReleaseStep

LEMMA AdvanceDescends ==
    ASSUME TypeInv, NEW r \in Runners, Advance(r) \/ Crash(r) PROVE Descends(r)
  BY GetDescends, PutDescends, VerifyDescends, DeleteDescends, UndoDescends, NextStageDescends
  DEF Advance, RolloutStep, RollbackStep

-----------------------------------------------------------------------------
(***************************************************************************)
(* A finite set of changes has a first, and what is left is finite.        *)
(***************************************************************************)
LEMMA ImageIsFinite ==
    ASSUME NEW S, IsFiniteSet(S), NEW f, DOMAIN f = S
    PROVE  IsFiniteSet({f[x] : x \in S})
<1>. DEFINE T == {f[x] : x \in S}
<1>1. [x \in S |-> f[x]] \in Surjection(S, T)
  BY DEF Surjection
<1>. HIDE DEF T
<1>2. IsFiniteSet(T)
  BY <1>1, FS_Surjection
<1>. QED
  BY <1>2 DEF T

LEMMA LowestBy ==
    ASSUME NEW S, IsFiniteSet(S), S # {}, NEW f \in [S -> Int]
    PROVE  \E x \in S : \A y \in S : f[x] <= f[y]
<1>. DEFINE T == {f[x] : x \in S}
<1>1. IsFiniteSet(T)
  BY ImageIsFinite
<1>2. T \in SUBSET Int /\ T # {}
  OBVIOUS
<1>. HIDE DEF T
<1>3. PICK t \in T : \A u \in T : t <= u
  BY <1>1, <1>2, Lowest
<1>. QED
  BY <1>3 DEF T

LEMMA HasFirst ==
    ASSUME NEW changes \in SUBSET Change, IsFiniteSet(changes), changes # {}
    PROVE  \E c \in changes : First(changes, c)
<1>1. \A c \in changes :
        /\ c = [action |-> c.action, group |-> c.group, id |-> c.id]
        /\ c.group \in Int /\ c.id \in Int
        /\ ActionRank[c.action] \in Int
  <2>0. GroupNames \subseteq Int
    BY ConstantsAssumption
  <2>1. \A c \in changes :
            /\ c = [action |-> c.action, group |-> c.group, id |-> c.id]
            /\ c.group \in Int /\ c.id \in Int /\ c.action \in Actions
    <3>1. \A c \in Change : c.group \in GroupNames /\ c.id \in Int /\ c.action \in Actions
      BY DEF Change
    <3>2. \A c \in Change : c = [action |-> c.action, group |-> c.group, id |-> c.id]
      BY DEF Change
    <3>. QED
      BY <2>0, <3>1, <3>2
  <2>2. \A a \in Actions : ActionRank[a] \in Int
    BY DEF Actions, ActionRank
  <2>. QED
    BY <2>1, <2>2
<1>2. PICK a \in changes : \A d \in changes : a.group <= d.group
  <2>1. [c \in changes |-> c.group] \in [changes -> Int]
    BY <1>1
  <2>2. \E a \in changes : \A d \in changes :
            [c \in changes |-> c.group][a] <= [c \in changes |-> c.group][d]
    BY <2>1, LowestBy
  <2>. QED
    BY <2>2
<1>. DEFINE S == {c \in changes : c.group = a.group}
<1>3. PICK b \in S : \A d \in S : ActionRank[b.action] <= ActionRank[d.action]
  <2>1. [c \in S |-> ActionRank[c.action]] \in [S -> Int]
    BY <1>1
  <2>2. IsFiniteSet(S) /\ a \in S
    BY FS_Subset
  <2>. QED
    BY <2>1, <2>2, LowestBy
<1>. DEFINE T == {c \in S : c.action = b.action}
<1>4. PICK c \in T : \A d \in T : c.id <= d.id
  <2>1. [d \in T |-> d.id] \in [T -> Int]
    BY <1>1
  <2>2. IsFiniteSet(T) /\ b \in T
    BY FS_Subset
  <2>. HIDE DEF T
  <2>3. \E c \in T : \A d \in T : [e \in T |-> e.id][c] <= [e \in T |-> e.id][d]
    BY <2>1, <2>2, LowestBy
  <2>. QED
    BY <2>3
<1>5. ASSUME NEW d \in changes \ {c} PROVE Before(c, d)
  <2>1. CASE d \notin S
    BY <1>1, <1>2, <2>1 DEF Before
  <2>2. CASE d \in S \ T
    <3>1. c.action \in Actions /\ d.action \in Actions /\ c.action # d.action
      BY <2>2 DEF Change
    <3>2. ActionRank[c.action] # ActionRank[d.action]
      BY <3>1 DEF Actions, ActionRank
    <3>. QED
      BY <1>1, <1>3, <2>2, <3>2 DEF Before
  <2>3. CASE d \in T
    <3>1. c.id # d.id
      BY <1>1, <2>3
    <3>. QED
      BY <1>1, <1>4, <2>3, <3>1 DEF Before
  <2>. QED
    BY <2>1, <2>2, <2>3
<1>. QED
  BY <1>5 DEF First

LEMMA DiffFinite ==
    ASSUME NEW desired, NEW live, IsFiniteSet(DOMAIN desired), IsFiniteSet(DOMAIN live),
           \A g \in DOMAIN desired : desired[g].min \in Int
    PROVE  IsFiniteSet(Diff(desired, live))
<1>1. ASSUME NEW g \in DOMAIN desired PROVE IsFiniteSet(GroupChanges(desired[g], live, g))
  <2>. DEFINE ms == Members(live, g)
              spec == desired[g]
              T == {x \in ms : Place(x, ms) < ManagedCount(Cardinality(ms), spec.max)}
              R == {x \in ms : Place(x, ms) >= DeleteFrom(Cardinality(ms), spec.max)}
              keep == [m \in T |-> [action |-> KeepAction(live[m], spec), group |-> g, id |-> m]]
              drop == [m \in R |-> [action |-> "delete", group |-> g, id |-> m]]
  <2>1. IsFiniteSet(ms) /\ Cardinality(ms) \in Nat
    BY FS_Subset, FS_CardinalityType DEF Members
  <2>2. IsFiniteSet(T) /\ IsFiniteSet(R)
    BY <2>1, FS_Subset
  <2>3. Kept(spec, live, g) = {keep[m] : m \in T} /\ Excess(spec, live, g) = {drop[m] : m \in R}
    BY DEF Kept, Excess
  <2>4. IsFiniteSet(Missing(spec, live, g))
    BY <2>1, MissingCount
  <2>. HIDE DEF T, R
  <2>5. IsFiniteSet({keep[m] : m \in T}) /\ IsFiniteSet({drop[m] : m \in R})
    BY <2>2, ImageIsFinite
  <2>. QED
    BY <2>3, <2>4, <2>5, FS_Union DEF GroupChanges
<1>. DEFINE parts == [g \in DOMAIN desired |-> GroupChanges(desired[g], live, g)]
            all == {parts[g] : g \in DOMAIN desired}
<1>2. IsFiniteSet(UNION all)
  <2>1. IsFiniteSet(all)
    BY ImageIsFinite
  <2>2. \A S \in all : IsFiniteSet(S)
    BY <1>1
  <2>. HIDE DEF all
  <2>. QED
    BY <2>1, <2>2, FS_UNION
<1>. DEFINE out == {x \in DOMAIN live : live[x].group \notin DOMAIN desired \cup {NoGroup}}
            orphan == [m \in out |-> [action |-> "delete", group |-> live[m].group, id |-> m]]
<1>3. IsFiniteSet({orphan[m] : m \in out})
  <2>1. IsFiniteSet(out)
    BY FS_Subset
  <2>. HIDE DEF out
  <2>. QED
    BY <2>1, ImageIsFinite
<1>4. Orphans(desired, live) = {orphan[m] : m \in out}
  BY DEF Orphans
<1>5. Diff(desired, live) = (UNION all) \cup {orphan[m] : m \in out}
  BY <1>4 DEF Diff
<1>. HIDE DEF all, out
<1>6. ASSUME NEW A, NEW B, IsFiniteSet(A), IsFiniteSet(B) PROVE IsFiniteSet(A \cup B)
  BY <1>6, FS_Union
<1>. QED
  BY <1>2, <1>3, <1>5, <1>6

-----------------------------------------------------------------------------
(***************************************************************************)
(* A step is the invocation's own, or leaves its local variables alone.    *)
(***************************************************************************)
Same(r) ==
    /\ pc'[r] = pc[r] /\ todo'[r] = todo[r] /\ deferred'[r] = deferred[r]
    /\ created'[r] = created[r] /\ undo'[r] = undo[r]

LEMMA StepIsOnes ==
    ASSUME TypeInv, [Next]_vars, NEW r \in Runners
    PROVE  Advance(r) \/ Crash(r) \/ (\E p \in Plans : Start(r, p)) \/ Same(r)
<1>. USE DEF TypeInv, TypeOK, LocalsOK, Same, Goto, RollBack
<1>1. CASE UNCHANGED vars
  BY <1>1 DEF vars, locals
<1>2. ASSUME NEW id \in MachineIds, Settle(id) \/ Vanish(id) PROVE Same(r)
  BY <1>2 DEF Settle, Vanish, locals
<1>3. ASSUME NEW s \in Runners \ {r}, Crash(s) \/ \E p \in Plans : Start(s, p) PROVE Same(r)
  BY <1>3 DEF Crash, Start
<1>4. ASSUME NEW s \in Runners \ {r}, Advance(s) PROVE Same(r)
  <2>1. CASE MakePlan(s) \/ PlanFails(s)
    BY <2>1 DEF MakePlan, PlanFails
  <2>2. CASE ReleaseStep(s)
    BY <2>2 DEF ReleaseStep, ReleaseCreate, ReleaseCreateFails, ReleaseSucceeds, ReleaseFails,
       ReleaseCleanup, ReleaseCleanupFails
  <2>3. CASE CreateMachine(s) \/ CreateFails(s)
    BY <2>3 DEF CreateMachine, CreateFails
  <2>4. CASE GetMachine(s) \/ GetMachineFails(s) \/ UpdateMachine(s) \/ UpdateFails(s)
    BY <2>4 DEF GetMachine, GetMachineFails, UpdateMachine, UpdateFails
  <2>5. CASE Verify(s) \/ VerifyFails(s)
    BY <2>5 DEF Verify, VerifyFails
  <2>6. CASE DeleteOld(s) \/ DeleteOldFails(s) \/ Succeed(s)
    BY <2>6 DEF DeleteOld, DeleteOldFails, Succeed
  <2>7. CASE RollbackStep(s)
    BY <2>7 DEF RollbackStep, Undo, UndoFails, RolledBack
  <2>. QED
    BY <1>4, <2>1, <2>2, <2>3, <2>4, <2>5, <2>6, <2>7 DEF Advance, RolloutStep
<1>. QED
  BY <1>1, <1>2, <1>3, <1>4 DEF Next

(***************************************************************************)
(* An invocation knows finitely many changes and machines, and works on    *)
(* the first change of todo while it updates or waits.                     *)
(***************************************************************************)
BoundedOf(r) ==
    /\ IsFiniteSet(todo[r]) /\ IsFiniteSet(deferred[r])
    /\ IsFiniteSet(created[r]) /\ IsFiniteSet(undo[r])
    /\ \A c \in todo[r] : Creates(c) \/ c.action = "update"
    /\ pc[r] \in {"update", "wait"} => todo[r] # {}

BoundedInv == \A r \in Runners : BoundedOf(r)

LEMMA BoundedStep ==
    ASSUME TypeInv, FiniteInv, BoundedInv, [Next]_vars
    PROVE  BoundedInv'
<1>. SUFFICES ASSUME NEW r \in Runners PROVE BoundedOf(r)'
  BY DEF BoundedInv
<1>. BoundedOf(r)
  BY DEF BoundedInv
<1>. USE DEF TypeInv, TypeOK, LocalsOK, Goto, RollBack
<1>1. CASE Same(r)
  BY <1>1 DEF Same, BoundedOf
<1>2. CASE \E p \in Plans : Start(r, p)
  BY <1>2, FS_EmptySet DEF Start, BoundedOf
<1>3. CASE MakePlan(r)
  <2>. DEFINE changes == Diff(plan[r].groups, fleet)
  <2>1. plan[r] \in Plans
    BY <1>3 DEF MakePlan
  <2>2. IsFiniteSet(DOMAIN plan[r].groups)
    BY <2>1, ConstantsAssumption
  <2>3. \A g \in DOMAIN plan[r].groups : plan[r].groups[g].min \in Int
    BY <2>1, PlanIsSized
  <2>4. IsFiniteSet(changes)
    BY <2>2, <2>3, DiffFinite DEF FiniteInv
  <2>5. changes \subseteq Change
    BY <2>1, DiffTyped
  <2>6. /\ todo'[r] = {c \in changes : c.action \notin {"noop", "delete"}}
        /\ deferred'[r] = {c \in changes : c.action = "delete"}
        /\ pc'[r] \in {"release", "rollout"}
        /\ created'[r] = created[r] /\ undo'[r] = undo[r]
    BY <1>3 DEF MakePlan
  <2>. HIDE DEF changes
  <2>7. IsFiniteSet(todo'[r]) /\ IsFiniteSet(deferred'[r])
    BY <2>4, <2>6, FS_Subset
  <2>8. \A c \in todo'[r] : Creates(c) \/ c.action = "update"
    BY <2>5, <2>6 DEF Change, Actions, Creates
  <2>. QED
    BY <2>6, <2>7, <2>8 DEF BoundedOf
<1>4. CASE PlanFails(r) \/ ReleaseStep(r) \/ Crash(r) \/ Succeed(r) \/ RolledBack(r)
  BY <1>4 DEF PlanFails, ReleaseStep, ReleaseCreate, ReleaseCreateFails, ReleaseSucceeds, ReleaseFails,
       ReleaseCleanup, ReleaseCleanupFails, Crash, Succeed, RolledBack, BoundedOf
<1>5. CASE CreateFails(r) \/ GetMachineFails(r) \/ UpdateFails(r) \/ VerifyFails(r) \/ DeleteOldFails(r)
  BY <1>5 DEF CreateFails, GetMachineFails, UpdateFails, VerifyFails, DeleteOldFails, BoundedOf
<1>6. CASE CreateMachine(r)
  <2>1. PICK id : created'[r] = created[r] \cup {id}
    BY <1>6 DEF CreateMachine
  <2>2. IsFiniteSet(created'[r])
    <3>1. IsFiniteSet(created[r])
      BY DEF BoundedOf
    <3>2. IsFiniteSet(created[r] \cup {id})
      BY <3>1, FS_AddElement
    <3>. QED
      BY <2>1, <3>2
  <2>. QED
    BY <1>6, <2>2 DEF CreateMachine, BoundedOf
<1>7. CASE GetMachine(r) \/ UpdateMachine(r)
  BY <1>7 DEF GetMachine, UpdateMachine, BoundedOf
<1>8. CASE Verify(r)
  <2>1. PICK c \in todo[r] : /\ todo'[r] = todo[r] \ {c}
                             /\ deferred'[r] \in SUBSET (deferred[r] \cup {c})
    BY <1>8 DEF Verify
  <2>2. IsFiniteSet(todo'[r])
    BY <2>1, FS_Subset DEF BoundedOf
  <2>3. IsFiniteSet(deferred'[r])
    <3>1. IsFiniteSet(deferred[r] \cup {c})
      BY FS_AddElement DEF BoundedOf
    <3>. QED
      BY <2>1, <3>1, FS_Subset
  <2>. QED
    BY <1>8, <2>1, <2>2, <2>3 DEF Verify, BoundedOf
<1>9. CASE DeleteOld(r)
  <2>1. deferred'[r] \in SUBSET deferred[r]
    BY <1>9 DEF DeleteOld
  <2>2. IsFiniteSet(deferred'[r])
    BY <2>1, FS_Subset DEF BoundedOf
  <2>. QED
    BY <1>9, <2>2 DEF DeleteOld, BoundedOf
<1>10. CASE Undo(r) \/ UndoFails(r)
  <2>1. undo'[r] \in SUBSET undo[r]
    BY <1>10 DEF Undo, UndoFails
  <2>2. IsFiniteSet(undo'[r])
    BY <2>1, FS_Subset DEF BoundedOf
  <2>. QED
    BY <1>10, <2>2 DEF Undo, UndoFails, BoundedOf
<1>. QED
  BY StepIsOnes, <1>1, <1>2, <1>3, <1>4, <1>5, <1>6, <1>7, <1>8, <1>9, <1>10
  DEF Advance, RolloutStep, RollbackStep

WorkInv == TypeInv /\ ManagedInv /\ FiniteInv /\ BoundedInv

LEMMA WorkInvariant == Spec => []WorkInv
<1>1. Init => WorkInv
  <2>. SUFFICES ASSUME Init PROVE WorkInv
    OBVIOUS
  <2>1. FiniteInv
    BY ConstantsAssumption DEF Init, FiniteInv
  <2>2. BoundedInv
    BY FS_EmptySet DEF Init, BoundedInv, BoundedOf
  <2>. QED
    BY <2>1, <2>2, TypeInit, ManagedInit DEF WorkInv
<1>2. WorkInv /\ [Next]_vars => WorkInv'
  BY TypeStep, ManagedStep, FiniteStep, BoundedStep DEF WorkInv
<1>. QED
  BY <1>1, <1>2, PTL DEF Spec

(***************************************************************************)
(* What is left to do is finite, and in the rollout there is always a next *)
(* call or nothing left: while changes are to be made one of them is the   *)
(* first, and then, while machines are to be deleted, one of these is.     *)
(***************************************************************************)
HasNextCall(r) ==
    pc[r] \in Rollout =>
        \/ \E c \in todo[r] : First(todo[r], c) /\ (Creates(c) \/ c.action = "update")
        \/ /\ pc[r] = "rollout" /\ todo[r] = {}
           /\ deferred[r] = {} \/ \E c \in deferred[r] : First(deferred[r], c)

LEMMA RestIsFinite ==
    ASSUME WorkInv, NEW r \in Runners
    PROVE  IsFiniteSet(Rest(r)) /\ HasNextCall(r)
<1>. DEFINE calls == {"get", "put", "wait", "delete"}
<1>0. BoundedOf(r) /\ todo[r] \in SUBSET Change /\ deferred[r] \in SUBSET Change
  BY DEF WorkInv, BoundedInv, TypeInv, TypeOK, LocalsOK
<1>1. IsFiniteSet(calls)
  <2>1. IsFiniteSet({"get"})
    BY FS_Singleton
  <2>2. IsFiniteSet({"get"} \cup {"put"})
    BY <2>1, FS_AddElement
  <2>3. IsFiniteSet(({"get"} \cup {"put"}) \cup {"wait"})
    BY <2>2, FS_AddElement
  <2>4. IsFiniteSet((({"get"} \cup {"put"}) \cup {"wait"}) \cup {"delete"})
    BY <2>3, FS_AddElement
  <2>5. calls = (({"get"} \cup {"put"}) \cup {"wait"}) \cup {"delete"}
    OBVIOUS
  <2>. QED
    BY <2>4, <2>5
<1>2. IsFiniteSet(CallsLeft(r))
  <2>1. IsFiniteSet(todo[r] \cup deferred[r])
    BY <1>0, FS_Union DEF BoundedOf
  <2>. HIDE DEF calls
  <2>2. IsFiniteSet((todo[r] \cup deferred[r]) \X calls)
    BY <1>1, <2>1, FS_Product
  <2>3. CallsLeft(r) \in SUBSET ((todo[r] \cup deferred[r]) \X calls)
    BY DEF CallsLeft, calls
  <2>. QED
    BY <2>2, <2>3, FS_Subset
<1>3. IsFiniteSet(Rest(r))
  BY <1>0, <1>2, FS_EmptySet DEF Rest, BoundedOf
<1>4. HasNextCall(r)
  <2>1. todo[r] # {} => \E c \in todo[r] : First(todo[r], c)
    BY <1>0, HasFirst DEF BoundedOf
  <2>2. deferred[r] # {} => \E c \in deferred[r] : First(deferred[r], c)
    BY <1>0, HasFirst DEF BoundedOf
  <2>. QED
    BY <1>0, <2>1, <2>2 DEF HasNextCall, BoundedOf, Rollout
<1>. QED
  BY <1>3, <1>4

THEOREM ApplyIsNeverStuck ==
    Spec => [](\A r \in Runners : IsFiniteSet(Rest(r)) /\ HasNextCall(r))
<1>1. WorkInv => \A r \in Runners : IsFiniteSet(Rest(r)) /\ HasNextCall(r)
  BY RestIsFinite
<1>. QED
  BY <1>1, WorkInvariant, PTL

(***************************************************************************)
(* Every step of an invocation takes it to a later stage, or leaves it     *)
(* strictly fewer calls to make in the one it is in; the steps of others   *)
(* and of the world take nothing of that back; only a new apply starts it  *)
(* again.  So an invocation that keeps going ends.                         *)
(***************************************************************************)
CountsDown(r) ==
    \/ Stage(r)' < Stage(r)
    \/ Stage(r)' = Stage(r) /\ Cardinality(Rest(r))' < Cardinality(Rest(r))

THEOREM ApplyCountsDown ==
    Spec => [][\A r \in Runners :
                /\ Advance(r) => CountsDown(r)
                /\ CountsDown(r) \/ Unmoved(r) \/ \E p \in Plans : Start(r, p)]_vars
<1>. DEFINE Good == \A r \in Runners :
                /\ Advance(r) => CountsDown(r)
                /\ CountsDown(r) \/ Unmoved(r) \/ \E p \in Plans : Start(r, p)
<1>1. WorkInv /\ [Next]_vars => Good
  <2>. SUFFICES ASSUME WorkInv, [Next]_vars, NEW r \in Runners
                PROVE  /\ Advance(r) => CountsDown(r)
                       /\ CountsDown(r) \/ Unmoved(r) \/ \E p \in Plans : Start(r, p)
    OBVIOUS
  <2>1. Descends(r) => CountsDown(r)
    <3>1. IsFiniteSet(Rest(r))
      BY RestIsFinite
    <3>2. ASSUME NEW S, NEW T \in SUBSET S, IsFiniteSet(S), T # S PROVE Cardinality(T) < Cardinality(S)
      BY <3>2, FS_Subset, FS_CardinalityType
    <3>. QED
      BY <3>1, <3>2 DEF Descends, CountsDown
  <2>2. Advance(r) \/ Crash(r) => Descends(r)
    BY AdvanceDescends DEF WorkInv
  <2>3. Same(r) => Unmoved(r)
    BY DEF Same, Unmoved, Stage, Rest, CallsLeft, CallsOf, Returned
  <2>. QED
    BY <2>1, <2>2, <2>3, StepIsOnes DEF WorkInv
<1>2. [][WorkInv /\ [Next]_vars]_vars => [][Good]_vars
  BY <1>1, PTL
<1>. QED
  BY <1>1, WorkInvariant, PTL DEF Spec
=============================================================================
