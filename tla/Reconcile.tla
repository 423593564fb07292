----------------------------- MODULE Reconcile -----------------------------
(***************************************************************************)
(* Apply of pkg/flydeploy/reconcile, run by several invocations ("runners":*)
(* CI jobs, operators) against one Fly app.                                *)
(*                                                                         *)
(* One action is one Machines API call together with the code that runs    *)
(* from its return to the next call.  A call answers, or fails.  A failed  *)
(* create, update or delete may still have taken effect: its answer was    *)
(* lost.  Between any two steps the process may be killed (the CLI         *)
(* installs no signal handler, so an interrupt runs no rollback), another  *)
(* runner may take steps, and a machine may be destroyed from outside.     *)
(*                                                                         *)
(* The fleet is what Fly stores (external to the repository).  Machine ids *)
(* are never reused by Fly; "used" remembers them.                         *)
(***************************************************************************)
EXTENDS Planner

CONSTANTS
    Runners,        \* concurrent invocations of Apply
    MachineIds,     \* every id Fly has handed out or will
    Offered(_),     \* the ids Fly may give a new machine when these are used
    GroupNames,
    Hashes,
    Regions,
    Plans,          \* desired plans: [groups, release]
    InitialFleets,  \* fleets Apply may start from
    ReleaseGroup,   \* the group of one-off release machines
    NoHash,         \* a machine without flydeploy.config-hash
    NoMachine,
    NoPlan,
    MaxApplies,     \* bound: invocations, all runners together
    MaxFaults,      \* bound: failed API calls and machines that never get healthy
    MaxCrashes,     \* bound: killed processes
    MaxVanished     \* bound: machines destroyed from outside

VARIABLES
    fleet,          \* Fly: the machines that exist
    used,           \* Fly: ids handed out so far
    pc,             \* where each invocation is
    plan,           \* Apply's argument: desired and options.SkipRelease
    todo,           \* changes not yet executed, no-ops and deletes left out
    deferred,       \* changes whose machine is deleted at the end
    created,        \* machines this invocation created
    target,         \* the machine being created, updated or waited for
    version,        \* its instance id as read by GetMachine
    undo,           \* machines rollback has still to delete
    written,        \* history: machines this invocation created or updated
    verified,       \* history: those it then saw started with checks passing
    unclean,        \* history: machines rollback reported it could not delete
    before,         \* history: machines per desired group when the plan was made
    mishaps,        \* history: the faults spent when this invocation started
    budget          \* how much of each bound is spent

fly == <<fleet, used>>
locals == <<pc, plan, todo, deferred, created, target, version, undo>>
history == <<written, verified, unclean, before, mishaps>>
vars == <<fly, locals, history, budget>>

GroupSpec == [min : Nat, max : Nat, hash : Hashes, region : Regions]

\* machineconfig.Plan.Validate: at least one group, no maximum below the minimum.
Valid(p) ==
    /\ DOMAIN p.groups \subseteq GroupNames
    /\ p.groups \in [DOMAIN p.groups -> GroupSpec]
    /\ DOMAIN p.groups # {}
    /\ \A g \in DOMAIN p.groups : p.groups[g].min <= p.groups[g].max
    /\ p.release \in BOOLEAN

Health == {"unknown", "passing", "failing"}

Idle == {"idle", "done", "failed", "crashed"}
Phases == Idle \cup {"list", "release", "releaseExit", "releaseCleanup",
                     "releaseAbort", "rollout", "update", "wait", "rollback"}

Put(f, k, v) == [x \in DOMAIN f \cup {k} |-> IF x = k THEN v ELSE f[x]]
Drop(f, k) == [x \in DOMAIN f \ {k} |-> f[x]]

Spend(what) == budget' = [budget EXCEPT ![what] = @ + 1]

FaultsLeft == budget.faults < MaxFaults

(***************************************************************************)
(* Fly's machines.                                                         *)
(***************************************************************************)
Machine == [name : {"release", "other"}, group : GroupNames \cup {NoGroup},
            hash : Hashes \cup {NoHash}, region : Regions \cup {NoRegion},
            health : Health, version : Nat]

ASSUME ConstantsAssumption ==
    /\ GroupNames \subseteq Int
    /\ MachineIds \subseteq Int
    /\ ReleaseGroup \in GroupNames
    /\ NoMachine \notin MachineIds
    /\ \A ids \in SUBSET MachineIds : Offered(ids) \subseteq MachineIds \ ids
    /\ \A p \in Plans : Valid(p) /\ IsFiniteSet(DOMAIN p.groups)
    /\ NoRegion \notin Regions
    /\ \A f \in InitialFleets :
        /\ DOMAIN f \subseteq MachineIds /\ IsFiniteSet(DOMAIN f)
        /\ \A id \in DOMAIN f : f[id] \in Machine
    /\ {MaxApplies, MaxFaults, MaxCrashes, MaxVanished} \subseteq Nat

NewMachine(name, group, hash, region) ==
    [name |-> name, group |-> group, hash |-> hash, region |-> region,
     health |-> "unknown", version |-> 0]

\* configWithHash: a machine of a group carries the group's name and hash; its
\* own name is left to Fly.
GroupMachine(p, c) ==
    NewMachine("other", c.group, p.groups[c.group].hash, p.groups[c.group].region)

\* releaseMachineConfig: the machine of the plan's first group, under the
\* release group, without hash, services or checks, and with a fixed name.
\* "Unique name for this Machine" (client.gen.go:158) is what the API takes.
FirstGroup(p, g) == \A h \in DOMAIN p.groups : g <= h

ReleaseMachine(p, g) == NewMachine("release", ReleaseGroup, NoHash, p.groups[g].region)

ReleaseNameTaken == \E id \in DOMAIN fleet : fleet[id].name = "release"

\* An update keeps the machine's name and region.
UpdatedUnstamped(machine, p, c) ==
    [name |-> machine.name, group |-> c.group, hash |-> machine.hash,
     region |-> machine.region, health |-> "unknown", version |-> machine.version + 1]

Updated(machine, p, c) ==
    [name |-> machine.name, group |-> c.group, hash |-> p.groups[c.group].hash, region |-> machine.region,
     health |-> "unknown", version |-> machine.version + 1]

Hand(id, machine) == fleet' = Put(fleet, id, machine) /\ used' = used \cup {id}

Remove(id) == fleet' = Drop(fleet, id) /\ UNCHANGED used

-----------------------------------------------------------------------------
(***************************************************************************)
(* Apply                                                                   *)
(***************************************************************************)
Goto(r, phase) == pc' = [pc EXCEPT ![r] = phase]

\* Every error of the rollout phase returns through rollback(), which deletes
\* what this invocation created.
RollBackPrunes(r) ==
    /\ Goto(r, "rollback")
    /\ undo' = [undo EXCEPT ![r] = created[r] \cup {c.id : c \in deferred[r]}]

RollBack(r) == Goto(r, "rollback") /\ undo' = [undo EXCEPT ![r] = created[r]]

Start(r, p) ==
    /\ pc[r] \in Idle
    /\ budget.applies < MaxApplies
    /\ Goto(r, "list")
    /\ plan' = [plan EXCEPT ![r] = p]
    /\ todo' = [todo EXCEPT ![r] = {}]
    /\ deferred' = [deferred EXCEPT ![r] = {}]
    /\ created' = [created EXCEPT ![r] = {}]
    /\ target' = [target EXCEPT ![r] = NoMachine]
    /\ version' = [version EXCEPT ![r] = 0]
    /\ undo' = [undo EXCEPT ![r] = {}]
    /\ written' = [written EXCEPT ![r] = {}]
    /\ verified' = [verified EXCEPT ![r] = {}]
    /\ unclean' = [unclean EXCEPT ![r] = {}]
    /\ before' = [before EXCEPT ![r] = <<>>]
    /\ mishaps' = [mishaps EXCEPT ![r] = budget.faults]
    /\ Spend("applies")
    /\ UNCHANGED fly

\* Plan: list the machines and diff them.  The loop of Apply skips no-ops and
\* puts deletes on deferredDeletes without a call in between.
MakePlan(r) ==
    LET changes == Diff(plan[r].groups, fleet)
    IN  /\ pc[r] = "list"
        /\ todo' = [todo EXCEPT ![r] = {c \in changes : c.action \notin {"noop", "delete"}}]
        /\ deferred' = [deferred EXCEPT ![r] = {c \in changes : c.action = "delete"}]
        /\ before' = [before EXCEPT ![r] =
                [g \in DOMAIN plan[r].groups |-> Cardinality(Members(fleet, g))]]
        /\ Goto(r, IF plan[r].release THEN "release" ELSE "rollout")
        /\ UNCHANGED <<fly, plan, created, target, version, undo, written, verified, unclean, mishaps, budget>>

PlanFails(r) ==
    /\ pc[r] = "list"
    /\ FaultsLeft
    /\ Spend("faults")
    /\ Goto(r, "failed")
    /\ UNCHANGED <<fly, plan, todo, deferred, created, target, version, undo, history>>

\* runReleaseCommand: a one-off machine, its exit code, its removal.
ReleaseCreate(r) ==
    /\ pc[r] = "release"
    /\ ~ReleaseNameTaken
    /\ \E id \in Offered(used), g \in DOMAIN plan[r].groups :
        /\ FirstGroup(plan[r], g)
        /\ Hand(id, ReleaseMachine(plan[r], g))
        /\ target' = [target EXCEPT ![r] = id]
    /\ Goto(r, "releaseExit")
    /\ UNCHANGED <<plan, todo, deferred, created, version, undo, history, budget>>

\* Refused because an earlier release machine still has the name, or failed.
\* The call is not retried.  When only its answer is lost, the machine exists
\* and nobody knows its id.
ReleaseCreateFails(r) ==
    /\ pc[r] = "release"
    /\ \/ ReleaseNameTaken /\ UNCHANGED <<fly, budget>>
       \/ /\ ~ReleaseNameTaken
          /\ FaultsLeft \/ Offered(used) = {}
          /\ Spend("faults")
          /\ \/ UNCHANGED fly
             \/ \E id \in Offered(used), g \in DOMAIN plan[r].groups :
                    FirstGroup(plan[r], g) /\ Hand(id, ReleaseMachine(plan[r], g))
    /\ Goto(r, "failed")
    /\ UNCHANGED <<plan, todo, deferred, created, target, version, undo, history>>

\* WaitExit: the machine stopped and its last exit event carries code 0.
ReleaseSucceeds(r) ==
    /\ pc[r] = "releaseExit"
    /\ target[r] \in DOMAIN fleet
    /\ Goto(r, "releaseCleanup")
    /\ UNCHANGED <<fly, plan, todo, deferred, created, target, version, undo, history, budget>>

\* WaitExit: another code, no exit event, a machine that is gone, a timeout.
ReleaseFails(r) ==
    /\ pc[r] = "releaseExit"
    /\ IF target[r] \in DOMAIN fleet THEN FaultsLeft /\ Spend("faults") ELSE UNCHANGED budget
    /\ Goto(r, "releaseAbort")
    /\ UNCHANGED <<fly, plan, todo, deferred, created, target, version, undo, history>>

\* cleanup(): its error aborts the apply even when the command succeeded.
ReleaseCleanup(r) ==
    /\ pc[r] \in {"releaseCleanup", "releaseAbort"}
    /\ Remove(target[r])
    /\ Goto(r, IF pc[r] = "releaseCleanup" THEN "rollout" ELSE "failed")
    /\ UNCHANGED <<plan, todo, deferred, created, target, version, undo, history, budget>>

ReleaseCleanupFails(r) ==
    /\ pc[r] \in {"releaseCleanup", "releaseAbort"}
    /\ FaultsLeft
    /\ Spend("faults")
    /\ UNCHANGED fly \/ Remove(target[r])
    /\ Goto(r, "failed")
    /\ UNCHANGED <<plan, todo, deferred, created, target, version, undo, history>>

-----------------------------------------------------------------------------
(***************************************************************************)
(* The rollout loop.  Its current change is the first of todo; it leaves   *)
(* todo when its machine has been verified.                                *)
(***************************************************************************)
Creates(c) == c.action \in {"create", "replace"}

CreateMachine(r) ==
    /\ pc[r] = "rollout"
    /\ \E c \in todo[r], id \in Offered(used) :
        /\ First(todo[r], c)
        /\ Creates(c)
        /\ Hand(id, GroupMachine(plan[r], c))
        /\ created' = [created EXCEPT ![r] = @ \cup {id}]
        /\ written' = [written EXCEPT ![r] = @ \cup {id}]
        /\ target' = [target EXCEPT ![r] = id]
    /\ Goto(r, "wait")
    /\ UNCHANGED <<plan, todo, deferred, version, undo, verified, unclean, before, mishaps, budget>>

CreateFails(r) ==
    /\ pc[r] = "rollout"
    /\ FaultsLeft \/ Offered(used) = {}
    /\ Spend("faults")
    /\ \E c \in todo[r] :
        /\ First(todo[r], c)
        /\ Creates(c)
        /\ \/ UNCHANGED fly
           \/ \E id \in Offered(used) : Hand(id, GroupMachine(plan[r], c))
    /\ RollBack(r)
    /\ UNCHANGED <<plan, todo, deferred, created, target, version, history>>

\* The update reads the machine first, for the version it will insist on.
GetMachineUnversioned(r) ==
    /\ pc[r] = "rollout"
    /\ \E c \in todo[r] :
        /\ First(todo[r], c)
        /\ c.action = "update"
        /\ c.id \in DOMAIN fleet
        /\ target' = [target EXCEPT ![r] = c.id]
    /\ Goto(r, "update")
    /\ UNCHANGED <<fly, plan, todo, deferred, created, version, undo, history, budget>>

GetMachine(r) ==
    /\ pc[r] = "rollout"
    /\ \E c \in todo[r] :
        /\ First(todo[r], c)
        /\ c.action = "update"
        /\ c.id \in DOMAIN fleet
        /\ target' = [target EXCEPT ![r] = c.id]
        /\ version' = [version EXCEPT ![r] = fleet[c.id].version]
    /\ Goto(r, "update")
    /\ UNCHANGED <<fly, plan, todo, deferred, created, undo, history, budget>>

\* The call failed, or the machine disappeared since it was listed.
GetMachineFails(r) ==
    /\ pc[r] = "rollout"
    /\ \E c \in todo[r] :
        /\ First(todo[r], c)
        /\ c.action = "update"
        /\ IF c.id \in DOMAIN fleet THEN FaultsLeft /\ Spend("faults") ELSE UNCHANGED budget
    /\ RollBack(r)
    /\ UNCHANGED <<fly, plan, todo, deferred, created, target, version, history>>

CanUpdate(r) == target[r] \in DOMAIN fleet /\ fleet[target[r]].version = version[r]

UpdateMachine(r) ==
    /\ pc[r] = "update"
    /\ CanUpdate(r)
    /\ \E c \in todo[r] :
        /\ First(todo[r], c)
        /\ fleet' = Put(fleet, target[r], Updated(fleet[target[r]], plan[r], c))
    /\ written' = [written EXCEPT ![r] = @ \cup {target[r]}]
    /\ Goto(r, "wait")
    /\ UNCHANGED <<used, plan, todo, deferred, created, target, version, undo, verified, unclean, before, mishaps, budget>>

\* Refused because the machine is gone or changed since it was read, failed,
\* or answered into the void after taking effect.  Not retried.
UpdateFails(r) ==
    /\ pc[r] = "update"
    /\ \/ UNCHANGED fleet /\ IF CanUpdate(r) THEN FaultsLeft /\ Spend("faults") ELSE UNCHANGED budget
       \/ /\ CanUpdate(r) /\ FaultsLeft /\ Spend("faults")
          /\ \E c \in todo[r] :
                /\ First(todo[r], c)
                /\ fleet' = Put(fleet, target[r], Updated(fleet[target[r]], plan[r], c))
    /\ RollBack(r)
    /\ UNCHANGED <<used, plan, todo, deferred, created, target, version, history>>

Passing(id) == id \in DOMAIN fleet /\ fleet[id].health = "passing"

\* WaitForState, then WaitForHealthy: the machine is there, started, and no
\* check reports anything but passing.  A replaced machine is deleted later.
VerifyPresent(r) ==
    /\ pc[r] = "wait"
    /\ target[r] \in DOMAIN fleet
    /\ verified' = [verified EXCEPT ![r] = @ \cup {id \in {target[r]} : Passing(id)}]
    /\ \E c \in todo[r] :
        /\ First(todo[r], c)
        /\ todo' = [todo EXCEPT ![r] = @ \ {c}]
        /\ deferred' = [deferred EXCEPT ![r] = IF c.action = "replace" THEN @ \cup {c} ELSE @]
    /\ Goto(r, "rollout")
    /\ UNCHANGED <<fly, plan, created, target, version, undo, written, unclean, before, mishaps, budget>>

Verify(r) ==
    /\ pc[r] = "wait"
    /\ Passing(target[r])
    /\ verified' = [verified EXCEPT ![r] = @ \cup {id \in {target[r]} : Passing(id)}]
    /\ \E c \in todo[r] :
        /\ First(todo[r], c)
        /\ todo' = [todo EXCEPT ![r] = @ \ {c}]
        /\ deferred' = [deferred EXCEPT ![r] = IF c.action = "replace" THEN @ \cup {c} ELSE @]
    /\ Goto(r, "rollout")
    /\ UNCHANGED <<fly, plan, created, target, version, undo, written, unclean, before, mishaps, budget>>

\* A timeout or a failed call.  Waiting for a machine that cannot get healthy
\* times out without further fault.
VerifyFailsNoDeadline(r) ==
    /\ pc[r] = "wait"
    /\ target[r] \notin DOMAIN fleet
    /\ RollBack(r)
    /\ UNCHANGED <<fly, plan, todo, deferred, created, target, version, history, budget>>

VerifyFails(r) ==
    /\ pc[r] = "wait"
    /\ IF target[r] \in DOMAIN fleet /\ fleet[target[r]].health # "failing"
       THEN FaultsLeft /\ Spend("faults")
       ELSE UNCHANGED budget
    /\ RollBack(r)
    /\ UNCHANGED <<fly, plan, todo, deferred, created, target, version, history>>

\* deferredDeletes, in the order the changes were executed.  DeleteMachine is
\* retried and a missing machine counts as deleted.
DeleteOldEarly(r) ==
    /\ pc[r] = "rollout"
    /\ \E c \in deferred[r] :
        /\ First(deferred[r], c)
        /\ Remove(c.id)
        /\ deferred' = [deferred EXCEPT ![r] = @ \ {c}]
    /\ UNCHANGED <<pc, plan, todo, created, target, version, undo, history, budget>>

DeleteOld(r) ==
    /\ pc[r] = "rollout"
    /\ todo[r] = {}
    /\ \E c \in deferred[r] :
        /\ First(deferred[r], c)
        /\ Remove(c.id)
        /\ deferred' = [deferred EXCEPT ![r] = @ \ {c}]
    /\ UNCHANGED <<pc, plan, todo, created, target, version, undo, history, budget>>

DeleteOldFails(r) ==
    /\ pc[r] = "rollout"
    /\ todo[r] = {}
    /\ FaultsLeft
    /\ Spend("faults")
    /\ \E c \in deferred[r] :
        /\ First(deferred[r], c)
        /\ UNCHANGED fly \/ Remove(c.id)
    /\ RollBack(r)
    /\ UNCHANGED <<plan, todo, deferred, created, target, version, history>>

Succeed(r) ==
    /\ pc[r] = "rollout"
    /\ todo[r] = {}
    /\ deferred[r] = {}
    /\ Goto(r, "done")
    /\ UNCHANGED <<fly, plan, todo, deferred, created, target, version, undo, history, budget>>

-----------------------------------------------------------------------------
\* rollback() tries to delete every created machine, whatever happens to the
\* others, so their order does not matter, and collects the errors.
Undo(r) ==
    /\ pc[r] = "rollback"
    /\ \E id \in undo[r] :
        /\ Remove(id)
        /\ undo' = [undo EXCEPT ![r] = @ \ {id}]
    /\ UNCHANGED <<pc, plan, todo, deferred, created, target, version, history, budget>>

UndoFailsStops(r) ==
    /\ pc[r] = "rollback"
    /\ FaultsLeft
    /\ Spend("faults")
    /\ \E id \in undo[r] :
        /\ UNCHANGED fly \/ Remove(id)
        /\ unclean' = [unclean EXCEPT ![r] = @ \cup {id}]
    /\ undo' = [undo EXCEPT ![r] = {}]
    /\ UNCHANGED <<pc, plan, todo, deferred, created, target, version, written, verified, before, mishaps>>

UndoFails(r) ==
    /\ pc[r] = "rollback"
    /\ FaultsLeft
    /\ Spend("faults")
    /\ \E id \in undo[r] :
        /\ UNCHANGED fly \/ Remove(id)
        /\ undo' = [undo EXCEPT ![r] = @ \ {id}]
        /\ unclean' = [unclean EXCEPT ![r] = @ \cup {id}]
    /\ UNCHANGED <<pc, plan, todo, deferred, created, target, version, written, verified, before, mishaps>>

RolledBack(r) ==
    /\ pc[r] = "rollback"
    /\ undo[r] = {}
    /\ Goto(r, "failed")
    /\ UNCHANGED <<fly, plan, todo, deferred, created, target, version, undo, history, budget>>

Crash(r) ==
    /\ pc[r] \notin Idle
    /\ budget.crashes < MaxCrashes
    /\ Spend("crashes")
    /\ Goto(r, "crashed")
    /\ UNCHANGED <<fly, plan, todo, deferred, created, target, version, undo, history>>

-----------------------------------------------------------------------------
(***************************************************************************)
(* The world outside.                                                      *)
(***************************************************************************)
\* A machine whose configuration was just written boots and its checks settle.
Settle(id) ==
    /\ id \in DOMAIN fleet
    /\ fleet[id].health = "unknown"
    /\ \/ fleet' = [fleet EXCEPT ![id].health = "passing"] /\ UNCHANGED budget
       \/ fleet' = [fleet EXCEPT ![id].health = "failing"] /\ FaultsLeft /\ Spend("faults")
    /\ UNCHANGED <<used, locals, history>>

\* Somebody destroys a machine by other means.
Vanish(id) ==
    /\ id \in DOMAIN fleet
    /\ budget.vanished < MaxVanished
    /\ Spend("vanished")
    /\ Remove(id)
    /\ UNCHANGED <<locals, history>>

-----------------------------------------------------------------------------
Init ==
    /\ fleet \in InitialFleets
    /\ used = DOMAIN fleet
    /\ pc = [r \in Runners |-> "idle"]
    /\ plan = [r \in Runners |-> NoPlan]
    /\ todo = [r \in Runners |-> {}]
    /\ deferred = [r \in Runners |-> {}]
    /\ created = [r \in Runners |-> {}]
    /\ target = [r \in Runners |-> NoMachine]
    /\ version = [r \in Runners |-> 0]
    /\ undo = [r \in Runners |-> {}]
    /\ written = [r \in Runners |-> {}]
    /\ verified = [r \in Runners |-> {}]
    /\ unclean = [r \in Runners |-> {}]
    /\ before = [r \in Runners |-> <<>>]
    /\ mishaps = [r \in Runners |-> 0]
    /\ budget = [applies |-> 0, faults |-> 0, crashes |-> 0, vanished |-> 0]

ReleaseStep(r) ==
    \/ ReleaseCreate(r) \/ ReleaseCreateFails(r)
    \/ ReleaseSucceeds(r) \/ ReleaseFails(r)
    \/ ReleaseCleanup(r) \/ ReleaseCleanupFails(r)

RolloutStep(r) ==
    \/ CreateMachine(r) \/ CreateFails(r)
    \/ GetMachine(r) \/ GetMachineFails(r)
    \/ UpdateMachine(r) \/ UpdateFails(r)
    \/ Verify(r) \/ VerifyFails(r)
    \/ DeleteOld(r) \/ DeleteOldFails(r) \/ Succeed(r)

RollbackStep(r) == Undo(r) \/ UndoFails(r) \/ RolledBack(r)

\* The steps of an invocation that is under way.
Advance(r) ==
    MakePlan(r) \/ PlanFails(r) \/ ReleaseStep(r) \/ RolloutStep(r) \/ RollbackStep(r)

Next ==
    \/ \E r \in Runners, p \in Plans : Start(r, p)
    \/ \E r \in Runners : Advance(r) \/ Crash(r)
    \/ \E id \in MachineIds : Settle(id) \/ Vanish(id)

Spec == Init /\ [][Next]_vars

\* Every call returns (clients time out, waits have deadlines, retries are
\* counted), so an invocation that is not killed keeps going; machines settle.
Fairness ==
    /\ \A r \in Runners : WF_vars(Advance(r))
    /\ \A id \in MachineIds : WF_vars(Settle(id))

FairSpec == Spec /\ Fairness

-----------------------------------------------------------------------------
Change == [action : Actions, group : GroupNames, id : Int]

FleetOK ==
    /\ DOMAIN fleet \subseteq MachineIds
    /\ \A id \in DOMAIN fleet : fleet[id] \in Machine
    /\ DOMAIN fleet \subseteq used
    /\ used \subseteq MachineIds

LocalsOK ==
    /\ pc \in [Runners -> Phases]
    /\ plan \in [Runners -> Plans \cup {NoPlan}]
    /\ \A r \in Runners : pc[r] # "idle" => plan[r] \in Plans
    /\ todo \in [Runners -> SUBSET Change]
    /\ deferred \in [Runners -> SUBSET Change]
    /\ created \in [Runners -> SUBSET MachineIds]
    /\ target \in [Runners -> MachineIds \cup {NoMachine}]
    /\ version \in [Runners -> Nat]
    /\ undo \in [Runners -> SUBSET MachineIds]

HistoryOK ==
    /\ written \in [Runners -> SUBSET MachineIds]
    /\ verified \in [Runners -> SUBSET MachineIds]
    /\ unclean \in [Runners -> SUBSET MachineIds]
    /\ \A r \in Runners : DOMAIN before[r] \subseteq GroupNames
    /\ mishaps \in [Runners -> Nat]

BudgetOK == budget \in [applies : Nat, faults : Nat, crashes : Nat, vanished : Nat]

\* The fleet, the invocations' variables and their histories are well-formed.
TypeOK == FleetOK /\ LocalsOK /\ HistoryOK /\ BudgetOK

\* What a machine is: everything the tool writes, not its momentary health.
Identity(machine) == <<machine.group, machine.hash, machine.region, machine.version>>

-----------------------------------------------------------------------------
(***************************************************************************)
(* Properties                                                              *)
(***************************************************************************)
\* The invocation whose step this is.
Acting(r) == pc'[r] # pc[r] \/ deferred'[r] # deferred[r] \/ undo'[r] # undo[r]

OutsideStep == budget'.vanished # budget.vanished

\* Machines without flydeploy.group are never modified, scaled or destroyed by
\* any interleaving of applies, crashes and failed calls (planner.go:55-60 is
\* the only filter; everything later works on ids kept across many calls).
UnmanagedUntouched ==
    [][\A id \in DOMAIN fleet :
        fleet[id].group = NoGroup /\ ~OutsideStep =>
            id \in DOMAIN fleet' /\ Identity(fleet'[id]) = Identity(fleet[id])]_vars

\* An invocation destroys a machine only if it is its own release machine, one
\* it created itself (rollback), or one of the old machines - and these only
\* after every machine it wrote was seen healthy (reconcile.go:93-171).
OldKeptUntilVerified ==
    [][\A id \in DOMAIN fleet \ DOMAIN fleet' :
        ~OutsideStep => \E r \in Runners :
            /\ Acting(r)
            /\ \/ id \in created[r]
               \/ id = target[r] /\ pc[r] \in {"releaseCleanup", "releaseAbort"}
               \/ todo[r] = {} /\ written[r] \subseteq verified[r]]_vars

\* With no other actor, an old machine goes only while every desired group has
\* its minimum of machines in the desired configuration and region without it.
CapacityBeforeDelete ==
    [][\A r \in Runners : pc[r] = "rollout" /\ deferred'[r] # deferred[r] =>
        \A g \in DOMAIN plan[r].groups :
            Cardinality({m \in Members(fleet', g) : UpToDate(fleet'[m], plan[r].groups[g])})
                >= plan[r].groups[g].min]_vars

\* "Apply is idempotent": with no other actor, after a successful apply the
\* planner finds nothing left to do, whatever earlier failed or killed applies
\* and lost answers had left behind (leaked, half rolled back, release machines).
SuccessIsInSync ==
    \A r \in Runners : pc[r] = "done" => InSync(plan[r].groups, fleet)

\* Rollback tries every machine the invocation created, also after one of its own
\* calls failed: one that is still there was reported (reconcile.go:86-91).
NoSilentLeftovers ==
    \A r \in Runners : pc[r] = "failed" => created[r] \cap DOMAIN fleet \subseteq unclean[r]

\* With no other actor, an apply during which no call and no machine fails
\* succeeds, whatever earlier invocations left behind, unless one of the things
\* left is a release machine and this apply has to run the release command.
OnlyReleaseWedges ==
    \A r \in Runners : pc[r] = "failed" =>
        budget.faults > mishaps[r] \/ (plan[r].release /\ ReleaseNameTaken)

\* An invocation that is not killed ends.
Terminates ==
    \A r \in Runners : pc[r] \notin Idle ~> pc[r] \in Idle

(***************************************************************************)
(* The contract Apply implements, with its own view of the fleet: whether  *)
(* a machine carries the group key, and what it is.                        *)
(***************************************************************************)
OwnRelease(r) ==
    IF pc[r] \in {"releaseExit", "releaseCleanup", "releaseAbort"} THEN {target[r]} ELSE {}

Contract == INSTANCE AppContract WITH
    Invocations <- Runners,
    Ids <- MachineIds,
    fleet <- [id \in DOMAIN fleet |-> [managed |-> fleet[id].group # NoGroup,
                                      config |-> Identity(fleet[id])]],
    phase <- [r \in Runners |->
                IF pc[r] \in Idle THEN "idle"
                ELSE IF pc[r] = "rollback" THEN "undoing"
                ELSE IF pc[r] = "rollout" /\ todo[r] = {} THEN "pruning"
                ELSE "writing"],
    own <- [r \in Runners |-> created[r] \cup OwnRelease(r)],
    lost <- budget.vanished

\* Apply implements the contract: under every interleaving an invocation writes,
\* then prunes, or undoes only its own work, and touches managed machines only.
ImplementsContract == Contract!Spec

\* reconcile.go:62-63: "A failed rollout deletes machines created during this
\* invocation, leaving existing capacity untouched": no group is left with fewer
\* machines than it had, counting no more than the plan's minimum.
FailedApplyKeepsCapacity ==
    \A r \in Runners : pc[r] = "failed" =>
        \A g \in DOMAIN before[r] :
            LET n == Cardinality(Members(fleet, g))
            IN  n >= before[r][g] \/ n >= plan[r].groups[g].min

\* docs/migration.md:76-77: after a failed apply the app is "safe to re-apply":
\* an apply during which nothing fails succeeds, whatever was left behind.
SafeToReapply ==
    \A r \in Runners : pc[r] = "failed" => budget.faults > mishaps[r]

\* docs/migration.md:75: "failed health checks stop the rollout and roll
\* back": after a successful apply no machine of the plan fails its checks.
SuccessMeansHealthy ==
    \A r \in Runners : pc[r] = "done" =>
        \A m \in DOMAIN fleet :
            fleet[m].group \in DOMAIN plan[r].groups => fleet[m].health # "failing"
=============================================================================
