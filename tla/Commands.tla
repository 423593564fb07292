------------------------------ MODULE Commands ------------------------------
(***************************************************************************)
(* The commands of internal/command that read and write the project's      *)
(* state, run by several processes in one directory.                       *)
(*                                                                         *)
(* Each loads the whole state, works on its copy for as long as it takes   *)
(* to provision and deploy, and writes the whole copy back: the state is   *)
(* the register of StateRegister, a Load is its Read and a Persist takes   *)
(* effect at its Commit.  Nothing locks it in between.                     *)
(*                                                                         *)
(* A release is what releaseCommandHash digests, the release command and   *)
(* the image it runs in.  The rollout itself is module Reconcile; here it  *)
(* has a beginning, when machines of the new release may be running, and   *)
(* an end.  What the provisioners make is module Resources; here they      *)
(* succeed or fail.                                                        *)
(***************************************************************************)
EXTENDS Naturals, FiniteSets

CONSTANTS Processes,
          Workloads,
          Enabled,      \* the commands in use
          Releases,
          Scales,       \* [min, max] of a group
          NoRelease, NoScale, NoPlan,
          MaxCommands,  \* bound: commands started
          MaxFaults,    \* bound: failing calls
          MaxCrashes    \* bound: killed processes

VARIABLES state,     \* the file: what it holds of each workload
          planFile,  \* per workload: the artifact of plan --plan-output
          running,   \* Fly: the releases machines of a workload may run
          pc, cmd, wl,
          input,     \* each process's copy of the state
          plan,      \* what it will deploy
          ran,       \* history: releases whose command has succeeded
          asked,     \* history: the scale last saved by scale
          deployed,  \* history: the plan of the last finished rollout
          alone,     \* history: no two commands overlapped, none was generate
          budget

world == <<planFile, running>>
history == <<ran, asked, deployed, alone>>
vars == <<state, world, pc, cmd, wl, input, plan, history, budget>>

Entry == [release : Releases \cup {NoRelease}, scale : Scales \cup {NoScale}]
Plan == [release : Releases \cup {NoRelease}, scale : Scales \cup {NoScale}]

\* "apply" stands for apply and reconcile, "deploy" is generate --deploy, "exact"
\* is apply --plan-file, and "edit" is any command that writes the state back with
\* the workloads' extras as it found them: resources deprovision, provisioners add
\* and remove.  The commands that write nothing are left out.
Generates == {"generate", "deploy"}
AllCommands == Generates \cup
    {"planOutput", "apply", "exact", "scale", "scaleApply", "destroy", "edit"}

ASSUME CommandsAssumption ==
    /\ Enabled \subseteq AllCommands
    /\ NoRelease \notin Releases /\ NoScale \notin Scales
    /\ NoPlan \notin Plan
    /\ {MaxCommands, MaxFaults, MaxCrashes} \subseteq Nat

Spend(what) == budget' = [budget EXCEPT ![what] = @ + 1]
Goto(p, phase) == pc' = [pc EXCEPT ![p] = phase]

-----------------------------------------------------------------------------
(***************************************************************************)
(* Loading: LoadStateDirectory, the Score file (which may ask for another  *)
(* release each time), the workload's entry.                               *)
(***************************************************************************)
\* WithWorkload gets the workload's extras from the state; generate passes
\* empty ones.
Loaded(c, w) ==
    IF c \in Generates
    THEN [state EXCEPT ![w] = [release |-> NoRelease, scale |-> NoScale]]
    ELSE state

\* An exact plan replaces the rendered one; the others deploy what the Score
\* file says, with the saved scale, which generate does not look at.
Planned(c, w, release) ==
    IF c = "exact" THEN planFile[w]
    ELSE [release |-> release, scale |-> Loaded(c, w)[w].scale]

ReadStateUnchecked(p, c, w) ==
    /\ cmd' = [cmd EXCEPT ![p] = c]
    /\ wl' = [wl EXCEPT ![p] = w]
    /\ input' = [input EXCEPT ![p] = Loaded(c, w)]
    /\ \E release \in Releases \cup {NoRelease} :
        plan' = [plan EXCEPT ![p] = Planned(c, w, release)]
    /\ Goto(p, IF c = "edit" THEN "persist" ELSE "provision")

ReadState(p, c, w) ==
    /\ c = "exact" => planFile[w] # NoPlan
    /\ cmd' = [cmd EXCEPT ![p] = c]
    /\ wl' = [wl EXCEPT ![p] = w]
    /\ input' = [input EXCEPT ![p] = Loaded(c, w)]
    /\ \E release \in Releases \cup {NoRelease} :
        plan' = [plan EXCEPT ![p] = Planned(c, w, release)]
    /\ Goto(p, IF c = "edit" THEN "persist" ELSE "provision")

Load(p, c, w) ==
    /\ pc[p] = "idle"
    /\ c \in Enabled
    /\ budget.commands < MaxCommands
    /\ Spend("commands")
    /\ ReadState(p, c, w)
    /\ alone' = (alone /\ c \notin Generates /\ \A q \in Processes : pc[q] = "idle")
    /\ UNCHANGED <<state, world, ran, asked, deployed>>

\* scale --apply goes on as a reconcile of its own.
Reload(p) ==
    /\ pc[p] = "reload"
    /\ ReadState(p, "apply", wl[p])
    /\ UNCHANGED <<state, world, history, budget>>

-----------------------------------------------------------------------------
(***************************************************************************)
(* ProvisionResources.  Only generate persists what a failing one leaves.  *)
(***************************************************************************)
AfterProvision(c) ==
    IF c \in {"scale", "scaleApply"} THEN "save"
    ELSE IF c = "planOutput" THEN "write" ELSE "persist"

Provision(p) ==
    /\ pc[p] = "provision"
    /\ Goto(p, AfterProvision(cmd[p]))
    /\ UNCHANGED <<state, world, cmd, wl, input, plan, history, budget>>

ProvisionFails(p) ==
    /\ pc[p] = "provision"
    /\ budget.faults < MaxFaults
    /\ Spend("faults")
    /\ Goto(p, IF cmd[p] \in Generates THEN "persistOnly" ELSE "idle")
    /\ UNCHANGED <<state, world, cmd, wl, input, plan, history>>

-----------------------------------------------------------------------------
(***************************************************************************)
(* Writing the state.                                                      *)
(***************************************************************************)
AfterPersist(p) ==
    IF pc[p] = "persistOnly" \/ cmd[p] \in {"generate", "edit"} THEN "idle"
    ELSE IF cmd[p] = "destroy" THEN "destroy"
    ELSE "release"

Persist(p) ==
    /\ pc[p] \in {"persist", "persistOnly"}
    /\ state' = input[p]
    /\ Goto(p, AfterPersist(p))
    /\ UNCHANGED <<world, cmd, wl, input, plan, history, budget>>

\* runMachineScale: the second load only checks that the file is there.
SaveScale(p, scale) ==
    /\ pc[p] = "save"
    /\ state' = [input[p] EXCEPT ![wl[p]].scale = scale]
    /\ asked' = [asked EXCEPT ![wl[p]] = scale]
    /\ Goto(p, IF cmd[p] = "scaleApply" THEN "reload" ELSE "idle")
    /\ UNCHANGED <<world, cmd, wl, input, plan, ran, deployed, alone, budget>>

\* plan --plan-output.
WritePlan(p) ==
    /\ pc[p] = "write"
    /\ planFile' = [planFile EXCEPT ![wl[p]] = plan[p]]
    /\ Goto(p, "idle")
    /\ UNCHANGED <<state, running, cmd, wl, input, plan, history, budget>>

-----------------------------------------------------------------------------
(***************************************************************************)
(* Deploying: applyMachinePlanLive, and the same steps in generate.        *)
(***************************************************************************)
\* releaseOptions: the release command is skipped when the state, as loaded,
\* has its hash.
SkipWhenReleased(p) ==
    plan[p].release = NoRelease \/ input[p][wl[p]].release # NoRelease
Skip(p) ==
    plan[p].release = NoRelease \/ input[p][wl[p]].release = plan[p].release

SkipRelease(p) ==
    /\ pc[p] = "release"
    /\ Skip(p)
    /\ Goto(p, "rollout")
    /\ UNCHANGED <<state, world, cmd, wl, input, plan, history, budget>>

RunRelease(p) ==
    /\ pc[p] = "release"
    /\ ~Skip(p)
    /\ ran' = [ran EXCEPT ![wl[p]] = @ \cup {plan[p].release}]
    /\ Goto(p, "rollout")
    /\ UNCHANGED <<state, world, cmd, wl, input, plan, asked, deployed, alone, budget>>

\* The command may have succeeded when the wait or the removal of its machine
\* did not.
ReleaseFails(p) ==
    /\ pc[p] = "release"
    /\ ~Skip(p)
    /\ budget.faults < MaxFaults
    /\ Spend("faults")
    /\ UNCHANGED ran \/ ran' = [ran EXCEPT ![wl[p]] = @ \cup {plan[p].release}]
    /\ Goto(p, "idle")
    /\ UNCHANGED <<state, world, cmd, wl, input, plan, asked, deployed, alone>>

StartRollout(p) ==
    /\ pc[p] = "rollout"
    /\ running' = [running EXCEPT ![wl[p]] = @ \cup {plan[p].release}]
    /\ Goto(p, "rolling")
    /\ UNCHANGED <<state, planFile, cmd, wl, input, plan, history, budget>>

\* persistReleaseHash follows only a rollout that did not skip, and only when
\* there is a release command.
FinishRollout(p) ==
    /\ pc[p] = "rolling"
    /\ running' = [running EXCEPT ![wl[p]] =
            IF \E q \in Processes \ {p} : pc[q] = "rolling" /\ wl[q] = wl[p]
            THEN @ ELSE {plan[p].release}]
    /\ deployed' = [deployed EXCEPT ![wl[p]] = plan[p]]
    /\ Goto(p, IF Skip(p) THEN "idle" ELSE "record")
    /\ UNCHANGED <<state, planFile, cmd, wl, input, plan, ran, asked, alone, budget>>

\* persistReleaseHash: the state as loaded before the rollout, and the hash.
RecordReleaseAlone(p) ==
    /\ pc[p] = "record"
    /\ state' = [input[p] EXCEPT ![wl[p]].release = plan[p].release, ![wl[p]].scale = NoScale]
    /\ Goto(p, "idle")
    /\ UNCHANGED <<world, cmd, wl, input, plan, history, budget>>

RecordReleaseLost(p) ==
    /\ pc[p] = "record"
    /\ state' = input[p]
    /\ Goto(p, "idle")
    /\ UNCHANGED <<world, cmd, wl, input, plan, history, budget>>

RecordRelease(p) ==
    /\ pc[p] = "record"
    /\ state' = [input[p] EXCEPT ![wl[p]].release = plan[p].release]
    /\ Goto(p, "idle")
    /\ UNCHANGED <<world, cmd, wl, input, plan, history, budget>>

-----------------------------------------------------------------------------
\* runMachineDestroy; the workload's entry stays in the state.
Destroy(p) ==
    /\ pc[p] = "destroy"
    /\ running' = [running EXCEPT ![wl[p]] = {}]
    /\ deployed' = [deployed EXCEPT ![wl[p]] = NoPlan]
    /\ Goto(p, "idle")
    /\ UNCHANGED <<state, planFile, cmd, wl, input, plan, ran, asked, alone, budget>>

\* Any other call fails and the command returns its error: a file that cannot
\* be written, a plan that is invalid, a rollout that is rolled back.
Quit(p) ==
    /\ pc[p] \in {"persist", "persistOnly", "save", "write", "reload", "release",
                  "rollout", "rolling", "record", "destroy"}
    /\ budget.faults < MaxFaults
    /\ Spend("faults")
    /\ Goto(p, "idle")
    /\ UNCHANGED <<state, world, cmd, wl, input, plan, history>>

Crash(p) ==
    /\ pc[p] # "idle"
    /\ budget.crashes < MaxCrashes
    /\ Spend("crashes")
    /\ Goto(p, "idle")
    /\ UNCHANGED <<state, world, cmd, wl, input, plan, history>>

Deploy(p) ==
    \/ SkipRelease(p) \/ RunRelease(p) \/ ReleaseFails(p)
    \/ StartRollout(p) \/ FinishRollout(p) \/ RecordRelease(p)

Step(p) ==
    \/ \E c \in AllCommands, w \in Workloads : Load(p, c, w)
    \/ Reload(p)
    \/ Provision(p) \/ ProvisionFails(p)
    \/ Persist(p)
    \/ \E scale \in Scales : SaveScale(p, scale)
    \/ WritePlan(p)
    \/ Deploy(p)
    \/ Destroy(p)
    \/ Quit(p) \/ Crash(p)

Blank == [w \in Workloads |-> [release |-> NoRelease, scale |-> NoScale]]

Init ==
    /\ state = Blank
    /\ planFile = [w \in Workloads |-> NoPlan]
    /\ running = [w \in Workloads |-> {}]
    /\ pc = [p \in Processes |-> "idle"]
    /\ cmd = [p \in Processes |-> "apply"]
    /\ \E w \in Workloads : wl = [p \in Processes |-> w]
    /\ input = [p \in Processes |-> Blank]
    /\ plan = [p \in Processes |-> [release |-> NoRelease, scale |-> NoScale]]
    /\ ran = [w \in Workloads |-> {}]
    /\ asked = [w \in Workloads |-> NoScale]
    /\ deployed = [w \in Workloads |-> NoPlan]
    /\ alone = TRUE
    /\ budget = [commands |-> 0, faults |-> 0, crashes |-> 0]

Next == \E p \in Processes : Step(p)

Spec == Init /\ [][Next]_vars

-----------------------------------------------------------------------------
Phases == {"idle", "reload", "provision", "persist", "persistOnly", "save", "write",
           "release", "rollout", "rolling", "record", "destroy"}

\* The state, every process's copy of it and plan, and what runs, are well-formed.
TypeOK ==
    /\ state \in [Workloads -> Entry]
    /\ planFile \in [Workloads -> Plan \cup {NoPlan}]
    /\ running \in [Workloads -> SUBSET (Releases \cup {NoRelease})]
    /\ pc \in [Processes -> Phases]
    /\ cmd \in [Processes -> AllCommands]
    /\ wl \in [Processes -> Workloads]
    /\ input \in [Processes -> [Workloads -> Entry]]
    /\ plan \in [Processes -> Plan]
    /\ ran \in [Workloads -> SUBSET Releases]
    /\ asked \in [Workloads -> Scales \cup {NoScale}]
    /\ deployed \in [Workloads -> Plan \cup {NoPlan}]
    /\ alone \in BOOLEAN
    /\ budget \in [commands : Nat, faults : Nat, crashes : Nat]

Mishaps == budget.faults + budget.crashes

\* Machines run a release only after its command has succeeded at least once,
\* whatever processes overwrite each other's state, and however stale the state
\* is that the decision to skip rests on (machine_commands.go:171-199).
RolloutAfterRelease ==
    \A w \in Workloads : running[w] \subseteq ran[w] \cup {NoRelease}

\* apply and reconcile deploy the scale last saved (TestMachineScaleOverride-
\* SurvivesSubsequentLoads, machine_commands_test.go:173), whatever fails or is
\* killed on the way, as long as commands do not overlap and none is generate.
ApplyObeysScale ==
    \A p \in Processes :
        alone /\ pc[p] = "rolling" /\ cmd[p] = "apply" => plan[p].scale = asked[wl[p]]

\* "One-off release commands run exactly once per plan change, tracked in local
\* state" (docs/migration.md:78-79): the command of the release that was deployed
\* last is not run again, unless a command has failed or was killed, commands
\* overlapped, or generate was used.
ReleaseOnlyOnChange ==
    [][\A p \in Processes :
        pc[p] = "release" /\ ~Skip(p) /\ pc'[p] = "rollout" =>
            \/ deployed[wl[p]] = NoPlan
            \/ deployed[wl[p]].release # plan[p].release
            \/ Mishaps > 0 \/ ~alone]_vars
=============================================================================
