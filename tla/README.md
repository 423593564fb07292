# score-flyio in TLA+

score-flyio turns a Score workload into machines on Fly.io. It renders a desired
plan, diffs it against the machines that run, and carries the difference out call by
call against the Machines API, keeping what it has to remember in one local file.
These modules specify that machinery: what happens when calls fail, answers are lost,
processes are killed, and two of them work on the same app or the same directory.

Paths below are relative to `src/`. The check of every module is TLC on a small
instance; the theorems are checked by TLAPS and hold for every value of the constants.

- [1. The system](#1-the-system)
- [2. Modules and code](#2-modules-and-code)
- [3. Runs](#3-runs)
- [4. Disagreements between code and documents](#4-disagreements-between-code-and-documents)
- [5. Fairness](#5-fairness)
- [6. Proofs](#6-proofs)
- [7. Mutants](#7-mutants)
- [8. What is not modelled](#8-what-is-not-modelled)
- [9. Plan](#9-plan)

## 1. The system

Each command is one process that runs to its end; there is no daemon. Concurrency
comes from several invocations (two operators, an operator and a CI job) that share a
Fly app, a project directory, or both. Nothing locks the app, and nothing locks the
state between the load at the start of a command and the persist at its end. The
program installs no signal handler (`internal/command/root.go`), so an interrupt can
end it between any two calls.

| Component | State it keeps | Operations | Talks to |
| --- | --- | --- | --- |
| planner (`pkg/flydeploy/planner`) | none: a pure function | `Diff` | called by reconcile |
| reconcile (`pkg/flydeploy/reconcile`) | per apply: what was created, what is to be deleted; in Fly: the machines | `Plan`, `Apply` with release command, rollout, deferred deletes, rollback | planner, deployer |
| deployer (`pkg/flydeploy/deployer`) | none between calls; deadlines and attempts within one | create, update, delete, list, act on a machine, the three waits, retries, `EnsureApp`, `SetSecrets` | client |
| state file (`pkg/state`) | `.score-flyio/state.yaml`, its temp file, the lock file | `LoadStateDirectory`, `Persist` | the file system, other processes |
| command flow (`internal/command`) | a copy of the state per command; plan files with a checksum, secrets files | generate, validate, plan, apply, reconcile, scale, destroy, status, suspend, resume, init, provisioners | state file, provisioning, conversion, reconcile, deployer |
| resource provisioning (`internal/provisioners`) | resources and shared state, in the state | `ProvisionResources`, `DeProvisionResource` | provisioners, state file |
| builtin Postgres (`internal/provisioners/builtin`) | the shared app and its list of databases, in the shared state; in Fly: apps, databases | provision and deprovision a database or an instance | Machines API, `flyctl` |
| machine configuration (`pkg/flydeploy/machineconfig`) | none | `Validate`, a service to JSON and back, rendering for Fly, `ConfigHash` | called by reconcile, convert and the plan file |
| conversion (`internal/convert`) | the global `secretAccessed` of `internal/provisioners` | `MachinePlanWithSecrets`, `Workload` | called by the commands, after provisioning in the same process |
| metadata (`internal/flymetadata`), legacy configuration (`internal/appconfig`) | none | recognising the published shape, renaming it, decoding, `Validate` | called by conversion |
| client (`pkg/flymachines`) | none | generated: a request per endpoint, a parser per response; `DeleteApp`, `GetApp` | Machines API |

`PROJECT.json` lists every part with the modules that model it, the parts left out
with the reason, and every hazard at its line.

### What is hard, and what has to hold

**planner.** Bounds met exactly, replacements counted on both sides, machines nobody
manages in the same app, iteration over maps. An executed plan must be a fixed point,
inside its bounds, with one change for each managed machine and none for the others.

**reconcile.** A create whose answer is lost leaves a machine no variable names; an
update may be refused because another apply was faster; a delete may fail after
others succeeded; rollback itself may fail; a kill runs no rollback at all. Whatever
happens, machines without the group key are not touched, an old machine goes only
after the new ones were seen healthy, what rollback leaves is reported, and the next
apply repairs what the last one left.

**deployer.** Three loops of retried calls and pauses that look at a deadline only in
between. They must end, not much after the deadline, not before it without a failed
call, and must not call a machine ready that was not.

**state file.** Readers take no lock, writers do; a writer may be killed holding it or
in the middle of the temp file. The file must behave as an atomic register, and a
file of a newer version of the tool must survive.

**command flow.** Each command writes back the whole state it loaded minutes before.
Whatever is lost that way, no machine may run a release whose command never
succeeded; and for one command at a time the saved scale is obeyed and a release
command is not run twice.

**conversion.** Whether a `${...}` reads a secret is told by a global flag that each
watched substitution resets and that nobody resets after an unwatched one; three layers
write one environment and one map of secrets; a group takes its shape from one process
and its containers from others. No secret may land among the plain values, the innermost
layer must win, and every container must run in its group on the shape it asked for.

**life of an app.** `EnsureApp` looks up, creates and looks up again; secrets are set one
call at a time; destroy lists, deletes, lists again and deletes the app. Each answer has
a meaning of its own (a 404 may be "missing", success or failure, a body that does not
decode may or may not matter), some calls are repeated and some must not be, and other
operators are at the same app. Nothing may run before its secrets, a reported success
must be one, a failure must have a cause, and what is removed must be meant.

**metadata.** One contract in two spellings that four keys at the top tell apart. What
is accepted must mean what was written, through renaming, units, defaults and ranges.

**plan file.** A checksum over JSON that is decoded and encoded again, digests of
configurations that come out of maps in any order, and a Score file that may have
changed since. What is applied must be what one document asked for, and its digest
must not depend on luck.

**provisioning.** The shared Postgres app is deleted with the last database of a list
that is kept apart from the resources. The two must agree, no deprovision may take
another resource with it, and what was made must be known to the state.

## 2. Modules and code

The names of actions and operators are in the map of `PROJECT.json` with the lines
they stand for. A module carries its properties at its end; `MC<Module>` gives it the
values of a run; `<Module>Proofs` holds its theorems.

**Planner** has no state. `Diff(desired, live)` is the set of changes of
`planner.Diff`; names and ids are integers for their rank in string order, which is
all the code uses of them, and a configuration is its hash. `Members` is the filter on
the group key, `Kept`/`Missing`/`Excess` the arithmetic of one group, `Before` the
order of the result.

**PlannerCheck** executes a whole diff without failures, `Execute(p)`, from every
small fleet, again and again with any plan.

**Reconcile** is `Apply`, one action for one API call with the code that follows it up
to the next call. Variables: `fleet` (what Fly stores, with a version per machine),
per runner the program counter, the plan, the changes left, `created`, the machines to
delete, the handles it holds. `Start` is the beginning of Apply with the plan taken
from `MakePlan`; `ReleaseCreate … ReleaseCleanup` are `runReleaseCommand`;
`CreateMachine`, `GetMachine`, `UpdateMachine`, `Verify`, `DeleteOld`, `Succeed` the
loop over the changes and the deferred deletes; `Undo`, `RolledBack` the rollback
closure. Each has a `…Fails` action: the call failed, and a create, update or delete
that failed may have happened all the same. `Crash` is a kill, `Vanish` a machine
destroyed from outside, `Settle` a machine that becomes healthy or not. An update
carries the version `GetMachine` read and is refused when it is no longer current.

**AppContract** is what an owner of the app may rely on: an invocation writes, then
prunes, or undoes only what it added, and never goes back. `Outside` is a machine
destroyed by other means, which the variable `lost` counts: a delete by an invocation,
which leaves the count, has to be a `Remove`. `Reconcile` implements it under the mapping
at its end (`ImplementsContract`), with `vanished` of its budget for `lost`.

**Waits** is one wait of the deployer against a clock: `WaitForState` and
`WaitForHealthy` in the order Apply calls them, and `WaitExit`. `Loop`, `Waited` and
`GotState` are `waitForState`, `GotHealth` and `GotExit` the other two loops,
`GotEvents` is `exitCode`, `Call`, `Retry` and `Again` are `retryValue`, `Pause` and
`Wake` are `pause` and `sleep`. The machine changes whenever it likes (`Change`), what
a call reports is what Fly saw at some moment between request and answer (`Serve`),
and the wait endpoint may report success at any moment, as the comment at
`deployer.go:395-396` fears.

**StateFile** is `Persist` and `LoadStateDirectory`, one action per system call, on a
disk kept by inode: a name points to an inode, an open file keeps its own. `Lock` is
`flock` on the lock file, `OpenTemp`, `WriteSome`, `WriteAll` and `Rename` the write,
`OpenState` and `Read` the load, `Accepts` its check of the schema version.

**StateRegister** is an atomic register of many clients. `StateFile` implements it: a
read takes effect at its open, a write at its rename.

**Commands** is the flow of each command over the state. A load copies the register, a
persist overwrites it with the copy; in between a process provisions, runs the release
command, rolls out. `Loaded` empties the extras of a workload for generate
(`generate.go:125`); `Skip` is the decision to leave the release command out;
`RecordRelease` is `persistReleaseHash`; `SaveScale`, `Reload` are the two halves of
`scale`; `WritePlan` and the command `"exact"` are `plan --plan-output` and
`apply --plan-file`. A release is what `releaseCommandHash` digests. `running` and
`ran` remember what was deployed and which commands succeeded; `alone` is lost as soon as
two commands overlap or one is a generate.

**Resources** is provisioning with the builtin provisioners: each call to Fly is an
action, `Own`, `ShareApp`, `AddDatabase`, `Dropped`, `Forget` are what the answers do to
the copy of the state, and a command persists after a failure (generate), only after
a success (apply and its like) or never (validate and plan: `"look"`).

**Rendering** takes one workload from the parameters of its resources to a valid plan.
`Provision` substitutes a parameter (`provisioning.go:64`), `Convert` checks the metadata
(`ValidMetadata`) and makes the groups; for each container, in the order of names, come
`Image`, a `Variable` for each key of each layer, `File`, `Volume`, and `Attach`, which
adds container and service to the group; `Validate` is `Plan.Validate`. `kind` says which
of the two renderers runs: `"machine"` (`machine.go`) or `"toml"` (`convert.go`), which
has one container, one layer, and secret files where a machine plan refuses them.
`Watched` and `Unwatched` are a substitution with and without
`BuildSubstitutionFuncWithSecretWatch`. `wanted` remembers the innermost definition of
each key, `strays` counts the unwatched reads of a secret less the values wrongly taken
for one. `Again` is the second rendering of `scale --apply`, with the flag as it was left.

**FlyApi** is the generated client as far as the deployer uses it: the request of each of
fourteen endpoints and what each `Parse…Response` makes of an answer. Which statuses are
decoded, and so which bodies can fail, differs from function to function.

**AppLife** is one app on Fly and the commands that work on it call by call: a deploy of
one group of one machine with `EnsureApp` and `SetSecrets` before it, destroy, status,
suspend and the other actions. `Sent` is the request of a place in a command, `Deliver`
its way through Fly (`Endpoint`) and back, with what may go wrong on it (`Troubles`),
`Verdict` what the deployer makes of it, by functions with the deployer's own names.
`TryAgain` is `retryValue`; `AppFound … SecretSet`, `Diffed … RolledBack` and `ToDelete …
AppDeleted` are the commands; `Fails` and `RolloutFails` their error paths; `Outside` is
what other people do. `past` is history: what a command has done, and what it was up
against.

**FlyMetadata** takes a document, five dictionaries, through `Parse`
(`HasPublishedShape`, `NormalizePublishedShape`, `Decodes`), `Validate`, the conversion
of one process (`Rendered`) and `Plan.Validate` (`Renders`). **MetadataCheck** begins
with a draft and writes documents fact by fact in either spelling and validates them;
the values of a fact and the drafts are constants.

**PlanFile** writes a plan (`WritePlan`), changes what may change in between (`EditScore`,
`EditPlan`, `EditSecrets`), and applies from the file or anew (`ApplyPlanFile`, `Apply`).
An object of JSON is its fields and whether `auto_start` was moved behind fields that
follow it in the struct (`Object`, `AfterAutoStart`), which is the case only if one of
these is written; `MarshalService` and `UnmarshalService` are the encoding of a service
and back. `Orders` is the order in which Go may range over a map, and a digest is what it
digests.

How they compose: AppLife sends its requests through FlyApi; MetadataCheck and PlanFile
stand on FlyMetadata. Commands treats the rollout as one interval (it is Reconcile) and
provisioning as success or failure (it is Resources); both take a load and a persist
for atomic, which StateFile is proved to implement; Reconcile takes a wait for a call
that answers or fails and sees one version of the machine, which Waits is about, and
a call for one that has an effect or not and answers or not, which is AppLife. Parts
that share no state are checked in one run: `MCParts`, `MCCommands` and `MCRendering` have
a variable `part` that each behaviour keeps, one part moves, and the others rest in a
single state. The number of states is the sum of theirs, and no property spans two.

## 3. Runs

Twelve runs, six that pass and six that show a disagreement (section 4). Every
bound is a constant named `Max…` or a finite set of the cfg.

| Run | Instance | Shows |
| --- | --- | --- |
| `parts`: planner | ≤ 3 live machines, 2 groups a plan may name and one it never does, 2 hashes, 2 regions | an executed diff is in sync (`ExecutedIsInSync`), in bounds (`ExecutedIsInBounds`), one change each (`OneChangePerMachine`) |
| `parts`: waits | deadline 4 and 3, requests of 2, 3 attempts, polls of 1 and 2, answers within 1, fair | `OvershootBounded`, `PatientWait`, `NoMissedAnswer`, `ReadyIsReal`, `ExitIsReal`, `WaitEnds` |
| `parts`: state file | 2 processes, 3 inodes, 2 persists, 1 failed call, 1 kill, fair | `NeverTorn`, `NewerKept`, `ImplementsRegister`, `PersistEnds` |
| `apply` | 1 runner, 5 plans, 3 fleets, 3 applies, 2 failed calls, 1 kill | `SuccessIsInSync`, `NoSilentLeftovers`, `OnlyReleaseWedges`, `CapacityBeforeDelete` |
| `apply_two` | 2 runners, 2 plans, 2 applies, 1 failed call, 1 vanished machine, fair | `UnmanagedUntouched`, `OldKeptUntilVerified`, `ImplementsContract`, `Terminates` |
| `commands`: state | 2 processes, every command but a plain generate, 2 scales, 3 commands, 1 failure, 1 kill | `RolloutAfterRelease`, `ApplyObeysScale`, `ReleaseOnlyOnChange` |
| `commands`: app | 2 operators, 2 machines, 2 secrets, 2 attempts, 2 commands, 2 troubles | `SecretsFirst`, `SuccessIsReal`, `FailsOnlyWhenDisturbed`, `NothingMadeTwice`, `LossesAreMeant` |
| `resources` | 2 processes, 2 databases, 1 cluster, 1 static, 3 commands, 1 look, 1 failure, 1 kill; less once commands have overlapped | `BooksAgree`, `RecordedExist`, `NothingLeaks`, `OthersKept` |
| `rendering`: workload | 2 containers, 2 groups, 2 shapes, 1 key in 3 layers, 1 port, 2 unwatched reads, 2 renderings | `SecretsStayOut`, `FalseAlarmsBounded`, `InnermostWins`, `PlanIsWhole` |
| `rendering`: metadata | 19 facts, each in two or three spellings, 3 edits on 4 drafts | `MeansWhatItSays` |
| `rendering`: plan file | 15 documents, 2 volumes, 2 headers, 1 secret, 2 apps, unbounded | `AppliedAsPlanned`, `HashIsStable` |

Each takes between a few seconds and two and a half minutes with two workers, for up
to ten million distinct states. Only `commands`, `resources` and `rendering` use
symmetry, and none of them checks liveness.

Why these bounds reach the interesting cases:

- *planner* (`parts`): all five actions occur, below, at and above each bound; the fleet is
  executed into again, so plans meet what other plans left. Three machines are the
  fewest with two in one group and one elsewhere.
- *apply*: a failed or killed apply, its repair, and one more: three. Two failed
  calls are a failure and another in its rollback, which has to go on and name what it
  leaves; with the kill, one in that rollback. The plans make
  every action of the planner occur, with and without release command. Ids are offered
  next to those in use, because only their order matters.
- *apply_two*: two updates of one machine, a replacement against an update. The second
  invocation is what disturbs; a third can only do what the second does.
- *waits* (`parts`): two requests fit before the deadline and three attempts pass it, in the
  proportion of the defaults (120 s, 60 s, 3 attempts). Calls may fail any number of
  times and the machine may change any number of times.
- *state file* (`parts`): one process writes while the other reads, writes or is killed;
  three inodes are the old file, the temp file, and one still open. Inodes are alike, so
  the first file is one of them, and what a process wants is read by nobody before it
  begins to persist and says it anew.
- *commands*, state: three commands are enough for A to load, B to write, A to write back, and
  a third to act on it; three in a row are enough for a deploy, a change of scale or of
  the release, and an apply. A plain generate is `generate --deploy` without what follows.
- *commands*, app: two operators meet at every call, an operator meets other people, and
  two troubles are as many as the attempts, so that a retried call fails for good, or an
  effect without an answer is followed by a loss. With two machines one is kept and one
  pruned, one deleted and one left. Two secrets have a first and a last.
- *resources*: two databases are the fewest of which one can be last and one not. Two
  processes load, make and persist in any order. Once two commands have overlapped
  (`alone` is false) only `BooksAgree` says something, and `Bounded` of MCResources goes
  on with at most three commands, or two and a failing call, and with no look and no
  kill: two commands that undo each other, and a third that works on what they left.
  `View` leaves out what a process that has ended had in its memory, and the name and the
  app it chose outside the phases that read them; no action reads these before it
  sets them.
- *rendering*: two containers share a group or do not, and the second meets what the
  first left of the flag and of the secrets. Every key goes through the same steps, so
  one in three layers shows what layers do. Two renderings are what one process does.
- *rendering*, metadata: a fact meets the level it stands on, the shape the document is
  taken for, and one more fact; three edits on drafts that already have a service and a
  check bring these together. Values are chosen at both sides of each conversion (a
  minute, whole gigabytes or not, the words of auto_stop).
- *rendering*, plan file: the documents are every combination of what a service may say
  about stopping, starting and how many run, and one each with a secret, another app and
  an image that is not pinned. Two entries are the fewest whose order can differ.

What the properties say is at each of them in the modules. Some are conditioned, and
the condition is the point:

- `SuccessIsInSync`, `CapacityBeforeDelete` and `OnlyReleaseWedges` are about an apply no
  other actor disturbs. With two, an apply works from a list that is minutes old, and
  no document promises more than the contract.
- `ReleaseOnlyOnChange` and `ApplyObeysScale` are about commands that do not overlap, since
  the last of two writes back what it loaded. They leave generate out: `generate.go:125` gives
  `WithWorkload` empty extras, so a generate forgets the saved scale and the release
  hash, and `generate --deploy` runs the release command again for an unchanged plan,
  although `docs/migration.md:78-79` says "exactly once per plan change".
- `OthersKept`, `RecordedExist` and `NothingLeaks` are about commands that do not overlap
  (`alone`): one that provisions in an app another deletes loses its database, and the
  later of two states wins. `BooksAgree` is about any.
- `NothingLeaks` leaves out validate and plan, which run the provisioners and persist
  nothing (`machine_commands.go:128`): an app or database they make is known to nobody.
- `SecretsStayOut` is about environments and files. The image of a process and the source
  of a volume are substituted without a watch (`machine.go:131`, `:265`), so a reference
  to a secret there stands in the plan, although `docs/machine-plan-contract.md:27` says
  of plans "never secret values".
- `FalseAlarmsBounded` allows for what those substitutions leave behind. The flag stays
  up after them, and the next watched reference is taken for a secret: rendering depends
  on what the process did before, although `docs/machine-plan-contract.md:21` says
  "Conversion is pure".
- `InnermostWins` says nothing of the value of a runtime secret: the app has one per name,
  and two containers that use one key for different secrets overwrite each other's.
- `PatientWait` leaves out a missing exit event: `exitCode` does not wait for one, so a
  machine that is shown as stopped before its event is listed fails the release.
- `FailsOnlyWhenDisturbed` says what a failure may be due to: a refusal, as many lost
  calls as there are attempts, or somebody who removed the app. The create of an app and
  the setting of secrets are not retried, so one lost answer may fail them.
- `SuccessIsReal` is about the machines that were there when the command began: what
  another operator adds later is not its business. After a destroy that could not list
  again the app stays, and that is reported as success (`machine_commands.go:681-685`).
- `LossesAreMeant` lets the app go with machines made after the second list, which the
  code cannot see; it says that nothing is lost which was there by then.
- `MeansWhatItSays` leaves out facts in the spelling of the other shape, which are
  refused or, inside a service, a vm or a check of the published shape, dropped; times
  in minutes, which `durationSeconds` turns into 0 (`flymetadata.go`); and the times of a
  tcp check.
- `HashIsStable` is about one document. The order of the volumes in the plan file itself
  is that of a Go map, so two plans of one document may have two checksums; Fly is given
  them sorted.
- `NoMissedAnswer` allows one poll, because `waitForState` does not look again when the
  deadline falls into its pause.

## 4. Disagreements between code and documents

| Run | Property | What TLC finds |
| --- | --- | --- |
| `reconcile_capacity` | `FailedApplyKeepsCapacity` | old machines are deleted one by one (`reconcile.go:167`); the second delete fails, and rollback deletes the new machines that had taken the place of the first. `reconcile.go:62-63`: "leaving existing capacity untouched" |
| `reconcile_health` | `SuccessMeansHealthy` | an updated machine fails its checks, the apply fails, and rollback keeps the machine with the new hash; the next apply takes it for a no-op (`planner.go:82`) and succeeds while it still fails them. `docs/migration.md:75`: "failed health checks stop the rollout and roll back" |
| `reconcile_reapply` | `SafeToReapply` | a release machine that is left over holds its fixed name (`reconcile.go:193`), and every later apply with a release command is refused. `docs/migration.md:76-77`: "safe to re-apply" |
| `deprovision` | `DeprovisionRemoves` | a static resource, or an instance whose app was just deleted, cannot be deprovisioned: the caller decodes an answer that was never written (`provisioning.go:194`) |
| `plan_refused` | `PlanIsAccepted` | a service that may be stopped, does not say whether to start, and has a `min_machines_running`, a `concurrency` or a check is encoded in one order and, once decoded, in another (`machineconfig.go:139-180`): `auto_start` comes before these fields, then after them. So `apply --plan-file` finds the wrong checksum in a plan nobody touched. `docs/machine-plan-contract.md:28-29`: "The exact plan passed to `apply` is the plan produced by `plan`" |
| `camel_refused` | `CamelIsAccepted` | the concurrency of an `httpService` is copied to the process and left in the service, where the contract has no such key (`flymetadata.go:312-316`, `:391`), so the document is refused. `docs/metadata-fly.md:82-83`: it "is accepted and normalized to the canonical snake_case form" |

Two more of the kind stand in MetadataCheck without a run of their own. `NothingIgnored`
does not hold either: below the process the published shape copies the keys it knows and
drops the others (`flymetadata.go:369-456`), although `docs/metadata-fly.md:78-79` says
of unknown fields "instead of being silently ignored". And a camelCase document that has
none of the four keys of `HasPublishedShape` at its top is not recognised and refused,
which is another way to violate `CamelIsAccepted`.

How far each of these claims does hold is proved (section 6):

| Claim | Holds | Theorem |
| --- | --- | --- |
| `FailedApplyKeepsCapacity` | when the apply fails before all it was to write is verified, that is, not among the deletes (one operator, regions reported) | `RolloutsKeepCapacity` |
| `SuccessMeansHealthy` | of every machine the apply wrote; the others it found as planned and left alone (one operator) | `WrittenMachinesAreHealthy` |
| `SafeToReapply` | unless a release machine is left and the plan has a release command; nothing else an earlier apply leaves makes a faultless one fail (one operator) | `OnlyReleaseMachinesWedge` |
| `DeprovisionRemoves` | for listed databases whose app is there; never for a cluster or a static resource (the second half as long as commands do not overlap) | `DatabasesAreRemoved`, `ClustersAndStaticsStay` |
| `PlanIsAccepted` | for an untouched file with its secrets at hand, exactly unless the document derives a true `auto_start` from `auto_stop` and writes a field after it (`MovesAutoStart`) | `PlanIsAcceptedUnlessMoved` |
| `CamelIsAccepted` | for a document that is recognised and whose service has no concurrency; its plan is that of the canonical form | `CamelMeansTheSame` |
| `NothingIgnored` | for every document that is not taken for the published shape | `ContractIgnoresNothing` |

## 5. Fairness

Safety is checked and proved without fairness. The three liveness properties assume what
follows (`WaitFairness` and `FileFairness` in `parts`, where a part that rests has
nothing enabled and fairness of it asks nothing):

- `Terminates` (Reconcile): weak fairness of each runner's `Advance`, and of `Settle` for
  each machine. A call returns or fails: retries are counted and waits have deadlines,
  which `WaitEnds` shows from the loops themselves. No step is forced to succeed.
- `WaitEnds` (Waits): time passes and calls are answered. The wait request has a timeout
  of its own (`deployer.go:509`), and the property needs it; the other calls have
  none, and that they return is an assumption on the transport. The endpoint is made
  to answer only while the machine is started.
- `PersistEnds` (StateFile): weak fairness of each process's `Persisting`. System calls
  return, and a free `flock` goes to a waiter. It is weak fairness because persists are
  bounded, so the lock is free for good in the end; that the holder may be killed is
  part of the model, and the kernel drops its lock.

## 6. Proofs

Eight modules hold theorems, all checked to the last leaf. Of the forty properties of
the passing runs, thirty-seven are theorems; the other three are liveness. Assumptions
on the constants are `ASSUME`s beside their declarations, evaluated by TLC in the runs:
constants that stand for "nothing" are not values, ids and names are integers where
order is used, bounds are natural numbers, plans are valid as `Validate` says and name
finitely many groups, whose hashes and regions are among those of machines, an app
begins with finitely many machines and a document has finitely many volumes and headers,
an author's draft has a service and only facts of the table with values they may have,
an exit code is neither of the other outcomes of a wait, no answer of Fly is the absence
of one, and the attempts at a wait request, each up to the cap of `deployer.go:509`,
last as long as its deadline. The type invariant of every component is a theorem here,
for any values, and no run checks them again.

Some theorems have a hypothesis more, the one under which the property is meant and its
run checks it (section 3). `SoleActor`: there is one runner, and nobody destroys
machines from outside. `Reported`: Fly names the region of every machine the app begins
with; to a machine without one the planner has always something to do. `RoomOnDisk`:
the disk has room for one file more than there are processes; a full disk is a failed
call, which is in the model anyway. Failed calls, lost answers,
kills and what earlier commands left are in all of them.

**PlannerProofs** – lemmas about `Diff` for every plan and fleet: it is managed
(`DiffIsManaged`), well-formed, covers every managed machine and chooses one change
for each (`DiffChoosesOne`). And it counts: `Missing` and `Excess` are the lowest slots
and the highest machines by their place in an order, and as many as they should be
because place is a bijection (`CountLowest`); so what stays and what comes of a group is
within its bounds (`DiffCounts`). `NothingToDo` is the converse, that a fleet within
bounds and up to date has no change.

**PlannerCheckProofs** – `OneChange` (`OneChangePerMachine`), from those lemmas and that
machines stay in `Slots`; `ExecutionMeetsBounds` (`ExecutedIsInBounds`) from `DiffCounts`,
and with `NothingToDo` then `ExecutionIsIdempotent` (`ExecutedIsInSync`). `PlannerTypes`:
what an executed plan leaves is a fleet again.

**ReconcileProofs** – for any number of runners, plans and machines:

- `TypeCorrect`. `TypeOK` is not inductive: what is left to do must name machines that
  a plan names, hence `TypeInv`.
- `UnmanagedSafe` (`UnmanagedUntouched`). `ManagedInv` says that every id an invocation
  holds, in any variable, is of a managed machine or of none. It is needed because the
  planner filters once and the ids are used many calls later; it is inductive because
  ids are not used twice and no write takes the group key away.
- `OldKept` (`OldKeptUntilVerified`). `WrittenInv` relates, per phase, what was written to
  what was verified: at the deletes nothing written is unverified.
- `LeftoversReported` (`NoSilentLeftovers`). `LeftInv`: what was created and still exists
  is either to be undone or noted; `NothingReturns` is why others cannot break it.
- `ContractRefined` (`ImplementsContract`). A step of one runner is a step of its
  invocation in AppContract or stutters, and a step of another leaves it where it was;
  `WrittenInv` is what makes the prunes prunes, and `NoneIsLost` that no call of an
  invocation passes for somebody else's.
- `ApplyIsNeverStuck` and `ApplyCountsDown`, the argument for `Terminates`. What an
  invocation has left to make calls about is finite (`WorkInv`), one of it comes first, and
  a call about it can be made or fail. Every step takes the invocation to a later stage
  or leaves it less in the stage it is in, and no step of others gives it more.

and for one operator:

- `OnlyReleaseMachinesWedge` (`OnlyReleaseWedges`). `WedgeInv`: at every call, what it is
  about is there in the version that was read, so a call fails only because it was made
  to, or because the name of the release machine is taken.
- `ApplyIsIdempotent` (`SuccessIsInSync`) and `CapacityIsThereFirst`
  (`CapacityBeforeDelete`). `SyncInv` is the plan as a loop invariant: the machines that
  will stay, with those still to come, are in every group within its bounds, those
  with no change left are up to date, and orphans are on the list of deletes. It holds
  after `MakePlan` by `DiffCounts`, each write moves one machine from those to come to
  those that stay, and with nothing to come it is what the properties say.
- `WrittenMachinesAreHealthy`. `FreshInv`: what was written is there and healthy, but for
  the one machine the invocation waits for, and is none of those still to be deleted or
  replaced, because the planner marks a machine for one thing only (`PlanIsFresh`).
- `RolloutsKeepCapacity`. `CapacityInv`: until the deletes, and in a rollback of what did
  not come that far, each group has at least as many machines that this apply did not
  make as it had at the beginning. A replacement leaves the old one to be counted
  (`OthersRemain`), and rollback deletes only what it made.

**PartsProofs** – for the state file, with any number of processes, persists, faults and
kills: `StateTypes`, `LoadsAreWhole` (`NeverTorn`), `RegisterRefined`
(`ImplementsRegister`) and `NewerFilesAreKept` (`NewerKept`). The invariant is mutual
exclusion by the lock (`Exclusion`) with `FilesInv`: what `state.yaml` names, or a reader
has open, is a whole document and not the file a writer works on. The refinement has
the step lemma `RegisterStep`; kills map to the register's lost or done write. A newer
file is kept although `Persist` never looks at what it replaces, because nobody gets
that far (`NewerInv`): every process is idle or reads, and what it reads is refused.
`LockIsNeverOrphaned`: the lock is held by exactly the process that works under it.
Therefore a persist can make its next call, or waits for a process that can
(`PersistIsNeverStuck`), and every call leaves it fewer to make (`PersistCountsDown`):
the argument for `PersistEnds`.

For the waits, with any timeouts, intervals, attempts, backoffs and latency: `WaitTypes`,
`ExitCodesAreReal` (`ExitIsReal`), `ReadyMachinesAreReal` (`ReadyIsReal`),
`AnswersAreNotMissed` (`NoMissedAnswer`), `WaitsArePatient` (`PatientWait`) and
`WaitsOvershootBounded` (`OvershootBounded`). `SightInv` says of what a call saw that it
was so no longer ago than the call lasts. `DeadlineInv` gives, for a call that is the n-th
attempt, when it is over at the latest, by what the attempts and backoffs left can
add; for wait requests that all expire it says the contrary as well, that they reach
the deadline, which is what makes a wait patient. The sum of the backoffs, `Backoffs`, is
a recursive function: that it exists (`BackoffsExist`) is proved by a least
counterexample to its definition, not by induction. `WaitsAreNeverStuck` and
`WaitsCountDown` are the argument for `WaitEnds`: something is due or time passes until it
is, and every such step brings the wait nearer to its end in a lexicographic order
(`Nearer`): the waits to come, the time to the deadline, the calls at this moment, their
attempts, the answer under way.

**CommandsProofs** – `CommandTypes` and `ReleasesPrecedeRollouts` (`RolloutAfterRelease`).
`RecordedRan` strengthens it to every place a release hash can hide: the state, each
process's copy, and the plan of a process that deploys. Stale copies may undo each
other, but none can hold a hash whose command never succeeded. `ScalesObeyed`
(`ApplyObeysScale`) and `ReleasesRunOnce` (`ReleaseOnlyOnChange`) are about any number of
processes too, while `alone` holds: then one is busy at most, its copy is the state with
its own changes, and its scale the one last asked for (`Orderly`); and the state records
the release deployed last, unless somebody is about to record it (`Noted`).

**AppLifeProofs** – for any number of operators, machines, secrets, attempts and calls that
go wrong: `LifeTypes`, `SecretsAreFirst` (`SecretsFirst`), `MadeOnce`
(`NothingMadeTwice`), `SuccessesAreReal` (`SuccessIsReal`) and `LossesMeant`
(`LossesAreMeant`). One invariant, `LifeInv`, carries them. Ids are not used again and a
machine stays managed, or not, while it is there (`Later`), so what a command is about to
touch is managed or gone (`Tame`, `Targets`), and what it has read is at worst out of date:
a machine that a list did not show does not come back, and one of those that were there
is still among those it showed (`Current`). `Answering` says what an answer that counts as
a success proves about Fly, over every way an answer may be lost on its path and every
status the client may make of it; `Progress` says what of the command is done. One lemma
(`Patient`) shows that nobody else's step disturbs any of this, and one (`Calls`) that a
call, with whatever goes wrong, keeps it.

`FailuresHaveCauses` (`FailsOnlyWhenDisturbed`) is the same for what goes wrong, with
`BlameInv`: the mishaps are as many as the attempts before this one, a transient answer
is one more, and an error that is not retried was refused, or its object was gone.

**ResourcesProofs** – `ResourceTypes` and `BooksAlwaysAgree` (`BooksAgree`), for any number
of processes: the agreement holds in every copy (`Documents`), and a database being
made has no name in its copy yet (`Pending`), because names are spent once. As
long as commands do not overlap, `RecordedAreThere` (`RecordedExist`), `OthersAreKept`
(`OthersKept`) and `NothingIsLeaked` (`NothingLeaks`): `alone` means that at most one
process is busy (`Sole`), so the rest of what follows is about that one (`OthersIdle`).
`SoleInv`: a copy is the file with what was made or dropped since, what the file records
is there, and no cluster's app is the shared one (`Apart`), so the delete of an app takes
no other resource with it. `LeakInv`: while nothing has failed, what is on Fly is what
the copy records, and the one thing just made. Of deprovision, `DatabasesAreRemoved`
however commands overlap, which needs nothing but the types, and `ClustersAndStaticsStay`
as long as they do not: none of the answers takes one out of a copy, and so every copy
has those of the file (`RetainInv`).

**RenderingProofs** – for any number of containers, keys, groups and renderings:
`RenderingTypes`, `SecretsKeptOut` (`SecretsStayOut`), `AlarmsAreOwed`
(`FalseAlarmsBounded`), `LayersApply` (`InnermostWins`) and `PlansAreWhole`
(`PlanIsWhole`). The last needs the invariant `Placement`: the containers before the one
at hand are in their groups and the later ones nowhere yet, and each group has the shape
of its first process, which `ValidMetadata` made that of all. That the next container in
order exists and skips none is the lemma `Least`, from the well-foundedness of `<`.

For plan files, with any documents, volumes, headers and secrets: `PlansAreApplied`
(`AppliedAsPlanned`) and `HashesAreStable` (`HashIsStable`). A file was written for one
document, perhaps with other mounts than its checksum was made of (`WrittenForADocument`),
and Fly was given `ConfigOf` a document, which mentions no order (`GivenADocument`). A
checksum that holds makes the mounts those of the document; `RoundTrip` says that a
service written and read back means the same to Fly, though it is not the same, since
a default that was written down is explicit afterwards; and a map is sorted in one
way, whatever way it was read (`SortedIsOne`), where the order exists because the rank of a
key, the number of keys up to it, is a bijection (`OrderExists`).

`PlanIsAcceptedUnlessMoved` has the invariant `Untouched`: an intact file holds what
`WritePlan` makes of its document in some order of the maps. The checksum is over that
encoding, the check over that of what was decoded, and `EncodedOnceMore` says that the two
are one unless `auto_start` was derived and true and a field follows it (`MovesAutoStart`):
with none that follows, both orders are the same bytes. Volumes and headers keep their
order through it, so no order of a map changes the verdict.
`PlanTypes` is the type invariant.

For the metadata, with any drafts and any values: `AuthorTypes`, `MetadataMeansWhatItSays`
(`MeansWhatItSays`), `ContractIgnoresNothing` and `CamelMeansTheSame`. `Meant` says that the
facts are in the table, valued and spelt, and `KeysTell` that a key is the key of one fact,
so a level of the document, put together by a fold, is described by its keys and what
stands at each; from there each conversion is a lemma about one fact or one level, and
the default, range and unit of each fact is met once. `CamelMeansTheSame` compares two
documents: the same facts in camelCase and in the contract's spelling decode to the same
levels, key for key (`PublishedIsAccepted`).

Only model-checked: `Terminates`, `WaitEnds` and `PersistEnds`, which are liveness under
fairness. Their core is proved, as said above: nothing is ever stuck, and every step
counts down in a well-founded order. That fair steps then happen until none is left
takes `ENABLED` and a temporal induction, which the prover does not have.

## 7. Mutants

Beside some definitions stands a second one that no other uses, named for the slip it
is: `MissingOneMore` before `Missing`. Put in the place of the right one it makes a
property fail, which shows that the property depends on that line of the code.

| Property | Slip |
| --- | --- |
| `parts`: `ExecutedIsInSync`, `ExecutedIsInBounds`, `OneChangePerMachine` | `MissingOneMore`, `MissingOneFewer`, `ManagedCountUncapped` |
| `parts`: `OvershootBounded`, `PatientWait`, `NoMissedAnswer`, `ReadyIsReal`, `ExitIsReal`, `WaitEnds` | `AllowanceUncapped`, `ExpireFinal`, `GotHealthLate`, `GotHealthBlind`, `GotEventsZero`, `ExpireNever` |
| `parts`: `NeverTorn`, `NewerKept`, `ImplementsRegister`, `PersistEnds` | `LockShared`, `AcceptsAnySchema`, `UnlockAnyway`, `CrashKeepsLock` |
| `apply`: `SuccessIsInSync`, `NoSilentLeftovers`, `OnlyReleaseWedges`, `CapacityBeforeDelete` | `UpdatedUnstamped`, `UndoFailsStops`, `GetMachineUnversioned`, `DeleteOldEarly` |
| `apply_two`: `UnmanagedUntouched`, `OldKeptUntilVerified`, `ImplementsContract`, `Terminates` | `MembersOrUnowned`, `VerifyPresent`, `RollBackPrunes`, `VerifyFailsNoDeadline` |
| `commands`: `RolloutAfterRelease`, `ApplyObeysScale`, `ReleaseOnlyOnChange` | `SkipWhenReleased`, `RecordReleaseAlone`, `RecordReleaseLost` |
| `commands`: `SecretsFirst`, `SuccessIsReal`, `FailsOnlyWhenDisturbed`, `NothingMadeTwice`, `LossesAreMeant` | `CreateSecretAnyStatus`, `SuspendMachineAnyStatus`, `DeleteMachinePresent`, `AgainWhatever`, `NotRelistedDeletes` |
| `resources`: `BooksAgree`, `OthersKept`, `RecordedExist`, `NothingLeaks` | `PersistMerging`, `LastAnyway`, `AppForAnew`, `EndProvisionUnsaved` |
| `rendering`: `SecretsStayOut`, `FalseAlarmsBounded`, `InnermostWins`, `PlanIsWhole` | `SecretSeenEarly`, `WatchedUnreset`, `WithholdKept`, `ValidMetadataUnshared` |
| `rendering`: `MeansWhatItSays`, `AppliedAsPlanned`, `HashIsStable` | `StopWordAlways`, `MarshalPlain`, `HeadersAsRead` |

## 8. What is not modelled

- *A loss of power.* Neither the temp file nor its directory is synced; what survives
  is decided by the file system. Kills of processes are modelled.
- *Windows.* `lock_windows.go` is another lock behind the same calls.
- *What Fly does inside.* A machine settles, vanishes, or refuses a version or a name;
  what its proxy and its health checks do in between is not in the repository. A
  machine whose checks are not reported yet counts as passing, in the code and here.
- *A cancelled context.* Nothing in the program cancels the one it passes.
- *Custom provisioners*: HTTP and command transports whose other end is elsewhere.
- *Endpoints nothing calls.* Of the generated client, the fourteen the deployer calls are
  modelled; the rest is the same code over other paths.
- *Parts of the metadata*: values of the wrong type, commands, ingress, ports, tcp checks,
  durations below a second or in minutes, sizes as one word, names of secrets against
  their pattern. An `http_service` that names its protocol and a check is refused always,
  and so is no case here.
- *Order in a plan file.* Mounts come out of a map in any order; the digest sorts them
  (`HashIsStable`), and what the file shows first is of no concern.
- *Commands, probes and annotations* of a rendered plan, tables, logs: translations of
  data, compared as text by golden tests. Names are atoms in Rendering, so that two
  checks of a group may get one key (`machine.go:125`) is not seen there.
- *The clock as a source of names* (`postgres.go:83`): names in Resources are fresh.
- *What two processes that provision at once lose.* They are in the model, but no
  property says that nothing is lost: one may delete the shared app with the last
  database it knows of while another makes one more, and nothing promises otherwise.
  `BooksAgree` holds however processes overlap, `OthersKept` as long as they do not.

## 9. Plan

In order of importance; the first nine are done.

1. Planner, Reconcile with AppContract: the rollout, its failures and its contract.
2. StateFile with StateRegister: the file under everything else.
3. Commands: what overlapping commands do to each other through the state.
4. Resources: the books of the provisioners.
5. Waits: retries and deadlines.
6. Rendering: what becomes of secrets, layers and groups on the way to a plan.
7. FlyApi and AppLife: every call of the deployer on an app, several operators at once.
8. FlyMetadata with MetadataCheck: what `metadata.fly` may say against its published shape.
9. PlanFile: a plan written out, read back and applied; the digest of a machine.
10. The rest of the metadata (section 8), and durations in every unit.

The proofs cover what the prover reaches of the properties (section 6). What one could
still prove is that `BooksAgree` and `RolloutAfterRelease` carry to StateFile through its
refinement, instead of over the register, where they stand now.
