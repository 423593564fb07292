----------------------------- MODULE Resources -----------------------------
(***************************************************************************)
(* The resources of a project: ProvisionResources and DeProvisionResource  *)
(* (internal/provisioners), the builtin Postgres provisioners they call    *)
(* (internal/provisioners/builtin) and what the state records of it.       *)
(*                                                                         *)
(* A postgres-instance, here a cluster, is a Fly app of its own.  The      *)
(* postgres resources, here databases, share one more app, which the       *)
(* shared state names with the list of the databases in it; it is made for *)
(* the first of them and deleted with the last.  Each call to Fly is an    *)
(* action.  A command that fails between two calls leaves what was made,   *)
(* and whether the state remembers depends on the command.                 *)
(***************************************************************************)
EXTENDS Naturals, FiniteSets

CONSTANTS Processes,
          Databases, Clusters, Statics,  \* the resources, by type
          Enabled,      \* the commands in use
          Apps, Names,  \* names of Fly apps and of databases
          None,
          MaxCommands,  \* bound: commands started that persist
          MaxLooks,     \* bound: commands started that do not
          MaxFaults,    \* bound: failing calls
          MaxCrashes    \* bound: killed processes

Resources == Databases \cup Clusters \cup Statics

\* "apply" stands for the commands that persist only after a success, "look" for
\* validate and plan, which do not persist.
Provisions == {"generate", "apply", "look"}

ASSUME ResourcesAssumption ==
    /\ Enabled \subseteq Provisions \cup {"deprovision"}
    /\ Databases \cap Clusters = {} /\ Databases \cap Statics = {} /\ Clusters \cap Statics = {}
    /\ Apps \cap Names = {}
    /\ None \notin Apps \cup Names
    /\ {MaxCommands, MaxLooks, MaxFaults, MaxCrashes} \subseteq Nat

VARIABLES file,   \* the state: what it records of the resources
          apps,   \* Fly: the Postgres apps that exist
          dbs,    \* Fly: pairs of an app and a database in it
          spent,  \* names given out
          pc, cmd,
          copy,   \* each process's copy of the state
          todo,   \* the resources it has yet to provision
          res, app, name,  \* the resource, app and database it is at
          cut,    \* history: resources destroyed by a deprovision not persisted
          alone,  \* history: no two commands have been under way at once
          budget

fly == <<apps, dbs, spent>>
local == <<res, app, name>>
history == <<cut, alone>>
vars == <<file, fly, pc, cmd, copy, todo, local, history, budget>>

\* "owned": the resource has a ProvisionerUri; "id" is the recorded name.
Entry == [owned : BOOLEAN, id : Apps \cup Names \cup {None}]
Document == [app : Apps \cup {None}, names : SUBSET Names, res : [Resources -> Entry]]

Spend(what) == budget' = [budget EXCEPT ![what] = @ + 1]
Goto(p, phase) == pc' = [pc EXCEPT ![p] = phase]

-----------------------------------------------------------------------------
(***************************************************************************)
(* Commands.                                                               *)
(***************************************************************************)
Start(p, c) ==
    /\ pc[p] = "idle"
    /\ c \in Enabled
    /\ IF c = "look" THEN budget.looks < MaxLooks /\ Spend("looks")
       ELSE budget.commands < MaxCommands /\ Spend("commands")
    /\ cmd' = [cmd EXCEPT ![p] = c]
    /\ copy' = [copy EXCEPT ![p] = file]
    /\ alone' = (alone /\ \A q \in Processes : pc[q] = "idle")
    /\ UNCHANGED <<file, fly, app, name, cut>>

\* The resources the Score files ask for may change from one command to the next.
Load(p, c, wanted) ==
    /\ c \in Provisions
    /\ Start(p, c)
    /\ todo' = [todo EXCEPT ![p] = wanted]
    /\ Goto(p, "provision")
    /\ UNCHANGED res

\* A resource no provisioner has answered for has no provisioner in the state.
LoadDeprovision(p, r) ==
    /\ file.res[r].owned
    /\ Start(p, "deprovision")
    /\ res' = [res EXCEPT ![p] = r]
    /\ Goto(p, "deprovision")
    /\ UNCHANGED todo

\* Puts what it provisioned into the resources there are now.
PersistMerging(p) ==
    /\ pc[p] \in {"persist", "persistOnly"}
    /\ file' = [copy[p] EXCEPT !.res = [r \in Resources |->
            IF cmd[p] = "deprovision" \/ @[r].owned THEN @[r] ELSE file.res[r]]]
    /\ cut' = IF cmd[p] = "deprovision" THEN cut \ {res[p]} ELSE cut
    /\ Goto(p, "idle")
    /\ UNCHANGED <<fly, cmd, copy, todo, local, alone, budget>>

Persist(p) ==
    /\ pc[p] \in {"persist", "persistOnly"}
    /\ file' = copy[p]
    /\ cut' = IF cmd[p] = "deprovision" THEN cut \ {res[p]} ELSE cut
    /\ Goto(p, "idle")
    /\ UNCHANGED <<fly, cmd, copy, todo, local, alone, budget>>

PersistFails(p) ==
    /\ pc[p] \in {"persist", "persistOnly"}
    /\ budget.faults < MaxFaults
    /\ Spend("faults")
    /\ Goto(p, "idle")
    /\ UNCHANGED <<file, fly, cmd, copy, todo, local, history>>

Crash(p) ==
    /\ pc[p] # "idle"
    /\ budget.crashes < MaxCrashes
    /\ Spend("crashes")
    /\ Goto(p, "idle")
    /\ UNCHANGED <<file, fly, cmd, copy, todo, local, history>>

-----------------------------------------------------------------------------
(***************************************************************************)
(* ProvisionResources.                                                     *)
(***************************************************************************)
\* What the provisioner's answer changes in the copy.
Own(r, doc) == [doc EXCEPT !.res[r].owned = TRUE]
OwnCluster(r, a, doc) == [doc EXCEPT !.res[r] = [owned |-> TRUE, id |-> a]]
ShareApp(r, a, doc) == [Own(r, doc) EXCEPT !.app = a]

AddDatabase(r, a, n, doc) ==
    [doc EXCEPT !.app = a, !.names = @ \cup {n}, !.res[r] = [owned |-> TRUE, id |-> n]]

Answer(p, r, doc) ==
    /\ copy' = [copy EXCEPT ![p] = doc]
    /\ todo' = [todo EXCEPT ![p] = @ \ {r}]

\* Only generate persists what a failure leaves in the copy.
Abort(p) == Goto(p, IF cmd[p] = "generate" THEN "persistOnly" ELSE "idle")

AppForAnew(recorded) == Apps \ spent

\* A recorded app keeps its name; a new name has the time of day in it.
AppFor(recorded) == IF recorded # None THEN {recorded} ELSE Apps \ spent

\* ensurePostgresInstance: look the app up, create it when it is not there.
EnsureApp(a) ==
    /\ apps' = apps \cup {a}
    /\ spent' = spent \cup {a}
    /\ UNCHANGED dbs

ProvisionStatic(p) ==
    /\ pc[p] = "provision"
    /\ \E r \in todo[p] \cap Statics : Answer(p, r, Own(r, copy[p]))
    /\ UNCHANGED <<file, fly, pc, cmd, local, history, budget>>

ProvisionCluster(p) ==
    /\ pc[p] = "provision"
    /\ \E r \in todo[p] \cap Clusters : \E a \in AppFor(copy[p].res[r].id) :
        /\ EnsureApp(a)
        /\ Answer(p, r, OwnCluster(r, a, copy[p]))
    /\ UNCHANGED <<file, pc, cmd, local, history, budget>>

\* builtinPostgresProvision up to the database: it is there when the state has its
\* name, and is created otherwise.
ProvisionDatabase(p) ==
    /\ pc[p] = "provision"
    /\ \E r \in todo[p] \cap Databases : \E a \in AppFor(copy[p].app) :
        /\ EnsureApp(a)
        /\ IF copy[p].res[r].id # None
           THEN /\ Answer(p, r, ShareApp(r, a, copy[p]))
                /\ UNCHANGED <<pc, local>>
           ELSE /\ res' = [res EXCEPT ![p] = r]
                /\ app' = [app EXCEPT ![p] = a]
                /\ Goto(p, "create")
                /\ UNCHANGED <<copy, todo, name>>
    /\ UNCHANGED <<file, cmd, history, budget>>

CreateDatabase(p) ==
    /\ pc[p] = "create"
    /\ app[p] \in apps
    /\ \E n \in Names \ spent :
        /\ dbs' = dbs \cup {<<app[p], n>>}
        /\ spent' = spent \cup {n}
        /\ name' = [name EXCEPT ![p] = n]
    /\ Goto(p, "grant")
    /\ UNCHANGED <<file, apps, cmd, copy, todo, res, app, history, budget>>

\* The user and its rights, and the answer.
GrantAccess(p) ==
    /\ pc[p] = "grant"
    /\ app[p] \in apps
    /\ Answer(p, res[p], AddDatabase(res[p], app[p], name[p], copy[p]))
    /\ Goto(p, "provision")
    /\ UNCHANGED <<file, fly, cmd, local, history, budget>>

EndProvisionUnsaved(p) ==
    /\ pc[p] = "provision"
    /\ todo[p] = {}
    /\ Goto(p, IF cmd[p] # "generate" THEN "idle" ELSE "persist")
    /\ UNCHANGED <<file, fly, cmd, copy, todo, local, history, budget>>

EndProvision(p) ==
    /\ pc[p] = "provision"
    /\ todo[p] = {}
    /\ Goto(p, IF cmd[p] = "look" THEN "idle" ELSE "persist")
    /\ UNCHANGED <<file, fly, cmd, copy, todo, local, history, budget>>

\* A provisioner that fails answers with the name of the app it may have made.
\* One that fails before it has a client answers nothing.
ProvisionFails(p) ==
    /\ pc[p] = "provision"
    /\ budget.faults < MaxFaults
    /\ Spend("faults")
    /\ \E r \in todo[p] \ Statics :
        \/ UNCHANGED <<fly, copy>>
        \/ \E a \in AppFor(IF r \in Clusters THEN copy[p].res[r].id ELSE copy[p].app) :
            /\ EnsureApp(a) \/ (spent' = spent \cup {a} /\ UNCHANGED <<apps, dbs>>)
            /\ copy' = [copy EXCEPT ![p] =
                    IF r \in Clusters THEN OwnCluster(r, a, @) ELSE ShareApp(r, a, @)]
    /\ Abort(p)
    /\ UNCHANGED <<file, cmd, todo, local, history>>

\* One that fails at the database answers nothing, not even an app it has made.
CreateFails(p) ==
    /\ pc[p] \in {"create", "grant"}
    /\ \/ app[p] \notin apps /\ UNCHANGED <<dbs, spent, budget>>
       \/ budget.faults < MaxFaults /\ Spend("faults") /\ UNCHANGED <<dbs, spent>>
       \/ /\ pc[p] = "create" /\ app[p] \in apps
          /\ budget.faults < MaxFaults /\ Spend("faults")
          /\ \E n \in Names \ spent : dbs' = dbs \cup {<<app[p], n>>} /\ spent' = spent \cup {n}
    /\ Abort(p)
    /\ UNCHANGED <<file, apps, cmd, copy, todo, local, history>>

-----------------------------------------------------------------------------
(***************************************************************************)
(* DeProvisionResource.  The caller decodes the provisioner's answer, and  *)
(* no answer at all is an error: the static provisioner, a cluster's and   *)
(* one that finds nothing to do never have the resource removed.           *)
(***************************************************************************)
Recorded(p) == copy[p].res[res[p]].id

RemoveApp(a) == apps' = apps \ {a} /\ dbs' = {d \in dbs : d[1] # a}

Forget(r, doc) == [doc EXCEPT !.res[r] = [owned |-> FALSE, id |-> None]]

DeleteCluster(p) ==
    /\ pc[p] = "deprovision"
    /\ res[p] \in Clusters
    /\ Recorded(p) \in apps
    /\ RemoveApp(Recorded(p))
    /\ cut' = cut \cup {res[p]}
    /\ Goto(p, "idle")
    /\ UNCHANGED <<file, spent, cmd, copy, todo, local, alone, budget>>

Listed(p) == res[p] \in Databases /\ Recorded(p) \in copy[p].names

LastAnyway(r, doc) == TRUE
Last(r, doc) == doc.names = {doc.res[r].id}

Dropped(r, doc) ==
    [Forget(r, doc) EXCEPT !.names = @ \ {doc.res[r].id},
                           !.app = IF Last(r, doc) THEN None ELSE @]

RemoveDatabase(p) ==
    IF Last(res[p], copy[p]) THEN RemoveApp(copy[p].app)
    ELSE dbs' = dbs \ {<<copy[p].app, Recorded(p)>>} /\ UNCHANGED apps

\* The app goes with its last database.
DeleteDatabase(p) ==
    /\ pc[p] = "deprovision"
    /\ Listed(p)
    /\ copy[p].app \in apps
    /\ RemoveDatabase(p)
    /\ copy' = [copy EXCEPT ![p] = Dropped(res[p], copy[p])]
    /\ cut' = cut \cup {res[p]}
    /\ Goto(p, "persist")
    /\ UNCHANGED <<file, spent, cmd, todo, local, alone, budget>>

DeprovisionRefused(p) ==
    /\ pc[p] = "deprovision"
    /\ \/ res[p] \in Statics
       \/ res[p] \in Clusters /\ Recorded(p) \notin apps
       \/ res[p] \in Databases /\ (~Listed(p) \/ copy[p].app \notin apps)
    /\ Goto(p, "idle")
    /\ UNCHANGED <<file, fly, cmd, copy, todo, local, history, budget>>

\* A call that fails may have done its work.
DeprovisionFails(p) ==
    /\ pc[p] = "deprovision"
    /\ budget.faults < MaxFaults
    /\ Spend("faults")
    /\ \/ UNCHANGED <<apps, dbs, cut>>
       \/ /\ res[p] \in Clusters
          /\ Recorded(p) \in apps
          /\ RemoveApp(Recorded(p))
          /\ cut' = cut \cup {res[p]}
       \/ /\ Listed(p)
          /\ copy[p].app \in apps
          /\ RemoveDatabase(p)
          /\ cut' = cut \cup {res[p]}
    /\ Goto(p, "idle")
    /\ UNCHANGED <<file, spent, cmd, copy, todo, local, alone>>

-----------------------------------------------------------------------------
Provisioning(p) ==
    \/ ProvisionStatic(p) \/ ProvisionCluster(p) \/ ProvisionDatabase(p)
    \/ CreateDatabase(p) \/ GrantAccess(p) \/ EndProvision(p)
    \/ ProvisionFails(p) \/ CreateFails(p)

Deprovisioning(p) ==
    \/ DeleteCluster(p) \/ DeleteDatabase(p)
    \/ DeprovisionRefused(p) \/ DeprovisionFails(p)

Step(p) ==
    \/ \E c \in Provisions, wanted \in SUBSET Resources : Load(p, c, wanted)
    \/ \E r \in Resources : LoadDeprovision(p, r)
    \/ Provisioning(p)
    \/ Deprovisioning(p)
    \/ Persist(p) \/ PersistFails(p)
    \/ Crash(p)

Blank == [app |-> None, names |-> {},
          res |-> [r \in Resources |-> [owned |-> FALSE, id |-> None]]]

Init ==
    /\ file = Blank
    /\ apps = {} /\ dbs = {} /\ spent = {}
    /\ pc = [p \in Processes |-> "idle"]
    /\ cmd = [p \in Processes |-> "look"]
    /\ copy = [p \in Processes |-> Blank]
    /\ todo = [p \in Processes |-> {}]
    /\ \E r \in Resources : res = [p \in Processes |-> r]
    /\ app = [p \in Processes |-> None]
    /\ name = [p \in Processes |-> None]
    /\ cut = {}
    /\ alone = TRUE
    /\ budget = [commands |-> 0, looks |-> 0, faults |-> 0, crashes |-> 0]

Next == \E p \in Processes : Step(p)

Spec == Init /\ [][Next]_vars

-----------------------------------------------------------------------------
Phases == {"idle", "provision", "create", "grant", "persist", "persistOnly", "deprovision"}

\* The state, its copies, what Fly holds, and every process are well-formed.
TypeOK ==
    /\ file \in Document
    /\ apps \subseteq Apps
    /\ dbs \subseteq Apps \X Names
    /\ spent \subseteq Apps \cup Names
    /\ pc \in [Processes -> Phases]
    /\ cmd \in [Processes -> Provisions \cup {"deprovision"}]
    /\ copy \in [Processes -> Document]
    /\ todo \in [Processes -> SUBSET Resources]
    /\ res \in [Processes -> Resources]
    /\ app \in [Processes -> Apps \cup {None}]
    /\ name \in [Processes -> Names \cup {None}]
    /\ cut \subseteq Resources
    /\ alone \in BOOLEAN
    /\ budget \in [commands : Nat, looks : Nat, faults : Nat, crashes : Nat]

Mishaps == budget.faults + budget.crashes

\* The books of a document agree: the list in the shared state names exactly the
\* databases the resources record, no two resources record one, where there is a
\* database there is an app, and what a cluster records is an app.  The decision to
\* delete the app rests on the list alone (postgres.go:173-177).
Agrees(doc) ==
    /\ doc.names = {doc.res[r].id : r \in Databases} \ {None}
    /\ \A r, s \in Databases : doc.res[r].id = doc.res[s].id => r = s \/ doc.res[r].id = None
    /\ doc.names # {} => doc.app # None
    /\ \A r \in Clusters : doc.res[r].id \in Apps \cup {None}

\* Whatever processes write over each other, and wherever they fail, the books of
\* the state agree.
BooksAgree == Agrees(file)

\* What the state records of a resource is there.
Held(r) ==
    \/ r \in Databases /\ <<file.app, file.res[r].id>> \in dbs
    \/ r \in Clusters /\ file.res[r].id \in apps

\* What the state records of one resource is destroyed only by a deprovision of
\* that resource, as long as commands do not overlap: with failing calls and kills
\* anywhere.
OthersKept ==
    [][\A r \in Databases \cup Clusters :
        alone /\ Held(r) /\ ~Held(r)' =>
            \E p \in Processes : pc[p] # "idle" /\ cmd[p] = "deprovision" /\ res[p] = r]_vars

\* As long as commands do not overlap, a database the state records is there, unless a
\* deprovision of it was stopped before it was persisted: provisioning does not look
\* again for a database whose name it has (postgres.go:104-107).
RecordedExist ==
    alone => \A r \in Databases \ cut : file.res[r].id # None => Held(r)

\* After commands that did not overlap, none of which failed or only looked: every app
\* and database that was made is in the state, or it could never be deprovisioned.
NothingLeaks ==
    alone /\ (\A p \in Processes : pc[p] = "idle") /\ Mishaps + budget.looks = 0 =>
        /\ apps \subseteq {file.app} \cup {file.res[r].id : r \in Clusters}
        /\ dbs \subseteq {<<file.app, n>> : n \in file.names}

\* A deprovision of what is there, or that has nothing to do.
Doable(p) ==
    \/ res[p] \in Statics
    \/ res[p] \in Clusters /\ Recorded(p) \in apps
    \/ Listed(p) /\ copy[p].app \in apps

\* A deprovision that has nothing to do (the static provisioner's "do nothing",
\* provisioning.go:187), or no call of which fails, has the resource removed.
DeprovisionRemoves ==
    [][\A p \in Processes :
        pc[p] = "deprovision" /\ pc'[p] # pc[p] /\ Doable(p) =>
            pc'[p] = "persist" \/ Mishaps' > Mishaps]_vars
=============================================================================
