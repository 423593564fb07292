----------------------------- MODULE Rendering -----------------------------
(***************************************************************************)
(* Rendering a workload: from the Score file, its metadata.fly and the     *)
(* outputs of its resources to the plan, and to the runtime secrets that   *)
(* must stay out of the plan.                                              *)
(*                                                                         *)
(* Whether a ${...} reads a secret is found out by a side effect: the      *)
(* lookup of a secret output sets the global secretAccessed, and the watch *)
(* around a substitution asks for it after each lookup and resets it.      *)
(* Parameters of resources, images and sources of volumes are substituted  *)
(* without a watch, so what they read is answered to whoever asks next.    *)
(*                                                                         *)
(* kind is "machine" for a workload with metadata.fly                      *)
(* (convert.MachinePlanWithSecrets) and "toml" for one without             *)
(* (convert.Workload).  Containers and keys are handled in the order of    *)
(* their names, here numbers.  A value is the layer it comes from and      *)
(* whether it holds a secret.  Commands, checks, probes, mount paths and   *)
(* what else is copied as it is are left out.                              *)
(***************************************************************************)
EXTENDS Integers, FiniteSets, Sequences, FiniteSetsExt

CONSTANTS Containers, Keys,      \* names, in their order
          Groups,
          Shapes,                \* vm, scale and restart of a process
          Ports,                 \* internal ports of services
          None,
          MaxStrays,             \* bound: unwatched reads not answered for
          MaxRenders             \* bound: renderings by one process

VARIABLES secretAccessed,        \* the global of package provisioners
          spec,                  \* the workload
          pc,
          cur,                   \* the container being rendered
          todo,                  \* keys of the current layer still to come
          groups,
          env, files,            \* per container, in the plan
          secrets,               \* returned beside the plan
          renders,
          wanted,                \* history: the innermost definition of each key
          strays                 \* history: unwatched reads of a secret, less
                                 \* the values wrongly taken for a secret

result == <<groups, env, files, secrets>>
vars == <<secretAccessed, spec, pc, cur, todo, result, renders, wanted, strays>>

\* What a value of the workload may be: not given, plain text, or text with a
\* reference to an output, secret or not.
Texts == {"absent", "text", "open", "secret"}
References == {"open", "secret"}

Layers == {"variables", "process", "container"}
Value == [layer : Layers, secret : BOOLEAN]
Group == [shape : Shapes, containers : Seq(Containers), ports : Seq(Ports)]

ASSUME RenderingAssumption ==
    /\ Containers \subseteq Nat /\ Keys \subseteq Nat
    /\ None \notin Nat /\ None \notin Value /\ None \notin Group
    /\ {MaxStrays, MaxRenders} \subseteq Nat

Goto(phase) == pc' = phase

-----------------------------------------------------------------------------
(***************************************************************************)
(* Substitution, with and without a watch (secrets.go).                    *)
(***************************************************************************)
\* BuildSubstitutionFuncWithSecretWatch: the flag is looked at after each
\* lookup; text without a reference looks nothing up.
SecretSeenEarly(text) == text \in References /\ secretAccessed
SecretSeen(text) == text \in References /\ (secretAccessed \/ text = "secret")

WatchedUnreset(text) ==
    /\ secretAccessed' = (secretAccessed \/ text = "secret")
    /\ strays' = strays - (IF SecretSeen(text) /\ text # "secret" THEN 1 ELSE 0)

Watched(text) ==
    /\ secretAccessed' = (secretAccessed /\ text \notin References)
    /\ strays' = strays - (IF SecretSeen(text) /\ text # "secret" THEN 1 ELSE 0)

\* MarkSecretAccessed, with nobody to answer to.
Unwatched(text) ==
    /\ text = "secret" => strays < MaxStrays
    /\ secretAccessed' = (secretAccessed \/ text = "secret")
    /\ strays' = strays + (IF text = "secret" THEN 1 ELSE 0)

-----------------------------------------------------------------------------
\* ProvisionResources: the parameters of one resource after the other.
Provision(text) ==
    /\ pc = "params"
    /\ Unwatched(text)
    /\ UNCHANGED <<spec, pc, cur, todo, result, renders, wanted>>

(***************************************************************************)
(* The metadata and the groups.                                            *)
(***************************************************************************)
Members(g) == {c \in spec.processes : spec.group[c] = g}

\* flymetadata.Validate: processes and containers are the same, and each process
\* agrees with the first one of its group.
ValidMetadataUnshared == spec.processes = spec.containers
ValidMetadata ==
    /\ spec.processes = spec.containers
    /\ \A c \in spec.processes : spec.shape[c] = spec.shape[Min(Members(spec.group[c]))]

\* The first process of a group makes it.
NewGroup(g) == [shape |-> spec.shape[Min(Members(g))], containers |-> <<>>, ports |-> <<>>]

\* What follows the layer or the phase, for the container at hand.
First == IF spec.kind = "machine" THEN "image" ELSE "container"

Convert ==
    /\ pc = "params"
    /\ IF spec.kind = "machine" THEN ValidMetadata ELSE Cardinality(spec.containers) = 1
    /\ groups' = [g \in Groups |->
            IF spec.kind = "machine" /\ Members(g) # {} THEN NewGroup(g) ELSE None]
    /\ cur' = Min(spec.containers)
    /\ Goto(First)
    /\ UNCHANGED <<secretAccessed, spec, todo, env, files, secrets, renders, wanted, strays>>

-----------------------------------------------------------------------------
(***************************************************************************)
(* One container.                                                          *)
(***************************************************************************)
\* Only the image a process names is substituted.
Image(text) ==
    /\ pc = "image"
    /\ Unwatched(text)
    /\ Goto("variables")
    /\ UNCHANGED <<spec, cur, todo, result, renders, wanted>>

\* metadata.fly.variables are the same for every container.
Defined(layer, key, text) == layer = "variables" => text = spec.variables[key]

Absent(key, text) ==
    /\ text = "absent"
    /\ UNCHANGED <<env, secrets, wanted>>

\* The reference reads a secret: the value leaves the environment, together with
\* what an outer layer has put there.
WithholdKept(key, text) ==
    /\ text # "absent" /\ SecretSeen(text)
    /\ secrets' = [secrets EXCEPT ![key] = [layer |-> pc, secret |-> text = "secret"]]
    /\ wanted' = [wanted EXCEPT ![cur][key] = [layer |-> pc, secret |-> text = "secret"]]
    /\ UNCHANGED env

Withhold(key, text) ==
    /\ text # "absent" /\ SecretSeen(text)
    /\ secrets' = [secrets EXCEPT ![key] = [layer |-> pc, secret |-> text = "secret"]]
    /\ env' = [env EXCEPT ![cur][key] = None]
    /\ wanted' = [wanted EXCEPT ![cur][key] = [layer |-> pc, secret |-> text = "secret"]]

Show(key, text) ==
    /\ text # "absent" /\ ~SecretSeen(text)
    /\ env' = [env EXCEPT ![cur][key] = [layer |-> pc, secret |-> text = "secret"]]
    /\ wanted' = [wanted EXCEPT ![cur][key] = [layer |-> pc, secret |-> text = "secret"]]
    /\ UNCHANGED secrets

Variable(text) ==
    /\ pc \in Layers /\ todo # {}
    /\ LET key == Min(todo) IN
        /\ Defined(pc, key, text)
        /\ todo' = todo \ {key}
        /\ Absent(key, text) \/ Withhold(key, text) \/ Show(key, text)
    /\ Watched(text)
    /\ UNCHANGED <<spec, pc, cur, groups, files, renders>>

NextLayer ==
    /\ pc \in Layers /\ todo = {}
    /\ todo' = Keys
    /\ Goto(CASE pc = "variables" -> "process"
              [] pc = "process" -> "container"
              [] pc = "container" -> "files")
    /\ UNCHANGED <<secretAccessed, spec, cur, result, renders, wanted, strays>>

\* A machine plan has no secret files; fly.toml names a secret in their place.
File(text) ==
    /\ pc = "files" /\ text # "absent"
    /\ Watched(text)
    /\ IF spec.kind = "machine" /\ SecretSeen(text)
       THEN Goto("failed") /\ UNCHANGED files
       ELSE /\ files' = [files EXCEPT ![cur] =
                    @ \cup {[secret |-> text = "secret", named |-> SecretSeen(text)]}]
            /\ UNCHANGED pc
    /\ UNCHANGED <<spec, cur, todo, groups, env, secrets, renders, wanted>>

EndFiles ==
    /\ pc = "files"
    /\ Goto("volumes")
    /\ UNCHANGED <<secretAccessed, spec, cur, todo, result, renders, wanted, strays>>

Volume(text) ==
    /\ pc = "volumes" /\ text # "absent"
    /\ Unwatched(text)
    /\ UNCHANGED <<spec, pc, cur, todo, result, renders, wanted>>

Attached(g, port) ==
    [g EXCEPT !.containers = Append(@, cur),
              !.ports = IF port = None THEN @ ELSE Append(@, port)]

Following(c) == IF \E d \in spec.containers : d > c
                THEN Min({d \in spec.containers : d > c}) ELSE None

\* The container, with the service of its process, joins its group.
Attach(port) ==
    /\ pc = "volumes"
    /\ IF spec.kind = "machine"
       THEN groups' = [groups EXCEPT ![spec.group[cur]] = Attached(@, port)]
       ELSE UNCHANGED groups
    /\ cur' = Following(cur)
    /\ Goto(IF Following(cur) # None THEN First ELSE "validate")
    /\ UNCHANGED <<secretAccessed, spec, todo, env, files, secrets, renders, wanted, strays>>

-----------------------------------------------------------------------------
\* Plan.Validate after the sort by port: ports and containers strictly ascend.
Ascending(s) == \A i \in 1..Len(s) - 1 : s[i] < s[i + 1]
Unlike(s) == \A i, j \in 1..Len(s) : i # j => s[i] # s[j]
ValidGroup(g) == g.containers # <<>> /\ Ascending(g.containers) /\ Unlike(g.ports)

Validate ==
    /\ pc = "validate"
    /\ \A g \in Groups : groups[g] # None => ValidGroup(groups[g])
    /\ Goto("done")
    /\ UNCHANGED <<secretAccessed, spec, cur, todo, result, renders, wanted, strays>>

\* Any error return: what the metadata or the plan break, a reference that cannot
\* be resolved, what machines do not support.  The command ends with it.
Fail ==
    /\ pc \notin {"done", "failed"}
    /\ Goto("failed")
    /\ UNCHANGED <<secretAccessed, spec, cur, todo, result, renders, wanted, strays>>

Nothing == [k \in Keys |-> None]

\* scale --apply provisions and renders once more in the same process.
Again ==
    /\ pc = "done" /\ spec.kind = "machine"
    /\ renders < MaxRenders
    /\ renders' = renders + 1
    /\ Goto("params")
    /\ groups' = [g \in Groups |-> None]
    /\ env' = [c \in Containers |-> Nothing]
    /\ files' = [c \in Containers |-> {}]
    /\ secrets' = Nothing
    /\ wanted' = [c \in Containers |-> Nothing]
    /\ UNCHANGED <<secretAccessed, spec, cur, todo, strays>>

Workload ==
    [kind : {"machine", "toml"}, containers : (SUBSET Containers) \ {{}},
     processes : SUBSET Containers, group : [Containers -> Groups],
     shape : [Containers -> Shapes], variables : [Keys -> Texts]]

Init ==
    /\ secretAccessed = FALSE
    /\ spec \in Workload
    /\ pc = "params"
    /\ cur = None
    /\ todo = Keys
    /\ groups = [g \in Groups |-> None]
    /\ env = [c \in Containers |-> Nothing]
    /\ files = [c \in Containers |-> {}]
    /\ secrets = Nothing
    /\ renders = 1
    /\ wanted = [c \in Containers |-> Nothing]
    /\ strays = 0

Next ==
    \/ \E text \in Texts :
        Provision(text) \/ Image(text) \/ Variable(text) \/ File(text) \/ Volume(text)
    \/ Convert
    \/ NextLayer \/ EndFiles
    \/ \E port \in Ports \cup {None} : Attach(port)
    \/ Validate
    \/ Fail
    \/ Again

Spec == Init /\ [][Next]_vars

-----------------------------------------------------------------------------
Phases == Layers \cup
    {"params", "image", "files", "volumes", "validate", "done", "failed"}

\* The workload, the part of the plan made so far, and the place reached.
TypeOK ==
    /\ secretAccessed \in BOOLEAN
    /\ spec \in Workload
    /\ pc \in Phases
    /\ cur \in Containers \cup {None}
    /\ todo \in SUBSET Keys
    /\ groups \in [Groups -> Group \cup {None}]
    /\ env \in [Containers -> [Keys -> Value \cup {None}]]
    /\ files \in [Containers -> SUBSET [secret : BOOLEAN, named : BOOLEAN]]
    /\ secrets \in [Keys -> Value \cup {None}]
    /\ renders \in Nat
    /\ wanted \in [Containers -> [Keys -> Value \cup {None}]]
    /\ strays \in Int

\* What reads a secret never lands among the environment or the raw files of the
\* plan, whatever has been substituted before it, watched or not ("Plans may
\* include secret names and secret references, but never secret values",
\* docs/machine-plan-contract.md:27; images and volumes are another matter).
SecretsStayOut ==
    \A c \in Containers :
        /\ \A k \in Keys : env[c][k] # None => ~env[c][k].secret
        /\ \A f \in files[c] : f.secret => f.named

\* A substitution nobody watches costs at most one value that holds no secret and
\* is nevertheless withheld, or one file refused, and a flag that is still up is
\* one such debt: nothing else raises a false alarm (secrets.go:8-20).
FalseAlarmsBounded == strays >= (IF secretAccessed THEN 1 ELSE 0)

\* A key of a container's environment has the value of its innermost definition,
\* and a key that is defined but not there is a runtime secret: withholding a
\* value leaves none of an outer layer behind (machine.go:163-198).
InnermostWins ==
    \A c \in Containers, k \in Keys :
        /\ env[c][k] # None => env[c][k] = wanted[c][k]
        /\ wanted[c][k] # None /\ env[c][k] = None => secrets[k] # None

\* In a machine plan every container runs in one group, the one its process
\* names, on machines of the shape its process asks for, and no group is empty,
\* although a group takes its shape from one process and its containers from
\* others (machine.go:71-104, 279; flymetadata.go:498-513).
PlanIsWhole ==
    pc = "done" /\ spec.kind = "machine" =>
        /\ \A c \in spec.containers :
            {g \in Groups : groups[g] # None /\ \E i \in 1..Len(groups[g].containers) :
                groups[g].containers[i] = c} = {spec.group[c]}
        /\ \A c \in spec.containers : groups[spec.group[c]].shape = spec.shape[c]
        /\ \A g \in Groups : groups[g] # None => groups[g].containers # <<>>
=============================================================================
