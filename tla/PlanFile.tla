------------------------------ MODULE PlanFile ------------------------------
(***************************************************************************)
(* The exact plan: plan --plan-output renders the Score file and writes    *)
(* the plan with a checksum, apply --plan-file reads it back, perhaps      *)
(* after the Score file has changed, and apply without a plan file renders *)
(* anew.  What they have in common is the configuration Fly is given, by   *)
(* whose digest the planner tells whether a machine is up to date.         *)
(*                                                                         *)
(* A document is the service of metadata.fly's one process, the app it is  *)
(* for, the runtime secrets it needs, and whether its images are pinned.   *)
(* Every document mounts the same volumes and sends the same headers with  *)
(* the checks of its machine.  Go ranges over a map in any order, and encoding/json       *)
(* writes the keys of a map sorted and the fields of a struct in their     *)
(* order, those of an embedded struct first.  A digest is what it digests. *)
(***************************************************************************)
EXTENDS FlyMetadata

CONSTANTS Documents, Apps,
          SecretNames,           \* names of runtime secrets
          MountPaths, HeaderNames,
          Missing                \* no file, nothing deployed

VARIABLES score,                 \* the Score file, a document
          file,                  \* what --plan-output names
          secretsFile,           \* what --secrets-file names
          deployed               \* what Fly was given last, and for which document

planVars == <<score, file, secretsFile, deployed>>

ASSUME PlanFileAssumption ==
    /\ MountPaths \subseteq Nat /\ HeaderNames \subseteq Nat
    /\ IsFiniteSet(MountPaths) /\ IsFiniteSet(HeaderNames)
    /\ \A doc \in Documents :
        doc.app \in Apps /\ doc.pinned \in BOOLEAN /\ doc.secrets \subseteq SecretNames

\* The document as metadata.fly.
Draft(doc) ==
    [level \in Levels |-> CASE level = "process" -> [key \in {"http_service"} |-> "given"]
                            [] level = "service" -> doc.service
                            [] OTHER -> Nowhere]

Orders(S) == SetToSeqs(S)

\* slices.SortFunc, by keys of a map, no two of which are the same.
KeysAscend(s) == \A i, j \in DOMAIN s : i < j => s[i] < s[j]
Sorted(s) == CHOOSE t \in Orders(Range(s)) : KeysAscend(t)

-----------------------------------------------------------------------------
(***************************************************************************)
(* A service as JSON and back (machineconfig.go).                          *)
(***************************************************************************)
ServiceFields ==
    {"protocol", "port", "autoStop", "autoStart", "minRunning", "concurrency", "checks"}

\* The values omitempty leaves out; the port is always written.
Omitted ==
    [protocol |-> "", autoStop |-> "", autoStart |-> "false",
     minRunning |-> 0, concurrency |-> "", checks |-> <<>>]

\* The fields that follow auto_start in the struct; none of them is always written.
AfterAutoStart == {"minRunning", "concurrency", "checks"}

\* An object is its fields, and their order: that of the struct, unless auto_start was
\* moved behind fields that are written after it.
Written(service) == {f \in ServiceFields : f \in DOMAIN Omitted => service[f] # Omitted[f]}
Object(service, names, moved) ==
    [fields    |-> [f \in names |-> service[f]],
     startLast |-> moved /\ names \cap AfterAutoStart # {}]

MarshalPlain(service) == Object(service, Written(service), FALSE)

\* An explicit auto_start is a field of the outer struct, which hides the embedded
\* one and comes after all of them.
MarshalService(service) ==
    IF service.autoStartSet
    THEN Object(service, Written(service) \cup {"autoStart"}, TRUE)
    ELSE MarshalPlain(service)

FieldOf(json, name) == Lookup(json.fields, name, Omitted[name])

UnmarshalService(json) ==
    [protocol     |-> FieldOf(json, "protocol"), port |-> FieldOf(json, "port"),
     autoStop     |-> FieldOf(json, "autoStop"), autoStart |-> FieldOf(json, "autoStart"),
     autoStartSet |-> "autoStart" \in DOMAIN json.fields, minRunning |-> FieldOf(json, "minRunning"),
     concurrency  |-> FieldOf(json, "concurrency"), checks |-> FieldOf(json, "checks")]

-----------------------------------------------------------------------------
(***************************************************************************)
(* A plan, its encoding, and the configuration Fly is given.               *)
(***************************************************************************)
\* loadMachineInput: the document has to render, on pinned images.
Loads(doc) == Renders(Draft(doc)) /\ doc.pinned

\* The mounts keep the order in which the map of volumes was read.
PlanOf(doc, mounts) ==
    [app |-> doc.app, service |-> Rendered(Draft(doc)).services[1], mounts |-> mounts]

Encode(plan) == [plan EXCEPT !.service = MarshalService(@)]
Decode(json) == [json EXCEPT !.service = UnmarshalService(@)]

FlyService(service) ==
    [service EXCEPT !.autoStart = IF service.autoStartSet \/ @ = "true" THEN @ ELSE "",
                    !.autoStartSet = FALSE]

HeadersAsRead(headers) == headers
HeadersToFly(headers) == Sorted(headers)

\* ToFlyMachineConfig; headers is the order in which the map of headers was read.
FlyConfig(plan, headers) ==
    [service |-> FlyService(plan.service), mounts |-> Sorted(plan.mounts),
     headers |-> HeadersToFly(headers)]

-----------------------------------------------------------------------------
(***************************************************************************)
(* The commands.                                                           *)
(***************************************************************************)
\* exactMachinePlanChecksum.
Checksum(json, required) == <<json, required>>

PlanWritten(doc, mounts, version, required, intact) ==
    [whole |-> TRUE, version |-> version, json |-> Encode(PlanOf(doc, mounts)),
     required |-> required, sha |-> Checksum(Encode(PlanOf(doc, mounts)), required),
     intact |-> intact, of |-> doc]

WritePlan(mounts) ==
    /\ Loads(score)
    /\ file' = PlanWritten(score, mounts, 1, score.secrets, TRUE)
    /\ UNCHANGED <<score, secretsFile, deployed>>

\* A kill in the middle of os.WriteFile leaves a part of the JSON.
WritePlanTorn ==
    /\ Loads(score)
    /\ file' = [whole |-> FALSE, intact |-> FALSE]
    /\ UNCHANGED <<score, secretsFile, deployed>>

\* A file of an earlier release, which had no list of secrets.
OlderPlan(mounts) ==
    /\ Loads(score)
    /\ file' = PlanWritten(score, mounts, 0, {}, FALSE)
    /\ UNCHANGED <<score, secretsFile, deployed>>

\* Somebody takes the volumes out of the file.
EditPlan ==
    /\ file # Missing /\ file.whole
    /\ file' = [file EXCEPT !.json.mounts = <<>>, !.intact = FALSE]
    /\ UNCHANGED <<score, secretsFile, deployed>>

EditScore(doc) ==
    /\ score' = doc
    /\ UNCHANGED <<file, secretsFile, deployed>>

\* readable: a regular file of its owner alone, each line KEY=VALUE or part of a
\* quoted block, no key twice.
EditSecrets(names, readable) ==
    /\ secretsFile' = [names |-> names, readable |-> readable]
    /\ UNCHANGED <<score, file, deployed>>

SuppliedSecrets == IF secretsFile = Missing THEN {} ELSE secretsFile.names

ExactSecrets(required) == required = SuppliedSecrets

KnownVersion == file.version = 1

\* The checksum is that of the plan as decoded, encoded once more.
ChecksumHolds == file.sha = Checksum(Encode(Decode(file.json)), file.required)

LoadsExactPlan ==
    /\ file # Missing /\ file.whole
    /\ KnownVersion
    /\ ChecksumHolds
    /\ file.required # {} => secretsFile # Missing
    /\ secretsFile # Missing => secretsFile.readable
    /\ ExactSecrets(file.required)

ApplyPlanFile(headers) ==
    /\ LoadsExactPlan
    /\ Loads(score)
    /\ file.json.app = score.app
    /\ deployed' = [config |-> FlyConfig(Decode(file.json), headers),
                    secrets |-> SuppliedSecrets, of |-> file.of]
    /\ UNCHANGED <<score, file, secretsFile>>

Apply(mounts, headers) ==
    /\ Loads(score)
    /\ deployed' = [config |-> FlyConfig(PlanOf(score, mounts), headers),
                    secrets |-> score.secrets, of |-> score]
    /\ UNCHANGED <<score, file, secretsFile>>

PlanInit ==
    /\ score \in Documents
    /\ file = Missing
    /\ secretsFile = Missing
    /\ deployed = Missing

PlanNext ==
    \/ \E mounts \in Orders(MountPaths) : WritePlan(mounts) \/ OlderPlan(mounts)
    \/ WritePlanTorn
    \/ EditPlan
    \/ \E doc \in Documents : EditScore(doc)
    \/ \E names \in SUBSET SecretNames, readable \in BOOLEAN : EditSecrets(names, readable)
    \/ \E headers \in Orders(HeaderNames) :
        \/ ApplyPlanFile(headers)
        \/ \E mounts \in Orders(MountPaths) : Apply(mounts, headers)

PlanSpec == PlanInit /\ [][PlanNext]_planVars

-----------------------------------------------------------------------------
\* The files and what Fly was given belong to documents.
PlanTypeOK ==
    /\ score \in Documents
    /\ file = Missing \/ (file.whole /\ file.of \in Documents) \/ ~file.whole
    /\ secretsFile = Missing \/ secretsFile.names \in SUBSET SecretNames
    /\ deployed = Missing \/ deployed.of \in Documents

\* What a document asks of the proxy, by docs/metadata-fly.md:74 and the code.
Asked(doc, key, default) == Lookup(doc.service, key, default)

\* What Fly was given, directly or through a file, with the Score file, the plan file
\* and the secrets file changing in between, is what one document asked for: to stop
\* and start machines as it says, a false that was written out included, to keep as
\* many running, with its volumes, and with the secrets it needs and no others
\* (docs/machine-plan-contract.md:30-36, machine_commands.go:377-389).
AppliedAsPlanned ==
    deployed # Missing =>
        LET s == deployed.config.service
        IN  /\ s.autoStop = Asked(deployed.of, "auto_stop", "")
            /\ s.autoStart = Asked(deployed.of, "auto_start",
                    IF s.autoStop \in {"", "off"} THEN "" ELSE "true")
            /\ s.minRunning = Asked(deployed.of, "min_machines_running", 0)
            /\ Len(deployed.config.mounts) = Cardinality(MountPaths)
            /\ deployed.secrets = deployed.of.secrets

\* Applying the same document once more, through a file or not, gives Fly the same
\* configuration, in whatever order the maps of volumes and headers were read, so
\* that its digest is the one the machines carry and nothing is replaced
\* ("ConfigHash returns a stable hash", machineconfig.go:710).
HashIsStable ==
    [][deployed # Missing /\ deployed'.of = deployed.of
            => deployed'.config = deployed.config]_planVars

\* "The exact plan passed to apply is the plan produced by plan"
\* (docs/machine-plan-contract.md:28-29): a file that plan has written and nobody
\* touched is taken by apply, with the secrets it names.
PlanIsAccepted ==
    file # Missing /\ file.intact /\ secretsFile # Missing /\ secretsFile.readable
        /\ secretsFile.names = file.of.secrets
        => LoadsExactPlan
=============================================================================
