---------------------------- MODULE FlyMetadata ----------------------------
(***************************************************************************)
(* From the metadata.fly somebody wrote to the plan: Parse with the        *)
(* published (camelCase) shape, Validate, the conversion of one process    *)
(* and Plan.Validate, as operators on documents.                           *)
(*                                                                         *)
(* A document has one process, with one HTTP service and at most one check *)
(* of it.  It is five dictionaries, one per level, from the keys written   *)
(* there to values; a level whose dictionary is empty is not there.  A     *)
(* duration or an amount of memory as text is a number and a unit, a       *)
(* secret provider with its environment one value, a size of a machine the *)
(* number in it.  Values of the wrong type, commands and the other words   *)
(* that are copied as they are (profile, image, variables, scale, ingress) *)
(* are left out; Rendering has what groups, scales and restarts mean.      *)
(***************************************************************************)
EXTENDS Integers, Sequences, FiniteSets, SequencesExt, TLC

Levels == {"top", "process", "vm", "service", "check"}

Nowhere == [key \in {} |-> 0]
Given(dict) == DOMAIN dict # {}
Lookup(dict, key, default) == IF key \in DOMAIN dict THEN dict[key] ELSE default

-----------------------------------------------------------------------------
(***************************************************************************)
(* The published shape (flymetadata.go).                                   *)
(***************************************************************************)
\* What upper says, and below it what lower does.
Over(upper, lower) ==
    [key \in DOMAIN upper \cup DOMAIN lower |-> IF key \in DOMAIN upper THEN upper[key] ELSE lower[key]]
Single(key, value) == [k \in {key} |-> value]
Kept(dict, keys) == [key \in keys \cap DOMAIN dict |-> dict[key]]

\* A table gives each destination the key it is copied from.
Copied(dict, table) ==
    [key \in {k \in DOMAIN table : table[k] \in DOMAIN dict} |-> dict[table[key]]]

HasPublishedShape(raw) ==
    DOMAIN raw["top"] \cap {"primaryRegion", "releaseCommand", "secrets", "slack"} # {}

ContractKeys ==
    [top |-> {"owner", "slack_channel", "secret_namespace", "region"},
     process |-> {"machine_group", "http_service", "concurrency"},
     vm |-> {"cpus", "memory_mb"},
     service |-> {"internal_port", "protocol", "auto_stop", "auto_start", "min_machines_running"},
     check |-> {"type", "port", "interval_seconds", "timeout_seconds", "grace_period_seconds"}]

TopTable == [slack_channel |-> "slack", region |-> "primaryRegion", secret_namespace |-> "secrets"]

ProcessTable == [machine_group |-> "machineGroup", http_service |-> "httpService"]

ServiceTable ==
    [internal_port |-> "internalPort", protocol |-> "protocol", concurrency |-> "concurrency",
     auto_start |-> "autoStartMachines", auto_stop |-> "autoStopMachines",
     min_machines_running |-> "minMachinesRunning"]

CheckTable ==
    [type |-> "type", port |-> "port", interval_seconds |-> "intervalSeconds",
     timeout_seconds |-> "timeoutSeconds", grace_period_seconds |-> "gracePeriodSeconds"]

\* Durations as text.
TimeTable ==
    [interval_seconds |-> "interval", timeout_seconds |-> "timeout",
     grace_period_seconds |-> "gracePeriod"]

\* The one check of the allowed keys is at these two levels.
OnlyKnownKeys(raw) ==
    /\ DOMAIN raw["top"] \subseteq ContractKeys.top \cup Range(TopTable)
    /\ DOMAIN raw["process"] \subseteq ContractKeys.process \cup Range(ProcessTable)

ParseMemoryMB(amount) == IF amount.unit = "gb" THEN amount.n * 1024 ELSE amount.n
DurationSeconds(time) == IF time.unit = "s" THEN time.n ELSE 0

\* Here and in a process the contract's own key wins.
NormalizeTop(top) == Over(Kept(top, ContractKeys.top), Copied(top, TopTable))

NormalizeVM(vm) ==
    LET memory == IF "memory" \in DOMAIN vm
                  THEN Single("memory_mb", ParseMemoryMB(vm["memory"])) ELSE Nowhere
    IN  Over(Kept(vm, ContractKeys.vm), Over(Copied(vm, [cpus |-> "size"]), memory))

StopWordAlways(word) == IF word \in {"true", "false"} THEN "stop" ELSE word
StopWord(word) == CASE word = "true" -> "stop" [] word = "false" -> "off" [] OTHER -> word

NormalizeHTTPService(service) ==
    LET out == Copied(service, ServiceTable)
    IN  IF "auto_stop" \in DOMAIN out THEN [out EXCEPT !["auto_stop"] = StopWord(@)] ELSE out

\* A text wins over the number, and a check without a port has the service's.
NormalizeCheck(check, service) ==
    LET texts == Copied(check, TimeTable)
        times == [key \in DOMAIN texts |-> DurationSeconds(texts[key])]
    IN  Over(times, Over(Copied(check, CheckTable),
            Over(Single("type", "http"), Copied(service, [port |-> "internalPort"]))))

\* The concurrency of the service is the process's unless that has its own; it stays
\* in the service as well.
NormalizeProcess(process, service) ==
    Over(Kept(process, ContractKeys.process),
         Over(Copied(process, ProcessTable), Kept(service, {"concurrency"})))

NormalizePublishedShape(raw) ==
    [level \in Levels |->
        CASE level = "top" -> NormalizeTop(raw["top"])
          [] level = "process" -> NormalizeProcess(raw["process"], raw["service"])
          [] level = "vm" -> NormalizeVM(raw["vm"])
          [] level = "service" -> NormalizeHTTPService(raw["service"])
          [] level = "check" -> IF Given(raw["check"])
                                THEN NormalizeCheck(raw["check"], raw["service"]) ELSE Nowhere]

-----------------------------------------------------------------------------
(***************************************************************************)
(* The contract: no unknown key at any level, then the ranges.             *)
(***************************************************************************)
\* DisallowUnknownFields.
Decodes(doc) == \A level \in Levels : DOMAIN doc[level] \subseteq ContractKeys[level]

Canonical(raw) == IF HasPublishedShape(raw) THEN NormalizePublishedShape(raw) ELSE raw

Parses(raw) ==
    /\ HasPublishedShape(raw) =>
        /\ OnlyKnownKeys(raw)
        /\ "cpus" \in DOMAIN raw["vm"] \/ Lookup(raw["vm"], "size", 1) >= 1
    /\ Decodes(Canonical(raw))

ValidPort(port) == port \in 1..65535

ValidateProcess(doc) ==
    Given(doc["vm"]) =>
        /\ Lookup(doc["vm"], "cpus", 0) >= 1
        /\ Lookup(doc["vm"], "memory_mb", 0) >= 256
        /\ Lookup(doc["vm"], "memory_mb", 0) % 256 = 0

ValidateCheck(check) ==
    LET interval == Lookup(check, "interval_seconds", 0)
        timeout  == Lookup(check, "timeout_seconds", 0)
    IN  /\ Lookup(check, "type", "") \in {"http", "tcp"}
        /\ ValidPort(Lookup(check, "port", 0))
        /\ interval > 0 /\ timeout > 0 /\ timeout < interval

ValidateHttpService(doc) ==
    "http_service" \in DOMAIN doc["process"] =>
        /\ ValidPort(Lookup(doc["service"], "internal_port", 0))
        /\ Given(doc["check"]) => ValidateCheck(doc["check"])

-----------------------------------------------------------------------------
(***************************************************************************)
(* The conversion (convert/machine.go) and the plan (machineconfig.go).    *)
(***************************************************************************)
\* An http check asks over the protocol the service names; a tcp check is skipped.
ServiceCheck(doc) ==
    IF ~Given(doc["check"]) \/ doc["check"]["type"] # "http" THEN <<>>
    ELSE << [interval |-> doc["check"]["interval_seconds"],
             timeout  |-> doc["check"]["timeout_seconds"],
             grace    |-> Lookup(doc["check"], "grace_period_seconds", 0),
             protocol |-> Lookup(doc["service"], "protocol", "")] >>

\* serviceFromHttpService: what may be stopped is started again unless the document
\* says otherwise.
Service(doc) ==
    LET hs == doc["service"]
        autoStop == Lookup(hs, "auto_stop", "")
    IN  [port         |-> hs["internal_port"],
         protocol     |-> Lookup(hs, "protocol", "tcp"),
         autoStop     |-> autoStop,
         autoStart    |-> Lookup(hs, "auto_start",
                            IF autoStop \in {"", "off"} THEN "false" ELSE "true"),
         autoStartSet |-> "auto_start" \in DOMAIN hs,
         minRunning   |-> Lookup(hs, "min_machines_running", 0),
         concurrency  |-> Lookup(doc["process"], "concurrency", ""),
         checks       |-> ServiceCheck(doc)]

\* The process called app makes its group.
GroupOf(doc) ==
    [name      |-> Lookup(doc["process"], "machine_group", "app"),
     region    |-> Lookup(doc["top"], "region", "iad"),
     namespace |-> Lookup(doc["top"], "secret_namespace", ""),
     cpus      |-> Lookup(doc["vm"], "cpus", 1),
     memory    |-> Lookup(doc["vm"], "memory_mb", 256),
     services  |-> IF "http_service" \in DOMAIN doc["process"] THEN <<Service(doc)>> ELSE <<>>]

ValidateHttpCheck(check) ==
    /\ check.protocol \in {"", "http", "https"}
    /\ check.interval >= 0 /\ check.timeout >= 0 /\ check.grace >= 0

ValidGuest(group) ==
    /\ group.cpus >= 1
    /\ group.memory >= 256 /\ group.memory % 256 = 0

ValidateGroup(group) ==
    /\ ValidGuest(group)
    /\ \A i \in DOMAIN group.services :
        /\ group.services[i].protocol \in {"", "tcp", "udp"}
        /\ group.services[i].autoStop \in {"", "off", "stop", "suspend"}
        /\ \A j \in DOMAIN group.services[i].checks : ValidateHttpCheck(group.services[i].checks[j])

\* What plan, validate and apply make of a document before they look at the app.
Renders(raw) ==
    /\ Parses(raw)
    /\ ValidateProcess(Canonical(raw)) /\ ValidateHttpService(Canonical(raw))
    /\ ValidateGroup(GroupOf(Canonical(raw)))

Rendered(raw) == GroupOf(Canonical(raw))
=============================================================================
