--------------------------- MODULE MetadataCheck ---------------------------
(***************************************************************************)
(* An author writes metadata.fly fact by fact, in the spelling of the      *)
(* contract (snake) or of the published shape (camel), and runs validate.  *)
(*                                                                         *)
(* facts is what the author means, spelling how each fact is written.      *)
(***************************************************************************)
EXTENDS FlyMetadata

CONSTANTS Values,                \* for every fact the values it may have
          Drafts,                \* the facts an author begins with
          MaxEdits               \* bound: facts written after the first draft

VARIABLES facts, spelling, edits,
          verdict                \* of the last validate, since the last edit

authorVars == <<facts, spelling, edits, verdict>>

\* A duration of whole minutes may be given in minutes.
Spellings == {"camel", "snake", "minutes"}

\* For every fact its level and its two keys.
FactTable ==
    [slack       |-> [level |-> "top", camel |-> "slack", snake |-> "slack_channel"],
     region      |-> [level |-> "top", camel |-> "primaryRegion", snake |-> "region"],
     namespace   |-> [level |-> "top", camel |-> "secrets", snake |-> "secret_namespace"],
     group       |-> [level |-> "process", camel |-> "machineGroup", snake |-> "machine_group"],
     service     |-> [level |-> "process", camel |-> "httpService", snake |-> "http_service"],
     cpus        |-> [level |-> "vm", camel |-> "size", snake |-> "cpus"],
     memory      |-> [level |-> "vm", camel |-> "memory", snake |-> "memory_mb"],
     listen      |-> [level |-> "service", camel |-> "internalPort", snake |-> "internal_port"],
     protocol    |-> [level |-> "service", camel |-> "protocol", snake |-> "protocol"],
     stop        |-> [level |-> "service", camel |-> "autoStopMachines", snake |-> "auto_stop"],
     start       |-> [level |-> "service", camel |-> "autoStartMachines", snake |-> "auto_start"],
     minRunning  |-> [level |-> "service", camel |-> "minMachinesRunning", snake |-> "min_machines_running"],
     concurrency |-> [level |-> "service", camel |-> "concurrency", snake |-> "concurrency"],
     misspelt    |-> [level |-> "service", camel |-> "autostart", snake |-> "autostart"],
     kind        |-> [level |-> "check", camel |-> "type", snake |-> "type"],
     port        |-> [level |-> "check", camel |-> "port", snake |-> "port"],
     interval    |-> [level |-> "check", camel |-> "interval", snake |-> "interval_seconds"],
     timeout     |-> [level |-> "check", camel |-> "timeout", snake |-> "timeout_seconds"],
     grace       |-> [level |-> "check", camel |-> "gracePeriod", snake |-> "grace_period_seconds"]]

Facts == DOMAIN FactTable
Times == {"interval", "timeout", "grace"}

\* Durations are in seconds, memory in MB.
ASSUME MetadataAssumption ==
    /\ Values["memory"] \subseteq Nat
    /\ \A time \in Times : Values[time] \subseteq Nat
    /\ Values["stop"] \subseteq {"off", "stop", "suspend"}
    /\ \A draft \in Drafts :
        /\ "service" \in DOMAIN draft /\ DOMAIN draft \subseteq Facts
        /\ \A fact \in DOMAIN draft : draft[fact] \in Values[fact]
    /\ MaxEdits \in Nat

\* The contract has the concurrency in the process, the published shape in the service.
LevelOf(fact, way) ==
    IF fact = "concurrency" /\ way = "snake" THEN "process" ELSE FactTable[fact].level
KeyOf(fact, way) == IF way = "snake" THEN FactTable[fact].snake ELSE FactTable[fact].camel

InText(fact, way, value) ==
    CASE way = "minutes" -> [n |-> value \div 60, unit |-> "m"]
      [] way = "camel" /\ fact \in Times -> [n |-> value, unit |-> "s"]
      [] way = "camel" /\ fact = "memory" ->
            IF value % 1024 = 0 THEN [n |-> value \div 1024, unit |-> "gb"]
                                ELSE [n |-> value, unit |-> "mb"]
      [] way = "camel" /\ fact = "stop" ->
            (CASE value = "stop" -> "true" [] value = "off" -> "false" [] OTHER -> value)
      [] OTHER -> value

\* The document, with its facts written in these ways.
RawIn(ways) ==
    [level \in Levels |->
        LET here == {f \in DOMAIN facts : LevelOf(f, ways[f]) = level}
        IN  [key \in {KeyOf(f, ways[f]) : f \in here} |->
                LET f == CHOOSE f \in here : KeyOf(f, ways[f]) = key
                IN  InText(f, ways[f], facts[f])]]

Raw == RawIn(spelling)

Unjudged == [status |-> "none"]

\* A key that is the same in both is written the one way.
SameKey(fact) == LevelOf(fact, "camel") = LevelOf(fact, "snake")
                    /\ FactTable[fact].camel = FactTable[fact].snake
Spells(fact, way, value) ==
    /\ way = "minutes" => fact \in Times /\ value % 60 = 0
    /\ SameKey(fact) => way = "snake"

\* The author adds a fact or writes one anew.
Write(fact, way, value) ==
    /\ Spells(fact, way, value)
    /\ facts' = Over(Single(fact, value), facts)
    /\ spelling' = Over(Single(fact, way), spelling)
    /\ edits < MaxEdits /\ edits' = edits + 1
    /\ verdict' = Unjudged

ValidateAccepts ==
    /\ verdict = Unjudged
    /\ Renders(Raw)
    /\ verdict' = [status |-> "valid", group |-> Rendered(Raw)]
    /\ UNCHANGED <<facts, spelling, edits>>

ValidateRefuses ==
    /\ verdict = Unjudged
    /\ ~Renders(Raw)
    /\ verdict' = [status |-> "refused"]
    /\ UNCHANGED <<facts, spelling, edits>>

AuthorInit ==
    /\ facts \in Drafts
    /\ \E way \in {"camel", "snake"} :
            spelling = [f \in DOMAIN facts |-> IF SameKey(f) THEN "snake" ELSE way]
    /\ edits = 0
    /\ verdict = Unjudged

AuthorNext ==
    \/ \E fact \in Facts, way \in Spellings :
        \E value \in Values[fact] : Write(fact, way, value)
    \/ ValidateAccepts
    \/ ValidateRefuses

AuthorSpec == AuthorInit /\ [][AuthorNext]_authorVars

-----------------------------------------------------------------------------
\* The document, how its facts are written, and what validate said of it.
AuthorTypeOK ==
    /\ DOMAIN facts \in SUBSET Facts /\ DOMAIN spelling = DOMAIN facts
    /\ \A f \in DOMAIN facts : facts[f] \in Values[f] /\ Spells(f, spelling[f], facts[f])
    /\ edits \in 0..MaxEdits
    /\ verdict.status \in {"none", "valid", "refused"}

\* What the plan says of each fact that has a place in it.
PlaceInService == {"listen", "protocol", "stop", "start", "minRunning", "concurrency"}
PlaceInGroup == {"region", "namespace", "group", "cpus", "memory"}

SaysInGroup(group) ==
    [region |-> group.region, namespace |-> group.namespace, group |-> group.name,
     cpus |-> group.cpus, memory |-> group.memory]
SaysInService(s) ==
    [listen |-> s.port, protocol |-> s.protocol, stop |-> s.autoStop, start |-> s.autoStart,
     minRunning |-> s.minRunning, concurrency |-> s.concurrency]

Says(group, fact) ==
    LET s == group.services[1]
    IN  CASE fact \in PlaceInGroup -> SaysInGroup(group)[fact]
          [] fact \in PlaceInService -> SaysInService(s)[fact]
          [] fact \in Times -> s.checks[1][fact]

Placed == PlaceInGroup \cup PlaceInService
            \cup (IF Lookup(facts, "kind", "tcp") = "http" THEN Times ELSE {})

\* The spelling of the shape the document is taken for.
InShape(fact) ==
    \/ SameKey(fact)
    \/ spelling[fact] = IF HasPublishedShape(Raw) THEN "camel" ELSE "snake"

\* A document that validate accepts means in the plan what its author wrote, in
\* either shape: through the renaming, the conversion of sizes, times and booleans,
\* the defaults of the contract and the conversion to a group, no fact is lost or
\* turned into another.  Facts in the spelling of the other shape, times in minutes
\* and the times of a tcp check are not promised (flymetadata.go:139-462,
\* convert/machine.go:365-410).
MeansWhatItSays ==
    verdict.status = "valid" =>
        \A f \in DOMAIN facts \cap Placed :
            InShape(f) => Says(verdict.group, f) = facts[f]

\* "A camelCase shape [...] is accepted and normalized to the canonical snake_case form"
\* (docs/metadata-fly.md:82-83): a document all in camelCase is accepted where the
\* same document in the contract's own spelling is.
AllCamel == \A f \in DOMAIN facts : SameKey(f) \/ spelling[f] = "camel"
CamelIsAccepted ==
    AllCamel /\ verdict.status = "refused" => ~Renders(RawIn([f \in DOMAIN facts |-> "snake"]))

\* "Unknown fields are rejected at validation time, so misspelled keys fail fast
\* [...] instead of being silently ignored" (docs/metadata-fly.md:78-79).
NothingIgnored ==
    verdict.status = "valid" =>
        /\ "misspelt" \notin DOMAIN facts
        /\ \A f \in DOMAIN facts \cap Placed : Says(verdict.group, f) = facts[f]
=============================================================================
