------------------------------ MODULE AppLife ------------------------------
(***************************************************************************)
(* The life of one Fly app: the commands that make it, fill it and take it *)
(* away, call by call, with what pkg/flydeploy/deployer makes of every     *)
(* answer and which calls it makes again.                                  *)
(*                                                                         *)
(* Several operators work on the app at once, and other people on its      *)
(* machines.  A call reaches Fly and is answered, or the request, the      *)
(* answer or its body is lost on the way; a call whose connection failed   *)
(* has either had its effect by then or has none.                          *)
(*                                                                         *)
(* "deploy" is applyMachinePlanLive for a plan of one group of one machine *)
(* (other plans, release commands: module Reconcile; the waits: module     *)
(* Waits), "destroy" is runMachineDestroy, "status" is runMachineStatus    *)
(* and the others runMachineLifecycle: suspend and resume are commands,    *)
(* stop and restart are there for other callers of the package.            *)
(***************************************************************************)
EXTENDS FlyApi, FiniteSets, FiniteSetsExt

CONSTANTS App,
          Operators,
          Ids,            \* of machines, in their order
          Secrets,        \* their keys, in their order
          Configs,        \* of machines: what a config hash tells apart
          Inhabited,      \* ids of machines that may be there at first
          Commands,       \* those in use
          Tries,          \* RetryPolicy.MaxAttempts
          MaxStarted,     \* bound: commands started
          MaxTroubles     \* bound: calls that go wrong, kills, what other people do

VARIABLES fly,      \* Fly: the app, its machines, its secrets
          run,      \* per operator: the command under way
          past,     \* history, per operator: what its command has done so far
          spent     \* of the bounds

lifeVars == <<fly, run, past, spent>>

Actions == {"suspend", "start", "stop", "restart"}
AllLifeCommands == {"deploy", "destroy", "status"} \cup Actions

\* A machine that this tool does not manage has a config of no concern, Nil.
Device == [config : Configs \cup {Nil}, instance : Nat]

Answers == [status : Nat, body : {"json", "garbled", "other", "none"},
            value : {Nil, App} \cup [Ids -> Device \cup {Nil}]]

ASSUME AppLifeAssumption ==
    /\ Inhabited \subseteq Ids /\ Ids \subseteq Nat /\ Secrets \subseteq Nat
    /\ Nil \notin Nat \cup Configs \cup Device \cup Answers
    /\ Nil \notin {App} \cup [Ids -> Device \cup {Nil}]
    /\ Commands \subseteq AllLifeCommands
    /\ Tries \in Nat \ {0}
    /\ {MaxStarted, MaxTroubles} \subseteq Nat

Pay(what) == spent' = [spent EXCEPT ![what] = @ + 1]

-----------------------------------------------------------------------------
(***************************************************************************)
(* Fly.  Each endpoint, given a state, yields the states and answers that  *)
(* may come of it.                                                         *)
(***************************************************************************)
NoDevices == [i \in Ids |-> Nil]
Gone(s) == [s EXCEPT !.app = FALSE, !.live = NoDevices]

Reply(to, status, value) == {[to |-> to, answer |-> Answer(status, value)]}

AppsCreate(s) ==
    IF s.app THEN Reply(s, 409, Nil) ELSE Reply([s EXCEPT !.app = TRUE], 201, Nil)
AppsShow(s) == IF s.app THEN Reply(s, 200, App) ELSE Reply(s, 404, Nil)
AppsDelete(s) == IF s.app THEN Reply(Gone(s), 202, Nil) ELSE Reply(s, 404, Nil)

MachinesList(s) == IF s.app THEN Reply(s, 200, s.live) ELSE Reply(s, 404, Nil)

\* One machine, as a list of itself.
Only(s, id) == [i \in Ids |-> IF i = id THEN s.live[i] ELSE Nil]

\* No id is used twice, and no more than there are.
With(s, i, config) ==
    [s EXCEPT !.live[i] = [config |-> config, instance |-> 1],
              !.used = @ \cup {i}]

MachinesCreate(s, config) ==
    IF ~s.app THEN Reply(s, 404, Nil)
    ELSE IF s.used = Ids THEN Reply(s, 422, Nil)
    ELSE UNION {LET t == With(s, i, config) IN Reply(t, 200, Only(t, i)) :
                    i \in Ids \ s.used}

OnMachine(s, id, replies) == IF s.live[id] = Nil THEN Reply(s, 404, Nil) ELSE replies

MachinesShow(s, id) == OnMachine(s, id, Reply(s, 200, Only(s, id)))
MachinesDelete(s, id) == OnMachine(s, id, Reply([s EXCEPT !.live[id] = Nil], 200, Nil))
MachinesListEvents(s, id) == OnMachine(s, id, Reply(s, 200, Only(s, id)))
MachinesAct(s, id) == OnMachine(s, id, Reply(s, 200, Nil))

\* An update that names another instance than the current one is refused.
MachinesUpdate(s, id, update) ==
    OnMachine(s, id,
        IF s.live[id].instance # update.instance THEN Reply(s, 409, Nil)
        ELSE LET t == [s EXCEPT !.live[id].config = update.config,
                                !.live[id].instance = @ + 1]
             IN Reply(t, 200, Only(t, id)))

\* Nothing reads a secret here; past tells who has set which.
SecretCreate(s) == IF s.app THEN Reply(s, 201, Nil) ELSE Reply(s, 404, Nil)

\* Which endpoint a request is for.
Endpoint(s, r) ==
    LET id == r.path[4] IN
    CASE Len(r.path) = 1 -> AppsCreate(s)
      [] Len(r.path) = 2 /\ r.method = "GET" -> AppsShow(s)
      [] Len(r.path) = 2 /\ r.method = "DELETE" -> AppsDelete(s)
      [] Len(r.path) = 3 /\ r.method = "GET" -> MachinesList(s)
      [] Len(r.path) = 3 /\ r.method = "POST" -> MachinesCreate(s, r.data)
      [] Len(r.path) = 4 /\ r.method = "GET" -> MachinesShow(s, id)
      [] Len(r.path) = 4 /\ r.method = "POST" -> MachinesUpdate(s, id, r.data)
      [] Len(r.path) = 4 /\ r.method = "DELETE" -> MachinesDelete(s, id)
      [] Len(r.path) = 5 /\ r.method = "GET" -> MachinesListEvents(s, id)
      [] Len(r.path) = 5 /\ r.method = "POST" -> MachinesAct(s, id)
      [] Len(r.path) = 6 -> SecretCreate(s)

-----------------------------------------------------------------------------
(***************************************************************************)
(* The deployer: what each of its functions makes of an answer.            *)
(***************************************************************************)
Retryable(status) == status \in {0, 408, 425, 429, 500, 502, 503, 504}
Failure(rsp) == IF Retryable(rsp.status) THEN "transient" ELSE "error"

\* Found, with a body; a 404 means missing to those who ask for one thing.
Found(rsp) == IF rsp.status = 200 /\ rsp.value # Nil THEN "ok" ELSE Failure(rsp)
FoundOrMissing(rsp) == IF rsp.status = 404 THEN "missing" ELSE Found(rsp)
Status(rsp, fine) == IF rsp.status \in fine THEN "ok" ELSE Failure(rsp)

LookupApp(answer) == FoundOrMissing(ParseAppsShowResponse(answer))
Conflict(answer) == ParseAppsCreateResponse(answer).status = 409
CreateApp(answer) == Status(ParseAppsCreateResponse(answer), {201})
DeleteApp(answer) == Status(ParseAppsDeleteResponse(answer), {404, 202})
CreateSecretAnyStatus(answer) ==
    IF ParseSecretCreateResponse(answer) = Failed THEN "transient" ELSE "ok"
CreateSecret(answer) == Status(ParseSecretCreateResponse(answer), {201})

ListMachines(answer) == Found(ParseMachinesListResponse(answer))
GetMachine(answer) == FoundOrMissing(ParseMachinesShowResponse(answer))
CreateMachine(answer) == Found(ParseMachinesCreateResponse(answer))
UpdateMachine(answer) == Found(ParseMachinesUpdateResponse(answer))
DeleteMachinePresent(answer) == Status(ParseMachinesDeleteResponse(answer), {200, 202})
DeleteMachine(answer) == Status(ParseMachinesDeleteResponse(answer), {404, 200, 202})
SuspendMachineAnyStatus(answer) ==
    IF ParseMachinesSuspendResponse(answer) = Failed THEN "transient" ELSE "ok"
StopMachine(answer) == Status(ParseMachinesStopResponse(answer), {200})
SuspendMachine(answer) == Status(ParseMachinesSuspendResponse(answer), {200})
StartMachine(answer) == Status(ParseMachinesStartResponse(answer), {200})
RestartMachine(answer) == Status(ParseMachinesRestartResponse(answer), {200})
ListEvents(answer) == Found(ParseMachinesListEventsResponse(answer))

\* Those that go through retryValue.
Retried == {"lookup", "lookup again", "list", "relist", "show", "prune", "rollback",
            "delete", "delete app", "events"}
Calling == Retried \cup {"create app", "secrets", "create", "update"} \cup Actions
Over == {"idle", "ok", "failed"}

\* The request of a command, by the place it has reached.
Sent(r) ==
    CASE r.at \in {"lookup", "lookup again"} -> AppsShowRequest(App)
      [] r.at = "create app" -> AppsCreateRequest(App)
      [] r.at = "delete app" -> AppsDeleteRequest(App)
      [] r.at = "secrets" -> SecretCreateRequest(App, Min(r.todo), r.config)
      [] r.at \in {"list", "relist"} -> MachinesListRequest(App)
      [] r.at = "show" -> MachinesShowRequest(App, r.id)
      [] r.at = "create" -> MachinesCreateRequest(App, r.config)
      [] r.at = "update" -> MachinesUpdateRequest(App, r.id,
                                [config |-> r.config, instance |-> r.instance])
      [] r.at = "rollback" -> MachinesDeleteRequest(App, r.id)
      [] r.at \in {"prune", "delete"} -> MachinesDeleteRequest(App, Min(r.todo))
      [] r.at = "events" -> MachinesListEventsRequest(App, Min(r.todo))
      [] r.at = "suspend" -> MachinesSuspendRequest(App, Min(r.todo))
      [] r.at = "start" -> MachinesStartRequest(App, Min(r.todo))
      [] r.at = "stop" -> MachinesStopRequest(App, Min(r.todo))
      [] r.at = "restart" -> MachinesRestartRequest(App, Min(r.todo))

Verdict(r) ==
    CASE r.at \in {"lookup", "lookup again"} -> LookupApp(r.answer)
      [] r.at = "create app" -> CreateApp(r.answer)
      [] r.at = "delete app" -> DeleteApp(r.answer)
      [] r.at = "secrets" -> CreateSecret(r.answer)
      [] r.at \in {"list", "relist"} -> ListMachines(r.answer)
      [] r.at = "show" -> GetMachine(r.answer)
      [] r.at = "create" -> CreateMachine(r.answer)
      [] r.at = "update" -> UpdateMachine(r.answer)
      [] r.at \in {"rollback", "prune", "delete"} -> DeleteMachine(r.answer)
      [] r.at = "events" -> ListEvents(r.answer)
      [] r.at = "suspend" -> SuspendMachine(r.answer)
      [] r.at = "start" -> StartMachine(r.answer)
      [] r.at = "stop" -> StopMachine(r.answer)
      [] r.at = "restart" -> RestartMachine(r.answer)

-----------------------------------------------------------------------------
(***************************************************************************)
(* A call.                                                                 *)
(***************************************************************************)
\* What may become of a call: the answer is lost; its body is garbled or not json;
\* Fly is busy, which is the same as a request that is lost, or refuses.
Troubles == {"unanswered", "garbled", "untyped", "busy", "refused"}
Effective == {"none", "unanswered", "garbled", "untyped"}

Arrives(answer, mishap) ==
    CASE mishap = "none" -> answer
      [] mishap = "unanswered" -> [answer EXCEPT !.body = "none", !.value = Nil]
      [] mishap = "garbled" -> [answer EXCEPT !.body = "garbled", !.value = Nil]
      [] mishap = "untyped" -> [answer EXCEPT !.body = "other", !.value = Nil]
      [] mishap = "busy" -> [status |-> 503, body |-> "other", value |-> Nil]
      [] mishap = "refused" -> [status |-> 403, body |-> "other", value |-> Nil]

\* What the history notes of a call of o that Fly takes from fly to "to".
Noted(o, to, status, mishap) ==
    LET r == run[o]
        took == mishap \in Effective /\ status \in {200, 201, 202}
        mine == [past[o] EXCEPT
            !.wrote = IF took /\ r.at = "secrets" THEN @ \cup {Min(r.todo)} ELSE @,
            !.did = IF took /\ r.at \in Actions THEN @ \cup {Min(r.todo)} ELSE @,
            !.makes = IF took /\ r.at = "create" THEN @ + 1 ELSE @,
            !.before = IF took /\ r.at \in {"list", "relist"} THEN fly.used ELSE @,
            !.hits = IF mishap = "none" THEN @ ELSE @ + 1,
            !.refused = @ \/ mishap \in {"refused", "untyped"}]
    IN [q \in Operators |->
            [(IF q = o THEN mine ELSE past[q]) EXCEPT
                !.absent = @ \/ ~fly.app \/ ~to.app,
                !.undone = @ \/ (fly.app /\ ~to.app)]]

Deliver(o, mishap) ==
    /\ run[o].at \in Calling
    /\ run[o].answer = Nil
    /\ \E reply \in Endpoint(fly, Sent(run[o])) :
        LET to == IF mishap \in Effective THEN reply.to ELSE fly IN
        /\ fly' = to
        /\ run' = [run EXCEPT ![o].answer = Arrives(reply.answer, mishap)]
        /\ past' = Noted(o, to, reply.answer.status, mishap)

Served(o) == Deliver(o, "none") /\ UNCHANGED spent

GoesWrong(o) ==
    /\ spent.troubles < MaxTroubles
    /\ Pay("troubles")
    /\ \E mishap \in Troubles : Deliver(o, mishap)

Answered(o, place, verdict) ==
    /\ run[o].at = place
    /\ run[o].answer # Nil
    /\ Verdict(run[o]) = verdict

Update(o, r) == run' = [run EXCEPT ![o] = r] /\ UNCHANGED <<fly, past, spent>>

To(r, place, todo) == [r EXCEPT !.at = place, !.todo = todo, !.try = 1, !.answer = Nil]

\* What is left to do after the first.
Left(o) == run[o].todo \ {Min(run[o].todo)}

\* retryValue, when a call is worth another attempt.
AgainWhatever(r) == Verdict(r) = "transient" /\ r.try < Tries
Again(r) == r.at \in Retried /\ Verdict(r) = "transient" /\ r.try < Tries

TryAgain(o) ==
    /\ run[o].at \in Calling /\ run[o].answer # Nil
    /\ Again(run[o])
    /\ Update(o, [run[o] EXCEPT !.answer = Nil, !.try = @ + 1])

\* A call has failed for good.
GivesUp(o, place) ==
    /\ run[o].at = place
    /\ run[o].answer # Nil
    /\ Verdict(run[o]) \in {"error", "transient"}
    /\ ~Again(run[o])

Resting ==
    [cmd |-> "deploy", at |-> "idle", try |-> 1, answer |-> Nil, todo |-> {},
     config |-> Nil, id |-> Nil, instance |-> 0, made |-> FALSE, ended |-> "idle"]

End(o, outcome) ==
    Update(o, [Resting EXCEPT !.cmd = run[o].cmd, !.at = outcome, !.ended = run[o].at])

-----------------------------------------------------------------------------
(***************************************************************************)
(* EnsureApp, SetSecrets.                                                  *)
(***************************************************************************)
AfterEnsure == IF Secrets = {} THEN "list" ELSE "secrets"

AppFound(o) ==
    /\ Answered(o, "lookup", "ok") \/ Answered(o, "lookup again", "ok")
    /\ Update(o, To(run[o], AfterEnsure, Secrets))

AppMissing(o) ==
    /\ Answered(o, "lookup", "missing")
    /\ Update(o, To(run[o], "create app", {}))

\* A conflict is a success: somebody else has created the app.
AppCreated(o) ==
    /\ \/ Answered(o, "create app", "ok")
       \/ GivesUp(o, "create app") /\ Conflict(run[o].answer)
    /\ Update(o, To(run[o], "lookup again", {}))

SecretSet(o) ==
    /\ Answered(o, "secrets", "ok")
    /\ Update(o, To(run[o], IF Left(o) = {} THEN "list" ELSE "secrets", Left(o)))

-----------------------------------------------------------------------------
(***************************************************************************)
(* reconcile.Apply, for a group of one machine: the first keeps its place, *)
(* the others go.                                                          *)
(***************************************************************************)
Managed(live) == {i \in Ids : live[i] # Nil /\ live[i].config # Nil}

ThenPrune(o, todo) ==
    IF todo = {} THEN End(o, "ok") ELSE Update(o, To(run[o], "prune", todo))

Diffed(o) ==
    /\ run[o].cmd = "deploy"
    /\ Answered(o, "list", "ok")
    /\ LET live == run[o].answer.value
           found == Managed(live)
           first == Min(found)
       IN IF found = {} THEN Update(o, To(run[o], "create", {}))
          ELSE IF live[first].config = run[o].config THEN ThenPrune(o, found \ {first})
          ELSE Update(o, [To(run[o], "show", found \ {first}) EXCEPT !.id = first])

Shown(o) ==
    /\ Answered(o, "show", "ok")
    /\ Update(o, [To(run[o], "update", run[o].todo) EXCEPT
                    !.instance = run[o].answer.value[run[o].id].instance])

Updated(o) ==
    /\ Answered(o, "update", "ok")
    /\ Update(o, To(run[o], "settle", run[o].todo))

Created(o) ==
    /\ Answered(o, "create", "ok")
    /\ Update(o, [To(run[o], "settle", {}) EXCEPT !.made = TRUE,
                                                 !.id = CHOOSE i \in Ids : run[o].answer.value[i] # Nil])

\* The waits, of which only the outcome matters here.
Settled(o) ==
    /\ run[o].at = "settle"
    /\ ThenPrune(o, run[o].todo)

Unsettled(o) ==
    /\ run[o].at = "settle"
    /\ IF run[o].made THEN Update(o, To(run[o], "rollback", {})) ELSE End(o, "failed")

Pruned(o) ==
    /\ Answered(o, "prune", "ok")
    /\ ThenPrune(o, Left(o))

\* No machine was created by then.
RolloutFails(o) ==
    /\ \/ \E place \in {"list", "show", "update", "create", "prune"} : GivesUp(o, place)
       \/ Answered(o, "show", "missing")
    /\ run[o].cmd = "deploy"
    /\ End(o, "failed")

RolledBack(o) ==
    /\ Answered(o, "rollback", "ok") \/ GivesUp(o, "rollback")
    /\ End(o, "failed")

-----------------------------------------------------------------------------
(***************************************************************************)
(* runMachineDestroy, runMachineLifecycle, runMachineStatus.               *)
(***************************************************************************)
ToDelete(o) ==
    /\ run[o].cmd = "destroy"
    /\ Answered(o, "list", "ok")
    /\ LET found == Managed(run[o].answer.value) IN
        Update(o, To(run[o], IF found = {} THEN "relist" ELSE "delete", found))

\* Every machine is reported, and the events of those that are managed.
ToReport(o) ==
    /\ run[o].cmd = "status"
    /\ Answered(o, "list", "ok")
    /\ LET found == Managed(run[o].answer.value) IN
        IF found = {} THEN End(o, "ok") ELSE Update(o, To(run[o], "events", found))

ToActOn(o) ==
    /\ run[o].cmd \in Actions
    /\ Answered(o, "list", "ok")
    /\ LET found == Managed(run[o].answer.value) IN
        IF found = {} THEN End(o, "failed") ELSE Update(o, To(run[o], run[o].cmd, found))

Deleted(o) ==
    /\ Answered(o, "delete", "ok")
    /\ Update(o, To(run[o], IF Left(o) = {} THEN "relist" ELSE "delete", Left(o)))

Reported(o) ==
    /\ Answered(o, "events", "ok")
    /\ IF Left(o) = {} THEN End(o, "ok") ELSE Update(o, To(run[o], "events", Left(o)))

ActedOn(o) ==
    /\ \E action \in Actions : Answered(o, action, "ok")
    /\ IF Left(o) = {} THEN End(o, "ok") ELSE Update(o, To(run[o], run[o].at, Left(o)))

\* The app goes when nothing is left in it; that it cannot be told is no error.
Relisted(o) ==
    /\ Answered(o, "relist", "ok")
    /\ IF run[o].answer.value = NoDevices THEN Update(o, To(run[o], "delete app", {}))
       ELSE End(o, "ok")

NotRelistedDeletes(o) ==
    GivesUp(o, "relist") /\ Update(o, To(run[o], "delete app", {}))
NotRelisted(o) == GivesUp(o, "relist") /\ End(o, "ok")

AppDeleted(o) == Answered(o, "delete app", "ok") /\ End(o, "ok")

Fails(o) ==
    /\ \/ Answered(o, "lookup again", "missing")
       \/ GivesUp(o, "create app") /\ ~Conflict(run[o].answer)
       \/ GivesUp(o, "list") /\ run[o].cmd # "deploy"
       \/ \E place \in {"lookup", "lookup again", "secrets", "delete", "delete app",
                        "events"} \cup Actions : GivesUp(o, place)
    /\ End(o, "failed")

-----------------------------------------------------------------------------
Unknown(s) == [wrote |-> {}, did |-> {}, makes |-> 0, before |-> {}, mine |-> Managed(s.live),
               hits |-> 0, refused |-> FALSE, absent |-> ~s.app, undone |-> FALSE]

StartCommand(o, c) ==
    /\ run[o].at \in Over
    /\ spent.started < MaxStarted
    /\ Pay("started")
    /\ \E config \in IF c = "deploy" THEN Configs ELSE {Nil} :
        run' = [run EXCEPT ![o] = [Resting EXCEPT !.cmd = c, !.config = config,
                    !.at = IF c = "deploy" THEN "lookup" ELSE "list"]]
    /\ past' = [past EXCEPT ![o] = Unknown(fly)]
    /\ UNCHANGED fly

Killed(o) ==
    /\ run[o].at \notin Over
    /\ spent.troubles < MaxTroubles
    /\ Pay("troubles")
    /\ run' = [run EXCEPT ![o] = Resting]
    /\ past' = [past EXCEPT ![o] = Unknown(fly)]
    /\ UNCHANGED fly

\* Other people make machines of their own, and remove some.
Outside ==
    /\ fly.app
    /\ spent.troubles < MaxTroubles
    /\ Pay("troubles")
    /\ \/ \E i \in Ids \ fly.used : fly' = With(fly, i, Nil)
       \/ \E i \in Ids : fly.live[i] # Nil /\ fly' = [fly EXCEPT !.live[i] = Nil]
    /\ UNCHANGED <<run, past>>

Ensure(o) == AppFound(o) \/ AppMissing(o) \/ AppCreated(o) \/ SecretSet(o)
Rollout(o) ==
    \/ Diffed(o) \/ Shown(o) \/ Updated(o) \/ Created(o) \/ Settled(o) \/ Unsettled(o)
    \/ Pruned(o) \/ RolloutFails(o) \/ RolledBack(o)
Others(o) ==
    \/ ToDelete(o) \/ ToReport(o) \/ ToActOn(o) \/ Deleted(o) \/ Reported(o) \/ ActedOn(o)
    \/ Relisted(o) \/ NotRelisted(o) \/ AppDeleted(o) \/ Fails(o)

\* What a command does by itself.
Runs(o) == Served(o) \/ TryAgain(o) \/ Ensure(o) \/ Rollout(o) \/ Others(o)

\* No app yet, or one with some machines, managed or not.
InitialFly ==
    {[app |-> FALSE, live |-> NoDevices, used |-> {}]}
    \cup {[app |-> TRUE, live |-> live, used |-> {i \in Ids : live[i] # Nil}] :
            live \in {f \in [Ids -> [config : Configs \cup {Nil}, instance : {1}] \cup {Nil}] :
                        \A i \in Ids \ Inhabited : f[i] = Nil}}

LifeInit ==
    /\ fly \in InitialFly
    /\ run = [o \in Operators |-> Resting]
    /\ past = [o \in Operators |-> Unknown(fly)]
    /\ spent = [started |-> 0, troubles |-> 0]

LifeNext ==
    \/ \E o \in Operators :
        \/ \E c \in Commands : StartCommand(o, c)
        \/ Runs(o)
        \/ GoesWrong(o)
        \/ Killed(o)
    \/ Outside

LifeSpec == LifeInit /\ [][LifeNext]_lifeVars

-----------------------------------------------------------------------------
Places == Calling \cup Over \cup {"settle"}
RunType ==
    [cmd : AllLifeCommands, at : Places, try : 1..Tries, answer : Answers \cup {Nil},
     todo : SUBSET (Ids \cup Secrets),
     config : Configs \cup {Nil}, id : Ids \cup {Nil}, instance : Nat, made : BOOLEAN,
     ended : Places]

\* Fly, and every command, are well-formed; no call is tried more often than the
\* policy allows.
LifeTypeOK ==
    /\ fly \in [app : BOOLEAN, live : [Ids -> Device \cup {Nil}], used : SUBSET Ids]
    /\ run \in [Operators -> RunType]
    /\ past \in [Operators -> [wrote : SUBSET Secrets, did : SUBSET Ids, makes : Nat,
                    before : SUBSET Ids, mine : SUBSET Ids, hits : Nat, refused : BOOLEAN,
                    absent : BOOLEAN, undone : BOOLEAN]]
    /\ spent \in [started : Nat, troubles : Nat]

\* A deploy that has come to its machines has set every secret itself, whichever
\* calls failed or were answered garbled on the way: no machine is created or
\* updated before its secrets are there (machine_commands.go:207-214).
SecretsFirst ==
    \A o \in Operators :
        run[o].cmd = "deploy" /\ run[o].at \in {"list", "show", "update", "create", "settle",
                                                "prune", "rollback"}
            => past[o].wrote = Secrets

\* What a command reports is so, whichever answers were lost: after a destroy no
\* managed machine that was there when it began is left, and a lifecycle command
\* has acted on each of those that are (machine_commands.go:663-686, 825-834).
SuccessIsReal ==
    \A o \in Operators :
        LET left == past[o].mine \cap Managed(fly.live) IN
        run[o].at = "ok" =>
            /\ run[o].cmd = "destroy" => left = {}
            /\ run[o].cmd \in Actions => left \subseteq past[o].did

\* A machine disappears because somebody else removed it, because a command
\* deletes it, which it does to managed ones only, or with the app, which goes
\* only after it was seen empty: nothing that was there by then is lost with it
\* (machine_commands.go:669-686).
LossesAreMeant ==
    [][\A i \in Ids :
        fly.live[i] # Nil /\ fly'.live[i] = Nil =>
            \/ run' = run
            \/ fly'.app /\ fly.live[i].config # Nil
            \/ ~fly'.app /\ \E o \in Operators :
                run[o].at = "delete app" /\ run'[o] # run[o] /\ i \notin past[o].before]_lifeVars

\* EnsureApp does not fail over an app that is there already, being made by somebody
\* else, or left by an earlier failure, nor over a lookup that fails less often than
\* it is retried; and destroy rides out as many failures, although a delete may
\* have had its effect before (deployer.go:153-198, 231-243, 320-334).
FailsOnlyWhenDisturbed ==
    \A o \in Operators :
        LET h == past[o] IN
        run[o].at = "failed" =>
            /\ run[o].ended = "lookup" => h.refused \/ h.hits >= Tries
            /\ run[o].ended = "create app" => h.hits > 0
            /\ run[o].ended = "lookup again" => h.refused \/ h.hits >= Tries \/ h.undone
            /\ run[o].cmd = "destroy" => h.refused \/ h.hits >= Tries \/ h.absent

\* A deploy makes no more machines than its plan has, although the call that makes
\* one may have to be given up not knowing (deployer.go:286-303).
NothingMadeTwice == \A o \in Operators : past[o].makes <= 1
=============================================================================
