---------------------------- MODULE MCRendering ----------------------------
(***************************************************************************)
(* From the Score file to the configuration Fly is given, model-checked in *)
(* three parts: a workload with secrets is rendered (Rendering), an author *)
(* writes metadata.fly (MetadataCheck), and a plan is kept in a file       *)
(* (PlanFile).  No part reads what another keeps, so each behaviour plays  *)
(* one, and the others rest in a state of their own.                       *)
(*                                                                         *)
(* Groups and shapes are interchangeable: names order the containers, not  *)
(* them.                                                                   *)
(***************************************************************************)
EXTENDS Rendering, MetadataCheck, PlanFile

VARIABLE part

\* What a service may say of stopping, of starting, and of how many run.
Stops == {Nowhere, "auto_stop" :> "stop"}
Starts == {Nowhere, "auto_start" :> "true", "auto_start" :> "false"}
Minimums == {Nowhere, "min_machines_running" :> 1}

Port == "internal_port" :> 80
Plain(service) == [service |-> service, app |-> "a", pinned |-> TRUE, secrets |-> {}]

MCDocuments ==
    {Plain(Port @@ s @@ t @@ m) : s \in Stops, t \in Starts, m \in Minimums}
    \cup {[Plain(Port) EXCEPT !.secrets = {"k"}], [Plain(Port) EXCEPT !.app = "b"],
          [Plain(Port) EXCEPT !.pinned = FALSE]}

\* Values at both sides of every conversion.
MCValues ==
    [slack |-> {"team"}, region |-> {"ams"}, namespace |-> {"vault"}, group |-> {"web"},
     service |-> {"given"}, cpus |-> {0, 2}, memory |-> {300, 512, 1024}, listen |-> {80},
     protocol |-> {"tcp", "http"}, stop |-> {"off", "stop", "suspend"},
     start |-> {"true", "false"}, minRunning |-> {1}, concurrency |-> {"limits"},
     misspelt |-> {"false"}, kind |-> {"http", "tcp"}, port |-> {80},
     interval |-> {10, 60}, timeout |-> {5}, grace |-> {60}]

\* A workload with a service, with or without a check of it.
Bare == [slack |-> "team", service |-> "given", listen |-> 80]
MCDrafts == {Bare, [kind |-> "http", port |-> 80, interval |-> 10, timeout |-> 5] @@ Bare}

RenderRests ==
    /\ spec = None /\ pc = "failed" /\ cur = None /\ todo = {}
    /\ groups = [g \in Groups |-> None]
    /\ env = [c \in Containers |-> Nothing] /\ files = [c \in Containers |-> {}]
    /\ secrets = Nothing /\ wanted = [c \in Containers |-> Nothing]
    /\ secretAccessed = FALSE /\ renders = 1 /\ strays = 0

AuthorRests ==
    /\ facts = Nowhere /\ spelling = Nowhere
    /\ edits = 0 /\ verdict = Unjudged

MCInit ==
    /\ part \in {"render", "author", "file"}
    /\ IF part = "render" THEN Init ELSE RenderRests
    /\ IF part = "author" THEN AuthorInit ELSE AuthorRests
    /\ PlanInit
    /\ part # "file" => score = Plain(Port)

MCNext ==
    \/ part = "render" /\ Next /\ UNCHANGED <<authorVars, planVars, part>>
    \/ part = "author" /\ AuthorNext /\ UNCHANGED <<vars, planVars, part>>
    \/ part = "file" /\ PlanNext /\ UNCHANGED <<vars, authorVars, part>>

MCSpec == MCInit /\ [][MCNext]_<<vars, authorVars, planVars, part>>

Symmetry == Permutations(Groups) \cup Permutations(Shapes)
=============================================================================
