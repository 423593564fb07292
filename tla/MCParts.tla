------------------------------ MODULE MCParts ------------------------------
(***************************************************************************)
(* What Apply is built from, model-checked: the diff of a plan and a fleet *)
(* (PlannerCheck), the waits for a machine (Waits), and the state file     *)
(* (StateFile).  None reads what another keeps, so each behaviour plays    *)
(* one part, and the others rest in a state of their own.                  *)
(*                                                                         *)
(* For the diff: two groups a plan may name and one it never does, two     *)
(* hashes, two regions and one left out by the API, up to three live       *)
(* machines.  For the waits, a small clock: several polls and wait         *)
(* requests fit before the deadlines, and the retries of a request begun   *)
(* late pass them.  For the state file: two processes; the file is missing *)
(* at first, of the current schema, from before schema versions, or from a *)
(* newer version of the tool.                                              *)
(***************************************************************************)
EXTENDS PlannerCheck, Waits, StateFile, TLC

VARIABLE part

Sizes == {<<0, 0>>, <<0, 1>>, <<1, 1>>, <<1, 2>>, <<2, 2>>}

GroupPlan(size, hash) ==
    [min |-> size[1], max |-> size[2], hash |-> hash, region |-> "ams"]

MCPlans ==
    {1 :> GroupPlan(s, h) : s \in Sizes, h \in {"h1", "h2"}}
        \cup {1 :> GroupPlan(s, "h1") @@ 2 :> GroupPlan(<<1, 1>>, "h1") : s \in Sizes}

Live == [group : {1, 2}, hash : {"h1", "h2"}, region : {"ams", "lhr"}]
    \cup {[group |-> 1, hash |-> "h1", region |-> NoRegion],
          [group |-> 3, hash |-> "h1", region |-> "ams"],
          [group |-> NoGroup, hash |-> "h1", region |-> "ams"]}

MCFleets == UNION {[ids -> Live] : ids \in {{}, {3}, {3, 4}, {2, 3, 4}}}

MCSlots == 1 .. 6

MCBackoff == <<1, 1>>

MCFiles == {[schema |-> s, payload |-> "a"] : s \in 0 .. 2}

MCInit ==
    /\ part \in {"diff", "wait", "file"}
    /\ Init /\ WaitInit /\ FileInit
    /\ part # "diff" => fleet = <<>>
    /\ part # "wait" => machine = "created"
    /\ state \in {NoInode, CHOOSE i \in Inodes : TRUE}  \* inodes are all alike
    /\ part # "file" => state = NoInode
    /\ \A p \in Processes : want[p].payload = "a"  \* read by nobody yet

MCNext ==
    \/ part = "diff" /\ Next /\ UNCHANGED <<waitVars, fileVars, part>>
    \/ part = "wait" /\ WaitNext /\ UNCHANGED <<vars, fileVars, part>>
    \/ part = "file" /\ FileNext /\ UNCHANGED <<vars, waitVars, part>>

\* A wait or a persist that has not begun has nothing to be fair to.
MCSpec ==
    /\ MCInit /\ [][MCNext]_<<vars, waitVars, fileVars, part>>
    /\ WaitFairness /\ FileFairness
=============================================================================
