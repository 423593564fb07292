--------------------------- MODULE CommandsProofs ---------------------------
(***************************************************************************)
(* Proofs about Commands, for any number of processes and workloads: the   *)
(* state may be overwritten with any stale copy of itself, but every copy  *)
(* records only releases whose command has succeeded.  And, of commands    *)
(* that do not overlap: none takes a saved scale back, and none forgets    *)
(* the release it has deployed.                                            *)
(***************************************************************************)
EXTENDS Commands, TLAPS

Done(w) == ran[w] \cup {NoRelease}

Deploying == {"rollout", "rolling", "record"}

\* The strengthening: the file, every process's copy of it, and the plan of
\* every process that is past its release command.
RecordedRan ==
    /\ \A w \in Workloads : state[w].release \in Done(w)
    /\ \A p \in Processes, w \in Workloads : input[p][w].release \in Done(w)
    /\ \A p \in Processes : pc[p] \in Deploying => plan[p].release \in Done(wl[p])

IInv == TypeOK /\ RecordedRan /\ RolloutAfterRelease

LEMMA InitInv == Init => IInv
  BY CommandsAssumption
  DEF Init, Blank, IInv, TypeOK, RecordedRan, RolloutAfterRelease, Done, Deploying,
      Entry, Plan, Phases, AllCommands, Generates

\* Changing one field of one workload's entry.
LEMMA PutRelease ==
    ASSUME NEW f \in [Workloads -> Entry], NEW w \in Workloads,
           NEW r \in Releases \cup {NoRelease}
    PROVE  /\ [f EXCEPT ![w].release = r] \in [Workloads -> Entry]
           /\ \A v \in Workloads : [f EXCEPT ![w].release = r][v].release = IF v = w THEN r ELSE f[v].release
<1>1. [f[w] EXCEPT !.release = r] \in Entry /\ [f[w] EXCEPT !.release = r].release = r
  <2>1. f[w] \in Entry
    OBVIOUS
  <2>. QED
    BY <2>1 DEF Entry
<1>. QED
  BY <1>1

LEMMA PutScale ==
    ASSUME NEW f \in [Workloads -> Entry], NEW w \in Workloads,
           NEW s \in Scales \cup {NoScale}
    PROVE  /\ [f EXCEPT ![w].scale = s] \in [Workloads -> Entry]
           /\ \A v \in Workloads : [f EXCEPT ![w].scale = s][v].release = f[v].release
<1>1. [f[w] EXCEPT !.scale = s] \in Entry /\ [f[w] EXCEPT !.scale = s].release = f[w].release
  <2>1. f[w] \in Entry
    OBVIOUS
  <2>. QED
    BY <2>1 DEF Entry
<1>. QED
  BY <1>1

Budget == [commands : Nat, faults : Nat, crashes : Nat]

LEMMA SpendBudget ==
    ASSUME budget \in Budget, NEW what \in {"commands", "faults", "crashes"}, Spend(what)
    PROVE  budget' \in Budget
<1>1. budget[what] + 1 \in Nat
  BY DEF Budget
<1>. QED
  BY <1>1 DEF Spend, Budget

\* Loading, whatever the command: the copy is the state, or the state with the
\* workload's extras wiped.
LEMMA ReadStep ==
    ASSUME IInv, NEW p \in Processes, NEW c \in AllCommands, NEW w \in Workloads,
           ReadState(p, c, w)
    PROVE  /\ pc' \in [Processes -> Phases]
           /\ cmd' \in [Processes -> AllCommands]
           /\ wl' \in [Processes -> Workloads]
           /\ input' \in [Processes -> [Workloads -> Entry]]
           /\ plan' \in [Processes -> Plan]
           /\ \A q \in Processes, v \in Workloads : input'[q][v].release \in Done(v)
           /\ \A q \in Processes : pc'[q] \in Deploying =>
                q # p /\ pc[q] \in Deploying /\ plan'[q] = plan[q] /\ wl'[q] = wl[q]
<1>. USE DEF IInv, TypeOK, ReadState, Goto
<1>1. pc' \in [Processes -> Phases] /\ \A q \in Processes : pc'[q] \in Deploying => q # p /\ pc[q] \in Deploying
  BY DEF Phases, Deploying
<1>2. cmd' \in [Processes -> AllCommands]
  OBVIOUS
<1>3. wl' \in [Processes -> Workloads]
  OBVIOUS
<1>4. /\ Loaded(c, w) \in [Workloads -> Entry]
      /\ \A v \in Workloads : Loaded(c, w)[v].release \in Done(v)
  <2>. DEFINE e == [release |-> NoRelease, scale |-> NoScale]
  <2>1. e \in Entry /\ e.release = NoRelease
    BY DEF Entry
  <2>2. Loaded(c, w) = IF c \in Generates THEN [state EXCEPT ![w] = e] ELSE state
    BY DEF Loaded
  <2>. HIDE DEF e
  <2>3. CASE c \in Generates
    BY <2>1, <2>2, <2>3 DEF RecordedRan, Done
  <2>4. CASE c \notin Generates
    BY <2>2, <2>4 DEF RecordedRan
  <2>. QED
    BY <2>3, <2>4
<1>5. /\ input' \in [Processes -> [Workloads -> Entry]]
      /\ \A q \in Processes, v \in Workloads : input'[q][v].release \in Done(v)
  BY <1>4 DEF RecordedRan
<1>6. \A release \in Releases \cup {NoRelease} : Planned(c, w, release) \in Plan
  BY <1>4 DEF Planned, Plan, Entry
<1>7. plan' \in [Processes -> Plan] /\ \A q \in Processes \ {p} : plan'[q] = plan[q]
  BY <1>6
<1>. QED
  BY <1>1, <1>2, <1>3, <1>5, <1>7

LEMMA Inductive == IInv /\ [Next]_vars => IInv'
<1>. SUFFICES ASSUME IInv, [Next]_vars
              PROVE  IInv'
  OBVIOUS
<1>. USE DEF IInv, world, history
<1>1. CASE UNCHANGED vars
  BY <1>1 DEF vars, TypeOK, RecordedRan, RolloutAfterRelease, Done
<1>. SUFFICES ASSUME NEW p \in Processes, Step(p)
              PROVE  IInv'
  BY <1>1 DEF Next
<1>2. ASSUME NEW c \in AllCommands, NEW w \in Workloads, Load(p, c, w)
      PROVE  IInv'
  <2>1. TypeOK'
    <3>1. budget' \in Budget
      BY <1>2, SpendBudget DEF Load, TypeOK, Budget
    <3>2. alone' \in BOOLEAN
      BY <1>2, Zenon DEF Load
    <3>. QED
      BY <1>2, <3>1, <3>2, ReadStep DEF Load, TypeOK, Budget
  <2>2. RecordedRan' /\ RolloutAfterRelease'
    BY <1>2, ReadStep DEF Load, RecordedRan, RolloutAfterRelease, Done
  <2>. QED
    BY <2>1, <2>2
<1>3. CASE Reload(p)
  <2>1. "apply" \in AllCommands /\ wl[p] \in Workloads
    BY DEF AllCommands, TypeOK
  <2>2. TypeOK'
    BY <1>3, <2>1, ReadStep DEF Reload, TypeOK
  <2>3. RecordedRan' /\ RolloutAfterRelease'
    BY <1>3, <2>1, ReadStep DEF Reload, RecordedRan, RolloutAfterRelease, Done
  <2>. QED
    BY <2>2, <2>3
<1>4. CASE Provision(p) \/ ProvisionFails(p)
  <2>1. /\ pc' \in [Processes -> Phases]
        /\ \A q \in Processes : pc'[q] \in Deploying => pc[q] \in Deploying
    BY <1>4 DEF Provision, ProvisionFails, AfterProvision, Goto, Phases, Deploying, TypeOK
  <2>2. budget' \in Budget
    BY <1>4, SpendBudget DEF Provision, ProvisionFails, TypeOK, Budget
  <2>. QED
    BY <1>4, <2>1, <2>2
    DEF Provision, ProvisionFails, TypeOK, Budget, RecordedRan, RolloutAfterRelease, Done
<1>5. CASE Persist(p)
  <2>1. \A q \in Processes : pc'[q] \in Deploying => pc[q] \in Deploying
    BY <1>5 DEF Persist, AfterPersist, Goto, Deploying, TypeOK
  <2>2. TypeOK'
    BY <1>5 DEF Persist, AfterPersist, Goto, Phases, TypeOK
  <2>3. RecordedRan' /\ RolloutAfterRelease'
    BY <1>5, <2>1 DEF Persist, RecordedRan, RolloutAfterRelease, Done
  <2>. QED
    BY <2>2, <2>3
<1>6. ASSUME NEW scale \in Scales, SaveScale(p, scale)
      PROVE  IInv'
  <2>1. \A q \in Processes : pc'[q] \in Deploying => pc[q] \in Deploying
    BY <1>6 DEF SaveScale, Goto, Deploying, TypeOK
  <2>2. /\ state' \in [Workloads -> Entry]
        /\ \A w \in Workloads : state'[w].release = input[p][w].release
    <3>1. input[p] \in [Workloads -> Entry] /\ wl[p] \in Workloads
      BY DEF TypeOK
    <3>. QED
      BY <1>6, <3>1, PutScale DEF SaveScale
  <2>3. TypeOK'
    BY <1>6, <2>2 DEF SaveScale, Goto, Phases, TypeOK
  <2>4. RecordedRan' /\ RolloutAfterRelease'
    BY <1>6, <2>1, <2>2 DEF SaveScale, RecordedRan, RolloutAfterRelease, Done
  <2>. QED
    BY <2>3, <2>4
<1>7. CASE WritePlan(p)
  <2>1. TypeOK'
    BY <1>7 DEF WritePlan, Goto, Phases, TypeOK
  <2>2. RecordedRan' /\ RolloutAfterRelease'
    BY <1>7 DEF WritePlan, Goto, Deploying, TypeOK, RecordedRan, RolloutAfterRelease, Done
  <2>. QED
    BY <2>1, <2>2
<1>8. CASE SkipRelease(p)
  <2>1. TypeOK'
    BY <1>8 DEF SkipRelease, Goto, Phases, TypeOK
  <2>2. plan[p].release \in Done(wl[p])
    BY <1>8 DEF SkipRelease, Skip, RecordedRan, Done, TypeOK
  <2>3. RecordedRan' /\ RolloutAfterRelease'
    BY <1>8, <2>2 DEF SkipRelease, Goto, Deploying, TypeOK, RecordedRan, RolloutAfterRelease, Done
  <2>. QED
    BY <2>1, <2>3
<1>9. CASE RunRelease(p) \/ ReleaseFails(p)
  <2>1. plan[p].release \in Releases
    BY <1>9 DEF RunRelease, ReleaseFails, Skip, TypeOK, Plan
  <2>2. TypeOK'
    <3>1. budget' \in Budget
      BY <1>9, SpendBudget DEF RunRelease, ReleaseFails, TypeOK, Budget
    <3>2. ran' \in [Workloads -> SUBSET Releases]
      <4>1. [ran EXCEPT ![wl[p]] = @ \cup {plan[p].release}] \in [Workloads -> SUBSET Releases]
        BY <2>1 DEF TypeOK
      <4>. QED
        BY <1>9, <4>1 DEF RunRelease, ReleaseFails, TypeOK
    <3>. QED
      BY <1>9, <3>1, <3>2 DEF RunRelease, ReleaseFails, Goto, Phases, TypeOK, Budget
  <2>3. \A w \in Workloads : ran[w] \subseteq ran'[w]
    <3>1. ran \in [Workloads -> SUBSET Releases]
      BY DEF TypeOK
    <3>2. ran' = ran \/ ran' = [ran EXCEPT ![wl[p]] = @ \cup {plan[p].release}]
      BY <1>9 DEF RunRelease, ReleaseFails
    <3>. QED
      BY <3>1, <3>2
  <2>4. \A q \in Processes : pc'[q] \in Deploying => plan[q].release \in ran'[wl[q]] \cup {NoRelease}
    BY <1>9, <2>3 DEF RunRelease, ReleaseFails, Goto, Deploying, TypeOK, RecordedRan, Done
  <2>5. RecordedRan' /\ RolloutAfterRelease'
    BY <1>9, <2>3, <2>4 DEF RunRelease, ReleaseFails, RecordedRan, RolloutAfterRelease, Done, TypeOK
  <2>. QED
    BY <2>2, <2>5
<1>10. CASE StartRollout(p) \/ FinishRollout(p) \/ Destroy(p)
  <2>1. /\ running' \in [Workloads -> SUBSET (Releases \cup {NoRelease})]
        /\ deployed' \in [Workloads -> Plan \cup {NoPlan}]
    <3>1. plan[p] \in Plan /\ plan[p].release \in Releases \cup {NoRelease} /\ wl[p] \in Workloads
      BY DEF TypeOK, Plan
    <3>2. CASE StartRollout(p)
      BY <3>1, <3>2 DEF StartRollout, TypeOK
    <3>3. CASE FinishRollout(p)
      BY <3>1, <3>3 DEF FinishRollout, TypeOK
    <3>4. CASE Destroy(p)
      BY <3>1, <3>4 DEF Destroy, TypeOK
    <3>. QED
      BY <1>10, <3>2, <3>3, <3>4
  <2>2. TypeOK'
    BY <1>10, <2>1 DEF StartRollout, FinishRollout, Destroy, Goto, Phases, TypeOK
  <2>3. \A q \in Processes : pc'[q] \in Deploying => pc[q] \in Deploying
    BY <1>10 DEF StartRollout, FinishRollout, Destroy, Goto, Deploying, TypeOK
  <2>4. \A w \in Workloads : running'[w] \subseteq Done(w)
    <3>1. /\ running \in [Workloads -> SUBSET (Releases \cup {NoRelease})]
          /\ \A w \in Workloads : running[w] \subseteq Done(w)
      BY DEF TypeOK, RolloutAfterRelease, Done
    <3>2. CASE StartRollout(p)
      <4>1. plan[p].release \in Done(wl[p])
        BY <3>2 DEF StartRollout, Deploying, RecordedRan
      <4>. QED
        BY <3>1, <3>2, <4>1 DEF StartRollout
    <3>3. CASE FinishRollout(p)
      <4>1. plan[p].release \in Done(wl[p])
        BY <3>3 DEF FinishRollout, Deploying, RecordedRan
      <4>. QED
        BY <3>1, <3>3, <4>1 DEF FinishRollout
    <3>4. CASE Destroy(p)
      BY <3>1, <3>4 DEF Destroy
    <3>. QED
      BY <1>10, <3>2, <3>3, <3>4
  <2>5. RecordedRan' /\ RolloutAfterRelease'
    BY <1>10, <2>3, <2>4 DEF StartRollout, FinishRollout, Destroy, RecordedRan, RolloutAfterRelease, Done
  <2>. QED
    BY <2>2, <2>5
<1>11. CASE RecordRelease(p)
  <2>1. plan[p].release \in Done(wl[p]) /\ wl[p] \in Workloads /\ plan[p].release \in Releases \cup {NoRelease}
    BY <1>11 DEF RecordRelease, Deploying, RecordedRan, TypeOK, Plan
  <2>2. /\ state' \in [Workloads -> Entry]
        /\ \A w \in Workloads : state'[w].release \in Done(w)
    <3>1. input[p] \in [Workloads -> Entry]
      BY DEF TypeOK
    <3>. DEFINE w == wl[p]
                r == plan[p].release
    <3>2. w \in Workloads /\ r \in Releases \cup {NoRelease} /\ r \in Done(w)
      BY <2>1
    <3>3. state' = [input[p] EXCEPT ![w].release = r]
      BY <1>11 DEF RecordRelease
    <3>. HIDE DEF w, r
    <3>4. /\ state' \in [Workloads -> Entry]
          /\ \A v \in Workloads : state'[v].release = IF v = w THEN r ELSE input[p][v].release
      BY <3>1, <3>2, <3>3, PutRelease
    <3>. QED
      BY <3>2, <3>4 DEF RecordedRan
  <2>3. TypeOK'
    BY <1>11, <2>2 DEF RecordRelease, Goto, Phases, TypeOK
  <2>4. RecordedRan' /\ RolloutAfterRelease'
    BY <1>11, <2>2 DEF RecordRelease, Goto, Deploying, TypeOK, RecordedRan, RolloutAfterRelease, Done
  <2>. QED
    BY <2>3, <2>4
<1>12. CASE Quit(p) \/ Crash(p)
  <2>1. TypeOK'
    <3>1. budget' \in Budget
      BY <1>12, SpendBudget DEF Quit, Crash, TypeOK, Budget
    <3>. QED
      BY <1>12, <3>1 DEF Quit, Crash, Goto, Phases, TypeOK, Budget
  <2>2. RecordedRan' /\ RolloutAfterRelease'
    BY <1>12 DEF Quit, Crash, Goto, Deploying, TypeOK, RecordedRan, RolloutAfterRelease, Done
  <2>. QED
    BY <2>1, <2>2
<1>. QED
  BY <1>2, <1>3, <1>4, <1>5, <1>6, <1>7, <1>8, <1>9, <1>10, <1>11, <1>12
  DEF Step, Deploy

(***************************************************************************)
(* Commands is type-correct.                                               *)
(***************************************************************************)
THEOREM CommandTypes == Spec => []TypeOK
<1>1. IInv => TypeOK
  BY DEF IInv
<1>. QED
  BY InitInv, Inductive, <1>1, PTL DEF Spec

(***************************************************************************)
(* No machine runs a release whose command has never succeeded, although   *)
(* processes overwrite each other's state at will.                         *)
(***************************************************************************)
THEOREM ReleasesPrecedeRollouts == Spec => []RolloutAfterRelease
<1>1. IInv => RolloutAfterRelease
  BY DEF IInv
<1>. QED
  BY InitInv, Inductive, <1>1, PTL DEF Spec

-----------------------------------------------------------------------------
(***************************************************************************)
(* As long as commands do not overlap and none is generate.  Then the copy *)
(* of the command that runs is the state, so what it writes back overturns *)
(* nothing but what it means to change.                                    *)
(***************************************************************************)
Working(p) == pc[p] \notin {"idle", "reload"}

\* The one command that runs, with a copy that is the state, and a plan with the
\* scale last saved.
Orderly ==
    /\ \A p, q \in Processes : pc[p] # "idle" /\ pc[q] # "idle" => p = q
    /\ \A p \in Processes : pc[p] # "idle" => cmd[p] \notin Generates
    /\ \A w \in Workloads : state[w].scale = asked[w]
    /\ \A p \in Processes : Working(p) =>
        input[p] = state /\ (cmd[p] # "exact" => plan[p].scale = asked[wl[p]])

\* The release last deployed is the one in the state, or is about to be.
Noted(w) ==
    /\ \A p \in Processes : pc[p] = "record" /\ wl[p] = w => deployed[w] = plan[p]
    /\ \/ deployed[w] = NoPlan \/ deployed[w].release \in {NoRelease, state[w].release}
       \/ \E p \in Processes : pc[p] = "record" /\ wl[p] = w

AloneInv == alone => Orderly /\ (Mishaps = 0 => \A w \in Workloads : Noted(w))

LEMMA AloneInit == Init => AloneInv
  BY DEF Init, Blank, AloneInv, Orderly, Working, Noted

\* A command that goes on or ends, and changes neither its copy nor the state.
LEMMA GoesOn ==
    ASSUME IInv, Orderly, NEW p \in Processes, pc[p] # "idle", NEW phase, Goto(p, phase),
           Working(p) \/ phase = "idle",
           UNCHANGED <<state, cmd, wl, input, plan, asked>>
    PROVE  Orderly'
<1>1. pc'[p] = phase /\ \A q \in Processes \ {p} : pc'[q] = pc[q]
  BY DEF Goto, IInv, TypeOK
<1>. QED
  BY <1>1 DEF Orderly, Working

\* A command has read the state.
LEMMA ReadOrderly ==
    ASSUME IInv, Orderly, NEW p \in Processes, NEW c \in AllCommands \ Generates, NEW w \in Workloads,
           ReadState(p, c, w), \A q \in Processes \ {p} : pc[q] = "idle", UNCHANGED <<state, asked>>
    PROVE  Orderly'
<1>1. /\ pc'[p] # "idle" /\ \A q \in Processes \ {p} : pc'[q] = "idle"
      /\ cmd'[p] = c /\ wl'[p] = w /\ input'[p] = state
  BY DEF ReadState, Goto, Loaded, IInv, TypeOK
<1>2. PICK release : plan'[p] = Planned(c, w, release)
  BY DEF ReadState, IInv, TypeOK
<1>3. c # "exact" => plan'[p].scale = state[w].scale
  BY <1>2 DEF Planned, Loaded
<1>. QED
  BY <1>1, <1>3 DEF Orderly, Working

\* No command but the one that runs is between its rollout and its record.
LEMMA NotedStays ==
    ASSUME IInv, Orderly, NEW p \in Processes, pc[p] # "idle", pc[p] # "record",
           NEW w \in Workloads, Noted(w), deployed'[w] = deployed[w],
           state'[w].release = state[w].release,
           \A q \in Processes : ~(pc'[q] = "record" /\ wl'[q] = w)
    PROVE  Noted(w)'
<1>1. \A q \in Processes : pc[q] # "record"
  BY DEF Orderly
<1>. QED
  BY <1>1 DEF Noted

LEMMA Unfaulted ==
    ASSUME IInv, NEW what \in {"commands", "faults", "crashes"}, Spend(what)
    PROVE  Mishaps' = 0 => Mishaps = 0 /\ what = "commands"
<1>. DEFINE f == budget.faults
            c == budget.crashes
            n == budget.commands
<1>1. budget \in Budget
  BY DEF IInv, TypeOK, Budget
<1>2. f \in Nat /\ c \in Nat
  BY <1>1 DEF Budget
<1>3. budget'.faults = IF what = "faults" THEN f + 1 ELSE f
  BY <1>1 DEF Spend, Budget
<1>4. budget'.crashes = IF what = "crashes" THEN c + 1 ELSE c
  BY <1>1 DEF Spend, Budget
<1>5. Mishaps = f + c /\ Mishaps' = budget'.faults + budget'.crashes
  BY DEF Mishaps
<1>. HIDE DEF f, c
<1>. QED
  BY <1>2, <1>3, <1>4, <1>5

LEMMA AloneKept == IInv /\ AloneInv /\ [Next]_vars => AloneInv'
<1>. SUFFICES ASSUME IInv, AloneInv, [Next]_vars, alone'
              PROVE  Orderly' /\ (Mishaps' = 0 => \A w \in Workloads : Noted(w)')
  BY DEF AloneInv
<1>. USE DEF world, history
<1>1. CASE UNCHANGED vars
  BY <1>1 DEF vars, AloneInv, Orderly, Working, Noted, Mishaps
<1>. SUFFICES ASSUME NEW p \in Processes, Step(p)
              PROVE  Orderly' /\ (Mishaps' = 0 => \A w \in Workloads : Noted(w)')
  BY <1>1 DEF Next
<1>2. /\ pc \in [Processes -> Phases] /\ wl \in [Processes -> Workloads] /\ plan \in [Processes -> Plan]
      /\ state \in [Workloads -> Entry] /\ input \in [Processes -> [Workloads -> Entry]]
      /\ deployed \in [Workloads -> Plan \cup {NoPlan}] /\ asked \in [Workloads -> Scales \cup {NoScale}]
      /\ cmd \in [Processes -> AllCommands]
  BY DEF IInv, TypeOK
<1>3. ASSUME NEW c \in AllCommands, NEW w \in Workloads, Load(p, c, w)
      PROVE  Orderly' /\ (Mishaps' = 0 => \A v \in Workloads : Noted(v)')
  <2>1. /\ alone /\ c \notin Generates /\ \A q \in Processes : pc[q] = "idle"
        /\ ReadState(p, c, w) /\ UNCHANGED <<state, asked, deployed>>
    BY <1>3 DEF Load
  <2>2. Orderly
    BY <2>1 DEF AloneInv
  <2>3. Orderly'
    BY <2>1, <2>2, ReadOrderly
  <2>4. Mishaps' = 0 => Mishaps = 0
    BY <1>3, Unfaulted DEF Load
  <2>5. ASSUME Mishaps' = 0, NEW v \in Workloads PROVE Noted(v)'
    <3>1. Noted(v)
      BY <2>1, <2>4, <2>5 DEF AloneInv
    <3>2. \A q \in Processes : pc'[q] # "record"
      BY <1>2, <2>1 DEF ReadState, Goto
    <3>. QED
      BY <2>1, <3>1, <3>2 DEF Noted
  <2>. QED
    BY <2>3, <2>5
<1>4. ASSUME pc[p] # "idle", alone' = alone
      PROVE  /\ alone /\ Orderly /\ cmd[p] \notin Generates
             /\ \A q \in Processes \ {p} : pc[q] = "idle"
             /\ Mishaps = 0 => \A w \in Workloads : Noted(w)
             /\ Working(p) => input[p] = state
  BY <1>4 DEF AloneInv, Orderly
<1>5. CASE Reload(p)
  <2>1. pc[p] = "reload" /\ ReadState(p, "apply", wl[p]) /\ UNCHANGED <<state, history, budget>>
    BY <1>5 DEF Reload
  <2>2. "apply" \in AllCommands \ Generates /\ wl[p] \in Workloads
    BY <1>2 DEF AllCommands, Generates
  <2>3. Orderly'
    BY <1>4, <2>1, <2>2, ReadOrderly
  <2>4. \A q \in Processes : pc'[q] # "record"
    BY <1>2, <1>4, <2>1 DEF ReadState, Goto
  <2>. QED
    BY <1>4, <2>1, <2>3, <2>4, NotedStays DEF Mishaps
<1>6. CASE Provision(p) \/ WritePlan(p) \/ SkipRelease(p) \/ RunRelease(p) \/ StartRollout(p)
  <2>1. /\ Working(p) /\ pc[p] # "record" /\ alone' = alone
        /\ UNCHANGED <<state, cmd, wl, input, plan, asked, deployed, budget>>
    BY <1>6 DEF Provision, WritePlan, SkipRelease, RunRelease, StartRollout, Working
  <2>2. PICK phase : Goto(p, phase)
    BY <1>6 DEF Provision, WritePlan, SkipRelease, RunRelease, StartRollout
  <2>3. pc[p] # "idle"
    BY <2>1 DEF Working
  <2>4. Orderly'
    BY <1>4, <2>1, <2>2, <2>3, GoesOn
  <2>5. \A q \in Processes : pc'[q] # "record"
    BY <1>2, <1>4, <1>6
    DEF Provision, AfterProvision, WritePlan, SkipRelease, RunRelease, StartRollout, Goto
  <2>. QED
    BY <1>4, <2>1, <2>3, <2>4, <2>5, NotedStays DEF Mishaps
<1>7. CASE ProvisionFails(p) \/ ReleaseFails(p) \/ Quit(p) \/ Crash(p)
  <2>1. /\ pc[p] # "idle" /\ alone' = alone
        /\ UNCHANGED <<state, cmd, wl, input, plan, asked>>
        /\ Spend("faults") \/ Spend("crashes")
    BY <1>7 DEF ProvisionFails, ReleaseFails, Quit, Crash
  <2>2. PICK phase : Goto(p, phase) /\ (Working(p) \/ phase = "idle")
    BY <1>7 DEF ProvisionFails, ReleaseFails, Quit, Crash, Working
  <2>3. Orderly'
    BY <1>4, <2>1, <2>2, GoesOn
  <2>4. Mishaps' # 0
    BY <2>1, Unfaulted
  <2>. QED
    BY <2>3, <2>4
<1>8. CASE Persist(p)
  <2>1. /\ Working(p) /\ pc[p] # "idle" /\ pc[p] # "record" /\ state' = input[p] /\ alone' = alone
        /\ UNCHANGED <<cmd, wl, input, plan, asked, deployed, budget>>
    BY <1>8 DEF Persist, Working
  <2>2. state' = state
    BY <1>4, <2>1
  <2>3. PICK phase : Goto(p, phase)
    BY <1>8 DEF Persist
  <2>4. Orderly'
    BY <1>4, <2>1, <2>2, <2>3, GoesOn
  <2>5. \A q \in Processes : pc'[q] # "record"
    BY <1>2, <1>4, <1>8 DEF Persist, AfterPersist, Goto
  <2>. QED
    BY <1>4, <2>1, <2>2, <2>4, <2>5, NotedStays DEF Mishaps
<1>9. ASSUME NEW scale \in Scales, SaveScale(p, scale)
      PROVE  Orderly' /\ (Mishaps' = 0 => \A v \in Workloads : Noted(v)')
  <2>1. /\ Working(p) /\ pc[p] # "idle" /\ pc[p] # "record" /\ alone' = alone
        /\ state' = [input[p] EXCEPT ![wl[p]].scale = scale]
        /\ asked' = [asked EXCEPT ![wl[p]] = scale]
        /\ UNCHANGED <<cmd, wl, input, plan, deployed, budget>>
    BY <1>9 DEF SaveScale, Working
  <2>2. /\ pc'[p] \in {"reload", "idle"} /\ \A q \in Processes \ {p} : pc'[q] = pc[q]
    BY <1>2, <1>9 DEF SaveScale, Goto
  <2>3. state' = [state EXCEPT ![wl[p]].scale = scale]
    BY <1>4, <2>1
  <2>4. \A w \in Workloads : /\ state'[w].release = state[w].release
                             /\ state'[w].scale = IF w = wl[p] THEN scale ELSE state[w].scale
    <3>1. wl[p] \in Workloads /\ state[wl[p]] \in Entry
      BY <1>2
    <3>2. /\ [state[wl[p]] EXCEPT !.scale = scale].release = state[wl[p]].release
          /\ [state[wl[p]] EXCEPT !.scale = scale].scale = scale
      BY <3>1 DEF Entry
    <3>. QED
      BY <1>2, <2>3, <3>1, <3>2
  <2>5. Orderly'
    <3>1. \A w \in Workloads : state'[w].scale = asked'[w]
      BY <1>2, <1>4, <2>1, <2>4 DEF Orderly
    <3>2. \A q \in Processes : ~Working(q)'
      BY <1>4, <2>1, <2>2 DEF Working
    <3>. QED
      BY <1>4, <2>1, <2>2, <3>1, <3>2 DEF Orderly
  <2>6. \A q \in Processes : pc'[q] # "record"
    BY <1>4, <2>1, <2>2
  <2>. QED
    BY <1>4, <2>1, <2>4, <2>5, <2>6, NotedStays DEF Mishaps
<1>10. CASE FinishRollout(p)
  <2>1. /\ Working(p) /\ pc[p] = "rolling" /\ alone' = alone
        /\ UNCHANGED <<state, cmd, wl, input, plan, asked, budget>>
        /\ deployed' = [deployed EXCEPT ![wl[p]] = plan[p]]
        /\ Goto(p, IF Skip(p) THEN "idle" ELSE "record")
    BY <1>10 DEF FinishRollout, Working
  <2>2. Orderly'
    BY <1>4, <2>1, GoesOn
  <2>3. ASSUME Mishaps' = 0, NEW w \in Workloads PROVE Noted(w)'
    <3>1. CASE w # wl[p]
      <4>1. deployed'[w] = deployed[w] /\ Noted(w)
        BY <1>2, <1>4, <2>1, <2>3, <3>1 DEF Mishaps
      <4>2. \A q \in Processes : ~(pc'[q] = "record" /\ wl'[q] = w)
        BY <1>2, <1>4, <2>1, <3>1 DEF Goto
      <4>. QED
        BY <1>4, <2>1, <4>1, <4>2, NotedStays
    <3>2. CASE w = wl[p] /\ Skip(p)
      <4>1. deployed'[w].release = plan[p].release /\ \A q \in Processes : pc'[q] = "idle"
        BY <1>2, <1>4, <2>1, <3>2 DEF Goto
      <4>2. plan[p].release = NoRelease \/ state[w].release = plan[p].release
        BY <1>4, <2>1, <3>2 DEF Skip
      <4>. QED
        BY <2>1, <4>1, <4>2 DEF Noted
    <3>3. CASE w = wl[p] /\ ~Skip(p)
      <4>1. deployed'[w] = plan[p] /\ pc'[p] = "record" /\ \A q \in Processes \ {p} : pc'[q] = "idle"
        BY <1>2, <1>4, <2>1, <3>3 DEF Goto
      <4>. QED
        BY <2>1, <3>3, <4>1 DEF Noted
    <3>. QED
      BY <3>1, <3>2, <3>3
  <2>. QED
    BY <2>2, <2>3
<1>11. CASE RecordRelease(p)
  <2>1. /\ Working(p) /\ pc[p] = "record" /\ alone' = alone
        /\ state' = [input[p] EXCEPT ![wl[p]].release = plan[p].release]
        /\ UNCHANGED <<cmd, wl, input, plan, asked, deployed, budget>>
    BY <1>11 DEF RecordRelease, Working
  <2>2. pc'[p] = "idle" /\ \A q \in Processes \ {p} : pc'[q] = pc[q]
    BY <1>2, <1>11 DEF RecordRelease, Goto
  <2>3. state' = [state EXCEPT ![wl[p]].release = plan[p].release]
    BY <1>4, <2>1
  <2>4. \A w \in Workloads : /\ state'[w].scale = state[w].scale
                             /\ state'[w].release = IF w = wl[p] THEN plan[p].release ELSE state[w].release
    <3>1. wl[p] \in Workloads /\ state[wl[p]] \in Entry
      BY <1>2
    <3>2. /\ [state[wl[p]] EXCEPT !.release = plan[p].release].scale = state[wl[p]].scale
          /\ [state[wl[p]] EXCEPT !.release = plan[p].release].release = plan[p].release
      BY <3>1 DEF Entry
    <3>. QED
      BY <1>2, <2>3, <3>1, <3>2
  <2>5. Orderly'
    <3>1. \A q \in Processes : ~Working(q)'
      BY <1>4, <2>1, <2>2 DEF Working
    <3>. QED
      BY <1>4, <2>1, <2>2, <2>4, <3>1 DEF Orderly
  <2>6. ASSUME Mishaps' = 0, NEW w \in Workloads PROVE Noted(w)'
    <3>1. Noted(w)
      BY <1>4, <2>1, <2>6 DEF Mishaps
    <3>2. \A q \in Processes : pc'[q] = "idle" /\ (pc[q] = "record" => q = p)
      BY <1>4, <2>1, <2>2
    <3>. QED
      BY <2>1, <2>4, <3>1, <3>2 DEF Noted
  <2>. QED
    BY <2>5, <2>6
<1>12. CASE Destroy(p)
  <2>1. /\ Working(p) /\ pc[p] = "destroy" /\ alone' = alone
        /\ UNCHANGED <<state, cmd, wl, input, plan, asked, budget>>
        /\ deployed' = [deployed EXCEPT ![wl[p]] = NoPlan] /\ Goto(p, "idle")
    BY <1>12 DEF Destroy, Working
  <2>2. Orderly'
    BY <1>4, <2>1, GoesOn
  <2>3. ASSUME Mishaps' = 0, NEW w \in Workloads PROVE Noted(w)'
    <3>1. CASE w # wl[p]
      <4>1. deployed'[w] = deployed[w] /\ Noted(w)
        BY <1>2, <1>4, <2>1, <2>3, <3>1 DEF Mishaps
      <4>2. \A q \in Processes : ~(pc'[q] = "record" /\ wl'[q] = w)
        BY <1>2, <1>4, <2>1, <3>1 DEF Goto
      <4>. QED
        BY <1>4, <2>1, <4>1, <4>2, NotedStays
    <3>2. CASE w = wl[p]
      <4>1. \A q \in Processes : pc'[q] = "idle"
        BY <1>2, <1>4, <2>1 DEF Goto
      <4>. QED
        BY <1>2, <2>1, <3>2, <4>1 DEF Noted
    <3>. QED
      BY <3>1, <3>2
  <2>. QED
    BY <2>2, <2>3
<1>. QED
  BY <1>3, <1>5, <1>6, <1>7, <1>8, <1>9, <1>10, <1>11, <1>12 DEF Step, Deploy

(***************************************************************************)
(* What apply and reconcile roll out has the scale last saved, after any   *)
(* sequence of commands that do not overlap, whichever of them failed or   *)
(* was killed: no write of the state takes a saved scale back.             *)
(***************************************************************************)
THEOREM ScalesObeyed == Spec => []ApplyObeysScale
<1>1. AloneInv => ApplyObeysScale
  BY DEF AloneInv, Orderly, Working, ApplyObeysScale
<1>. QED
  BY InitInv, Inductive, AloneInit, AloneKept, <1>1, PTL DEF Spec

(***************************************************************************)
(* The command of the release deployed last does not run again, after any  *)
(* sequence of commands that do not overlap, none of which failed: the     *)
(* hash is in the state before the next command reads it.                  *)
(***************************************************************************)
THEOREM ReleasesRunOnce == Spec => ReleaseOnlyOnChange
<1>. DEFINE Once == \A p \in Processes :
        pc[p] = "release" /\ ~Skip(p) /\ pc'[p] = "rollout" =>
            \/ deployed[wl[p]] = NoPlan
            \/ deployed[wl[p]].release # plan[p].release
            \/ Mishaps > 0 \/ ~alone
<1>1. IInv /\ AloneInv => \A p \in Processes :
        pc[p] = "release" /\ ~Skip(p) =>
            \/ deployed[wl[p]] = NoPlan
            \/ deployed[wl[p]].release # plan[p].release
            \/ Mishaps > 0 \/ ~alone
  <2>. SUFFICES ASSUME IInv, AloneInv, NEW p \in Processes, pc[p] = "release", ~Skip(p),
                       alone, ~(Mishaps > 0), deployed[wl[p]] # NoPlan
                PROVE  deployed[wl[p]].release # plan[p].release
    OBVIOUS
  <2>1. Mishaps = 0
    <3>1. Mishaps \in Nat
      BY DEF IInv, TypeOK, Mishaps
    <3>. QED
      BY <3>1
  <2>2. wl[p] \in Workloads
    BY DEF IInv, TypeOK
  <2>3. Orderly /\ Noted(wl[p])
    BY <2>1, <2>2 DEF AloneInv
  <2>4. input[p] = state /\ \A q \in Processes : pc[q] # "record"
    BY <2>3 DEF Orderly, Working
  <2>5. plan[p].release # NoRelease /\ state[wl[p]].release # plan[p].release
    BY <2>4 DEF Skip
  <2>. QED
    BY <2>3, <2>4, <2>5 DEF Noted
<1>2. IInv /\ AloneInv /\ [Next]_vars => [Once]_vars
  BY <1>1
<1>. QED
  BY InitInv, Inductive, AloneInit, AloneKept, <1>2, PTL DEF Spec, ReleaseOnlyOnChange
=============================================================================
