-------------------------- MODULE RenderingProofs --------------------------
(***************************************************************************)
(* Proofs about Rendering, for any number of containers, keys, groups and  *)
(* renderings in one process; about PlanFile, for any documents, volumes,  *)
(* headers and secrets; and about MetadataCheck, for any values of the     *)
(* facts, any drafts and any number of edits.                              *)
(***************************************************************************)
EXTENDS Rendering, PlanFile, MetadataCheck, FiniteSetTheorems, WellFoundedInduction, TLAPS

\* A set of naturals that is not empty has a least element.
LEMMA Least ==
    ASSUME NEW S, S \subseteq Nat, S # {}
    PROVE  Min(S) \in S /\ \A y \in S : Min(S) <= y
<1>1. PICK x \in S : \A y \in S : ~(<<y, x>> \in OpToRel(<, Nat))
  BY NatLessThanWellFounded, WFMin
<1>2. \A y \in S : <<y, x>> \in OpToRel(<, Nat) <=> y < x
  BY DEF OpToRel
<1>3. \A y \in S : ~(y < x)
  BY <1>1, <1>2
<1>4. \A y \in S : x <= y
  BY <1>3
<1>. QED
  BY <1>4 DEF Min

\* The phases that handle a container.
Active == Layers \cup {"image", "files", "volumes"}

\* In them there is one, and in a machine plan its group has been made.
Located ==
    pc \in Active =>
        /\ cur \in spec.containers
        /\ spec.kind = "machine" =>
            ValidMetadata /\ \A c \in spec.containers : groups[spec.group[c]] # None

TypeInv == TypeOK /\ Located

LEMMA InitType == Init => TypeInv
<1>. SUFFICES ASSUME Init PROVE TypeInv
  OBVIOUS
<1>1. TypeOK
  <2>1. Nothing \in [Keys -> Value \cup {None}]
    BY DEF Nothing
  <2>. HIDE DEF Nothing
  <2>2. /\ env \in [Containers -> [Keys -> Value \cup {None}]]
        /\ wanted \in [Containers -> [Keys -> Value \cup {None}]]
        /\ secrets \in [Keys -> Value \cup {None}]
    BY <2>1 DEF Init
  <2>3. /\ files \in [Containers -> SUBSET [secret : BOOLEAN, named : BOOLEAN]]
        /\ groups \in [Groups -> Group \cup {None}]
    BY DEF Init
  <2>4. secretAccessed \in BOOLEAN
    BY Zenon DEF Init
  <2>5. pc \in Phases /\ cur \in Containers \cup {None} /\ todo \in SUBSET Keys
    BY DEF Init, Phases
  <2>. QED
    BY <2>2, <2>3, <2>4, <2>5 DEF Init, TypeOK
<1>2. Located
  BY DEF Init, Located, Active, Layers
<1>. QED
  BY <1>1, <1>2 DEF TypeInv

\* A step that leaves the workload, the groups and the container alone.
LEMMA StillLocated ==
    ASSUME Located, UNCHANGED <<spec, cur, groups>>, pc' \in Active => pc \in Active
    PROVE  Located'
<1>1. ValidMetadata => ValidMetadata'
  BY DEF ValidMetadata, Members
<1>. QED
  BY <1>1 DEF Located

LEMMA SpecType ==
    ASSUME TypeOK
    PROVE  /\ spec.containers \subseteq Containers /\ spec.containers # {}
           /\ spec.processes \subseteq Containers
           /\ spec.group \in [Containers -> Groups]
           /\ spec.shape \in [Containers -> Shapes]
  BY DEF TypeOK, Workload

\* A watched and an unwatched substitution keep the flag a flag.
LEMMA FlagType ==
    ASSUME TypeOK, NEW text \in Texts, Watched(text) \/ Unwatched(text)
    PROVE  secretAccessed' \in BOOLEAN /\ strays' \in Int
<1>1. secretAccessed' \in BOOLEAN
  BY Zenon DEF Watched, Unwatched
<1>2. strays' \in Int
  BY DEF TypeOK, Watched, Unwatched
<1>. QED
  BY <1>1, <1>2

LEMMA ConvertType == TypeInv /\ Convert => TypeInv'
<1>. SUFFICES ASSUME TypeInv, Convert PROVE TypeInv'
  OBVIOUS
<1>. USE DEF TypeInv, Convert, Goto, First
<1>1. cur' \in spec.containers
  BY SpecType, RenderingAssumption, Least
<1>2. \A g \in Groups : Members(g) # {} => NewGroup(g) \in Group
  <2>. TAKE g \in Groups
  <2>. HAVE Members(g) # {}
  <2>1. Members(g) \subseteq Containers
    BY SpecType DEF Members
  <2>2. Min(Members(g)) \in Containers
    BY <2>1, RenderingAssumption, Least
  <2>3. spec.shape[Min(Members(g))] \in Shapes
    BY <2>2, SpecType
  <2>4. <<>> \in Seq(Containers) /\ <<>> \in Seq(Ports)
    OBVIOUS
  <2>. QED
    BY <2>3, <2>4 DEF NewGroup, Group
<1>3. groups' \in [Groups -> Group \cup {None}]
  BY <1>2
<1>4. pc' \in {"image", "container"}
  OBVIOUS
<1>5. TypeOK'
  BY <1>1, <1>3, <1>4, SpecType DEF TypeOK, Phases, Layers
<1>6. ASSUME spec.kind = "machine"
      PROVE  \A c \in spec.containers : groups'[spec.group[c]] # None
  <2>. TAKE c \in spec.containers
  <2>. DEFINE g == spec.group[c]
  <2>1. g \in Groups /\ c \in Members(g)
    BY <1>6, SpecType DEF Members, ValidMetadata
  <2>2. groups'[g] = NewGroup(g)
    BY <1>6, <2>1
  <2>. QED
    BY <2>1, <2>2, <1>2, RenderingAssumption
<1>7. Located'
  BY <1>1, <1>6 DEF Located, ValidMetadata, Members
<1>. QED
  BY <1>5, <1>7

\* The container, with its service, joins a group.
LEMMA AttachedType ==
    ASSUME NEW g \in Group, cur \in Containers, NEW port \in Ports \cup {None}
    PROVE  /\ Attached(g, port) \in Group
           /\ Attached(g, port).shape = g.shape
           /\ Attached(g, port).containers = Append(g.containers, cur)
<1>1. g.containers \in Seq(Containers) /\ g.ports \in Seq(Ports)
  BY DEF Group
<1>2. Append(g.containers, cur) \in Seq(Containers)
  BY <1>1
<1>3. (IF port = None THEN g.ports ELSE Append(g.ports, port)) \in Seq(Ports)
  BY <1>1
<1>. QED
  BY <1>2, <1>3 DEF Attached, Group

LEMMA FollowingType ==
    ASSUME TypeOK, cur \in spec.containers
    PROVE  \/ /\ Following(cur) \in spec.containers
              /\ cur < Following(cur)
              /\ \A d \in spec.containers : cur < d => Following(cur) <= d
           \/ /\ Following(cur) = None
              /\ \A d \in spec.containers : ~(d > cur)
<1>. DEFINE Later == {d \in spec.containers : d > cur}
<1>1. Later \subseteq Nat
  BY SpecType, RenderingAssumption
<1>2. CASE Later = {}
  BY <1>2 DEF Following
<1>3. CASE Later # {}
  <2>1. Min(Later) \in Later /\ \A y \in Later : Min(Later) <= y
    BY <1>1, <1>3, Least
  <2>2. Following(cur) = Min(Later)
    BY <1>3 DEF Following
  <2>. QED
    BY <2>1, <2>2
<1>. QED
  BY <1>2, <1>3

LEMMA AttachType ==
    ASSUME TypeInv, NEW port \in Ports \cup {None}, Attach(port)
    PROVE  TypeInv'
<1>. USE DEF TypeInv, Attach, Goto, First
<1>1. cur \in spec.containers /\ cur \in Containers
  BY SpecType DEF Located, Active
<1>2. \/ Following(cur) \in spec.containers
      \/ Following(cur) = None
  BY <1>1, FollowingType
<1>3. ASSUME spec.kind = "machine"
      PROVE  /\ groups' \in [Groups -> Group \cup {None}]
             /\ \A g \in Groups : groups[g] # None => groups'[g] # None
  <2>. DEFINE g == spec.group[cur]
  <2>1. g \in Groups /\ groups[g] \in Group
    BY <1>1, <1>3, SpecType DEF Located, Active, TypeOK
  <2>2. Attached(groups[g], port) \in Group
    BY <1>1, <2>1, AttachedType
  <2>3. groups' = [groups EXCEPT ![g] = Attached(groups[g], port)]
    BY <1>3
  <2>. HIDE DEF g
  <2>. QED
    BY <2>1, <2>2, <2>3, RenderingAssumption DEF TypeOK
<1>4. TypeOK'
  BY <1>2, <1>3, SpecType DEF TypeOK, Phases, Layers
<1>5. Located'
  <2>1. ValidMetadata => ValidMetadata'
    BY DEF ValidMetadata, Members
  <2>2. pc \in Active
    BY DEF Active
  <2>3. pc' \in Active => cur' \in spec.containers
    BY <1>2 DEF Active, Layers
  <2>. QED
    BY <1>3, <2>1, <2>2, <2>3, SpecType DEF Located
<1>. QED
  BY <1>4, <1>5

LEMMA VariableType ==
    ASSUME TypeInv, NEW text \in Texts, Variable(text)
    PROVE  TypeInv'
<1>. USE DEF TypeInv
<1>1. cur \in spec.containers /\ cur \in Containers
  BY SpecType DEF Located, Active, Variable
<1>. DEFINE key == Min(todo)
            value == [layer |-> pc, secret |-> text = "secret"]
<1>2. key \in Keys /\ todo' \subseteq Keys
  BY RenderingAssumption, Least DEF Variable, TypeOK
<1>3. value \in Value
  <2>1. (text = "secret") \in BOOLEAN
    OBVIOUS
  <2>. QED
    BY <2>1 DEF Value, Variable
<1>4. /\ env' = env \/ env' = [env EXCEPT ![cur][key] = None]
                    \/ env' = [env EXCEPT ![cur][key] = value]
      /\ secrets' = secrets \/ secrets' = [secrets EXCEPT ![key] = value]
      /\ wanted' = wanted \/ wanted' = [wanted EXCEPT ![cur][key] = value]
  BY DEF Variable, Absent, Withhold, Show
<1>. HIDE DEF key, value
<1>5. /\ env' \in [Containers -> [Keys -> Value \cup {None}]]
      /\ secrets' \in [Keys -> Value \cup {None}]
      /\ wanted' \in [Containers -> [Keys -> Value \cup {None}]]
  <2>1. ASSUME NEW f \in [Containers -> [Keys -> Value \cup {None}]], NEW v \in Value \cup {None}
        PROVE  [f EXCEPT ![cur][key] = v] \in [Containers -> [Keys -> Value \cup {None}]]
    BY <1>1, <1>2
  <2>2. env' \in [Containers -> [Keys -> Value \cup {None}]]
    <3>1. env \in [Containers -> [Keys -> Value \cup {None}]]
      BY DEF TypeOK
    <3>2. /\ [env EXCEPT ![cur][key] = None] \in [Containers -> [Keys -> Value \cup {None}]]
          /\ [env EXCEPT ![cur][key] = value] \in [Containers -> [Keys -> Value \cup {None}]]
      BY <1>3, <2>1, <3>1
    <3>. QED
      BY <1>4, <3>1, <3>2
  <2>3. secrets' \in [Keys -> Value \cup {None}]
    BY <1>2, <1>3, <1>4 DEF TypeOK
  <2>4. wanted' \in [Containers -> [Keys -> Value \cup {None}]]
    <3>1. wanted \in [Containers -> [Keys -> Value \cup {None}]]
      BY DEF TypeOK
    <3>2. [wanted EXCEPT ![cur][key] = value] \in [Containers -> [Keys -> Value \cup {None}]]
      BY <1>3, <2>1, <3>1
    <3>. QED
      BY <1>4, <3>1, <3>2
  <2>. QED
    BY <2>2, <2>3, <2>4
<1>6. TypeOK'
  BY <1>2, <1>5, FlagType DEF TypeOK, Variable
<1>7. Located'
  BY StillLocated DEF Variable
<1>. QED
  BY <1>6, <1>7

LEMMA FileType ==
    ASSUME TypeInv, NEW text \in Texts, File(text)
    PROVE  TypeInv'
<1>. USE DEF TypeInv
<1>1. cur \in spec.containers /\ cur \in Containers
  BY SpecType DEF Located, Active, File
<1>2. [secret |-> text = "secret", named |-> SecretSeen(text)] \in [secret : BOOLEAN, named : BOOLEAN]
  <2>1. (text = "secret") \in BOOLEAN /\ SecretSeen(text) \in BOOLEAN
    BY Zenon DEF SecretSeen
  <2>. QED
    BY <2>1
<1>3. files' \in [Containers -> SUBSET [secret : BOOLEAN, named : BOOLEAN]]
  <2>. DEFINE raw == [secret |-> text = "secret", named |-> SecretSeen(text)]
  <2>1. files' = files \/ files' = [files EXCEPT ![cur] = @ \cup {raw}]
    BY DEF File
  <2>2. raw \in [secret : BOOLEAN, named : BOOLEAN]
    BY <1>2
  <2>. HIDE DEF raw
  <2>. QED
    BY <1>1, <2>1, <2>2 DEF TypeOK
<1>4. TypeOK'
  BY <1>3, FlagType DEF TypeOK, File, Goto, Phases
<1>5. Located'
  BY StillLocated DEF File, Goto, Active, Layers
<1>. QED
  BY <1>4, <1>5

LEMMA TypeStep == TypeInv /\ [Next]_vars => TypeInv'
<1>. SUFFICES ASSUME TypeInv, [Next]_vars PROVE TypeInv'
  OBVIOUS
<1>. USE DEF TypeInv, result
<1>1. CASE UNCHANGED vars
  BY <1>1 DEF vars, TypeOK, Located, ValidMetadata, Members
<1>2. ASSUME NEW text \in Texts, Provision(text) \/ Image(text) \/ Volume(text)
      PROVE  TypeInv'
  <2>1. TypeOK'
    BY <1>2, FlagType DEF Provision, Image, Volume, Goto, TypeOK, Phases, Layers
  <2>2. Located'
    BY <1>2, StillLocated DEF Provision, Image, Volume, Goto, Active
  <2>. QED
    BY <2>1, <2>2
<1>3. CASE NextLayer \/ EndFiles
  <2>1. pc \in Active /\ pc' \in Active
    BY <1>3 DEF NextLayer, EndFiles, Goto, Active, Layers
  <2>2. TypeOK'
    BY <1>3, <2>1 DEF NextLayer, EndFiles, TypeOK, Phases, Active
  <2>3. Located'
    BY <1>3, <2>1, StillLocated DEF NextLayer, EndFiles
  <2>. QED
    BY <2>2, <2>3
<1>4. CASE Validate \/ Fail
  BY <1>4 DEF Validate, Fail, Goto, TypeOK, Phases, Located, Active, Layers
<1>5. CASE Again
  BY <1>5 DEF Again, Nothing, Goto, TypeOK, Phases, Located, Active, Layers
<1>. QED
  BY <1>1, <1>2, <1>3, <1>4, <1>5, ConvertType, AttachType, VariableType, FileType DEF Next

(***************************************************************************)
(* Rendering is type-correct: in particular there is a container wherever  *)
(* one is handled.                                                         *)
(***************************************************************************)
THEOREM RenderingTypes == Spec => []TypeOK
<1>1. TypeInv => TypeOK
  BY DEF TypeInv
<1>. QED
  BY InitType, TypeStep, <1>1, PTL DEF Spec

-----------------------------------------------------------------------------
(***************************************************************************)
(* Secrets.                                                                *)
(***************************************************************************)
LEMMA InitSecrets == Init => SecretsStayOut
  BY DEF Init, Nothing, SecretsStayOut

LEMMA SecretsStep == TypeInv /\ SecretsStayOut /\ [Next]_vars => SecretsStayOut'
<1>. SUFFICES ASSUME TypeInv, SecretsStayOut, [Next]_vars PROVE SecretsStayOut'
  OBVIOUS
<1>. USE DEF result
<1>1. CASE UNCHANGED <<env, files>>
  BY <1>1 DEF SecretsStayOut
<1>2. ASSUME NEW text \in Texts, Variable(text)
      PROVE  SecretsStayOut'
  <2>. DEFINE key == Min(todo)
              value == [layer |-> pc, secret |-> text = "secret"]
  <2>1. files' = files
    BY <1>2 DEF Variable
  <2>2. \/ env' = env
        \/ env' = [env EXCEPT ![cur][key] = None]
        \/ env' = [env EXCEPT ![cur][key] = value] /\ text # "secret"
    BY <1>2 DEF Variable, Absent, Withhold, Show, SecretSeen, References
  <2>3. text # "secret" => ~value.secret
    OBVIOUS
  <2>. HIDE DEF key, value
  <2>4. env \in [Containers -> [Keys -> Value \cup {None}]]
    BY DEF TypeInv, TypeOK
  <2>. QED
    BY <2>1, <2>2, <2>3, <2>4 DEF SecretsStayOut
<1>3. ASSUME NEW text \in Texts, File(text)
      PROVE  SecretsStayOut'
  <2>. DEFINE raw == [secret |-> text = "secret", named |-> SecretSeen(text)]
  <2>1. files' = files \/ files' = [files EXCEPT ![cur] = @ \cup {raw}]
    BY <1>3 DEF File
  <2>2. raw.secret => raw.named
    BY DEF SecretSeen, References
  <2>. HIDE DEF raw
  <2>3. files \in [Containers -> SUBSET [secret : BOOLEAN, named : BOOLEAN]]
    BY DEF TypeInv, TypeOK
  <2>4. env' = env
    BY <1>3 DEF File
  <2>. QED
    BY <2>1, <2>2, <2>3, <2>4 DEF SecretsStayOut
<1>4. CASE Again
  BY <1>4 DEF Again, Nothing, SecretsStayOut
<1>. QED
  BY <1>1, <1>2, <1>3, <1>4
  DEF Next, vars, Provision, Convert, Image, NextLayer, EndFiles, Volume, Attach, Validate, Fail

(***************************************************************************)
(* What reads a secret lands neither in an environment nor in a raw file   *)
(* of the plan, whatever was substituted before, watched or not.           *)
(***************************************************************************)
THEOREM SecretsKeptOut == Spec => []SecretsStayOut
  BY InitType, TypeStep, InitSecrets, SecretsStep, PTL DEF Spec

LEMMA InitAlarms == Init => FalseAlarmsBounded
  BY DEF Init, FalseAlarmsBounded

LEMMA AlarmsStep == TypeInv /\ FalseAlarmsBounded /\ [Next]_vars => FalseAlarmsBounded'
<1>. SUFFICES ASSUME TypeInv, FalseAlarmsBounded, [Next]_vars PROVE FalseAlarmsBounded'
  OBVIOUS
<1>0. strays \in Int
  BY DEF TypeInv, TypeOK
<1>1. CASE UNCHANGED <<secretAccessed, strays>>
  BY <1>1 DEF FalseAlarmsBounded
<1>2. ASSUME NEW text \in Texts, Watched(text)
      PROVE  FalseAlarmsBounded'
  <2>1. CASE text \in References
    <3>1. ~secretAccessed'
      BY <1>2, <2>1, Zenon DEF Watched
    <3>2. strays' >= 0
      BY <1>0, <1>2 DEF Watched, SecretSeen, FalseAlarmsBounded
    <3>. QED
      BY <3>1, <3>2 DEF FalseAlarmsBounded
  <2>2. CASE text \notin References
    <3>1. secretAccessed' => secretAccessed
      BY <1>2, Zenon DEF Watched
    <3>2. strays' = strays
      BY <1>0, <1>2, <2>2 DEF Watched, SecretSeen
    <3>. QED
      BY <1>0, <3>1, <3>2 DEF FalseAlarmsBounded
  <2>. QED
    BY <2>1, <2>2
<1>3. ASSUME NEW text \in Texts, Unwatched(text)
      PROVE  FalseAlarmsBounded'
  <2>1. secretAccessed' => secretAccessed \/ text = "secret"
    BY <1>3, Zenon DEF Unwatched
  <2>2. strays' = strays + (IF text = "secret" THEN 1 ELSE 0)
    BY <1>3 DEF Unwatched
  <2>. QED
    BY <1>0, <2>1, <2>2 DEF FalseAlarmsBounded
<1>. QED
  BY <1>1, <1>2, <1>3
  DEF Next, vars, Provision, Convert, Image, Variable, NextLayer, File, EndFiles,
      Volume, Attach, Validate, Fail, Again

(***************************************************************************)
(* False alarms never outnumber the substitutions that read a secret       *)
(* without a watch.                                                        *)
(***************************************************************************)
THEOREM AlarmsAreOwed == Spec => []FalseAlarmsBounded
  BY InitType, TypeStep, InitAlarms, AlarmsStep, PTL DEF Spec

-----------------------------------------------------------------------------
(***************************************************************************)
(* Layers.                                                                 *)
(***************************************************************************)
LEMMA InitLayers == Init => InnermostWins
  BY DEF Init, Nothing, InnermostWins

LEMMA LayersStep == TypeInv /\ InnermostWins /\ [Next]_vars => InnermostWins'
<1>. SUFFICES ASSUME TypeInv, InnermostWins, [Next]_vars PROVE InnermostWins'
  OBVIOUS
<1>. USE DEF result
<1>1. CASE UNCHANGED <<env, secrets, wanted>>
  BY <1>1 DEF InnermostWins
<1>2. ASSUME NEW text \in Texts, Variable(text)
      PROVE  InnermostWins'
  <2>. DEFINE key == Min(todo)
              value == [layer |-> pc, secret |-> text = "secret"]
  <2>1. value \in Value
    <3>1. (text = "secret") \in BOOLEAN
      OBVIOUS
    <3>. QED
      BY <1>2, <3>1 DEF Value, Variable
  <2>2. value # None
    BY <2>1, RenderingAssumption
  <2>3. \/ UNCHANGED <<env, secrets, wanted>>
        \/ /\ env' = [env EXCEPT ![cur][key] = None]
           /\ secrets' = [secrets EXCEPT ![key] = value]
           /\ wanted' = [wanted EXCEPT ![cur][key] = value]
        \/ /\ env' = [env EXCEPT ![cur][key] = value]
           /\ secrets' = secrets
           /\ wanted' = [wanted EXCEPT ![cur][key] = value]
    BY <1>2 DEF Variable, Absent, Withhold, Show
  <2>. HIDE DEF key, value
  <2>4. /\ env \in [Containers -> [Keys -> Value \cup {None}]]
        /\ secrets \in [Keys -> Value \cup {None}]
        /\ wanted \in [Containers -> [Keys -> Value \cup {None}]]
    BY DEF TypeInv, TypeOK
  <2>. QED
    BY <2>2, <2>3, <2>4 DEF InnermostWins
<1>3. CASE Again
  BY <1>3 DEF Again, Nothing, InnermostWins
<1>. QED
  BY <1>1, <1>2, <1>3
  DEF Next, vars, Provision, Convert, Image, NextLayer, File, EndFiles, Volume, Attach,
      Validate, Fail

(***************************************************************************)
(* In every environment a key has its innermost value, or none at all and  *)
(* is a runtime secret.                                                    *)
(***************************************************************************)
THEOREM LayersApply == Spec => []InnermostWins
  BY InitType, TypeStep, InitLayers, LayersStep, PTL DEF Spec

-----------------------------------------------------------------------------
(***************************************************************************)
(* Groups: each has the containers before the current one whose process    *)
(* names it, on the shape of its first process.                            *)
(***************************************************************************)
Has(s, c) == \E i \in 1..Len(s) : s[i] = c

LEMMA HasAppend ==
    ASSUME NEW s \in Seq(Containers), NEW x \in Containers, NEW c
    PROVE  Has(Append(s, x), c) <=> Has(s, c) \/ c = x
<1>1. Len(Append(s, x)) = Len(s) + 1 /\ Len(s) \in Nat
  OBVIOUS
<1>2. \A i \in 1..Len(s) : Append(s, x)[i] = s[i]
  OBVIOUS
<1>3. Append(s, x)[Len(s) + 1] = x
  OBVIOUS
<1>. QED
  BY <1>1, <1>2, <1>3 DEF Has

Joined == IF pc \in {"validate", "done"} THEN spec.containers
          ELSE {c \in spec.containers : c < cur}

Placement ==
    spec.kind = "machine" /\ pc \in Active \cup {"validate", "done"} =>
        /\ ValidMetadata
        /\ \A c \in spec.containers : groups[spec.group[c]] # None
        /\ \A g \in Groups : groups[g] # None =>
            /\ groups[g].shape = spec.shape[Min(Members(g))]
            /\ \A c \in Containers :
                Has(groups[g].containers, c) <=> c \in Joined /\ spec.group[c] = g
            /\ pc = "done" => groups[g].containers # <<>>

LEMMA PlacementMeans == TypeInv /\ Placement => PlanIsWhole
<1>. SUFFICES ASSUME TypeInv, Placement, pc = "done", spec.kind = "machine"
              PROVE  PlanIsWhole
  BY DEF PlanIsWhole
<1>1. /\ spec.containers \subseteq Containers
      /\ \A c \in spec.containers : spec.group[c] \in Groups
  BY SpecType DEF TypeInv
<1>2. Joined = spec.containers
  BY DEF Joined
<1>3. \A c \in spec.containers :
        {g \in Groups : groups[g] # None /\ Has(groups[g].containers, c)} = {spec.group[c]}
  BY <1>1, <1>2 DEF Placement
<1>4. \A c \in spec.containers : groups[spec.group[c]].shape = spec.shape[c]
  BY <1>1 DEF Placement, ValidMetadata
<1>5. \A g \in Groups : groups[g] # None => groups[g].containers # <<>>
  BY DEF Placement
<1>. QED
  BY <1>3, <1>4, <1>5 DEF PlanIsWhole, Has

LEMMA StillPlaced ==
    ASSUME Placement, UNCHANGED <<spec, cur, groups>>,
           \/ pc \in Active /\ pc' \in Active
           \/ pc' \notin Active \cup {"validate", "done"}
    PROVE  Placement'
<1>1. ValidMetadata => ValidMetadata'
  BY DEF ValidMetadata, Members
<1>2. \A g \in Groups : Members(g)' = Members(g)
  BY DEF Members
<1>3. pc \in Active /\ pc' \in Active => Joined' = Joined /\ pc' # "done"
  BY DEF Joined, Active, Layers
<1>. QED
  BY <1>1, <1>2, <1>3 DEF Placement

LEMMA ConvertPlaces == TypeInv /\ Convert => Placement'
<1>. SUFFICES ASSUME TypeInv, Convert, spec.kind = "machine" PROVE Placement'
  BY DEF Convert, Placement
<1>1. pc' = "image" /\ spec' = spec /\ ValidMetadata
  BY DEF Convert, Goto, First
<1>2. ValidMetadata' /\ \A g \in Groups : Members(g)' = Members(g)
  BY <1>1 DEF ValidMetadata, Members
<1>3. Joined' = {}
  <2>1. /\ spec.containers \subseteq Nat
        /\ cur' \in spec.containers /\ \A c \in spec.containers : cur' <= c
    BY SpecType, RenderingAssumption, Least DEF Convert, TypeInv
  <2>. QED
    BY <1>1, <2>1 DEF Joined
<1>4. \A c \in spec.containers : groups'[spec.group[c]] # None
  <2>1. TypeInv' /\ Located'
    BY ConvertType DEF TypeInv
  <2>. QED
    BY <1>1, <2>1 DEF Located, Active
<1>5. ASSUME NEW g \in Groups, groups'[g] # None
      PROVE  /\ groups'[g].shape = spec.shape[Min(Members(g))]
             /\ groups'[g].containers = <<>>
  <2>1. groups'[g] = NewGroup(g)
    BY <1>5 DEF Convert
  <2>. QED
    BY <2>1 DEF NewGroup
<1>6. \A c : ~Has(<<>>, c)
  BY DEF Has
<1>. QED
  BY <1>1, <1>2, <1>3, <1>4, <1>5, <1>6 DEF Placement

LEMMA AttachPlaces ==
    ASSUME TypeInv, Placement, NEW port \in Ports \cup {None}, Attach(port)
    PROVE  Placement'
<1>. SUFFICES ASSUME spec.kind = "machine" PROVE Placement'
  BY DEF Attach, Placement
<1>. DEFINE here == spec.group[cur]
<1>1. /\ pc = "volumes" /\ pc \in Active /\ pc' # "done"
      /\ spec' = spec
  BY DEF Attach, Goto, First, Active
<1>2. cur \in spec.containers /\ cur \in Containers /\ here \in Groups
  BY <1>1, SpecType DEF TypeInv, Located
<1>3. ValidMetadata' /\ \A g \in Groups : Members(g)' = Members(g)
  BY <1>1 DEF Placement, ValidMetadata, Members
<1>4. Joined' = Joined \cup {cur}
  <2>1. /\ spec.containers \subseteq Nat
        /\ Joined = {c \in spec.containers : c < cur}
    BY <1>1, SpecType, RenderingAssumption DEF Joined, TypeInv
  <2>2. CASE Following(cur) = None
    <3>1. pc' = "validate"
      BY <2>2 DEF Attach, Goto
    <3>2. \A d \in spec.containers : ~(d > cur)
      BY <1>2, <2>1, <2>2, FollowingType, RenderingAssumption DEF TypeInv
    <3>. QED
      BY <1>1, <1>2, <2>1, <3>1, <3>2 DEF Joined
  <2>3. CASE Following(cur) # None
    <3>1. pc' = "image" /\ cur' = Following(cur)
      BY <2>3 DEF Attach, Goto, First
    <3>2. /\ Following(cur) \in spec.containers /\ cur < Following(cur)
          /\ \A d \in spec.containers : cur < d => Following(cur) <= d
      BY <1>2, <2>3, FollowingType DEF TypeInv
    <3>. QED
      BY <1>1, <1>2, <2>1, <3>1, <3>2 DEF Joined
  <2>. QED
    BY <2>2, <2>3
<1>5. /\ groups[here] \in Group /\ groups[here] # None
      /\ groups[here].containers \in Seq(Containers)
  BY <1>1, <1>2 DEF Placement, TypeInv, TypeOK, Group
<1>6. /\ Attached(groups[here], port) \in Group
      /\ Attached(groups[here], port).shape = groups[here].shape
      /\ Attached(groups[here], port).containers = Append(groups[here].containers, cur)
  BY <1>2, <1>5, AttachedType
<1>7. groups' = [groups EXCEPT ![here] = Attached(groups[here], port)]
  BY DEF Attach
<1>8. groups \in [Groups -> Group \cup {None}]
  BY DEF TypeInv, TypeOK
<1>9. \A c \in spec.containers : groups'[spec.group[c]] # None
  BY <1>1, <1>2, <1>6, <1>7, <1>8, SpecType, RenderingAssumption DEF Placement, TypeInv
<1>10. ASSUME NEW g \in Groups, groups'[g] # None
       PROVE  /\ groups'[g].shape = spec.shape[Min(Members(g))]
              /\ \A c \in Containers :
                  Has(groups'[g].containers, c) <=> c \in Joined' /\ spec.group[c] = g
  <2>1. CASE g = here
    <3>1. groups'[g] = Attached(groups[here], port)
      BY <1>2, <1>7, <1>8, <2>1
    <3>2. groups'[g].shape = spec.shape[Min(Members(g))]
      BY <1>1, <1>5, <1>6, <2>1, <3>1 DEF Placement
    <3>3. ASSUME NEW c \in Containers
          PROVE  Has(groups'[g].containers, c) <=> c \in Joined' /\ spec.group[c] = g
      <4>1. Has(groups'[g].containers, c) <=> Has(groups[here].containers, c) \/ c = cur
        <5>. DEFINE s == groups[here].containers
        <5>1. groups'[g].containers = Append(s, cur) /\ s \in Seq(Containers)
          BY <1>5, <1>6, <3>1
        <5>. HIDE DEF s
        <5>2. Has(Append(s, cur), c) <=> Has(s, c) \/ c = cur
          BY <1>2, <5>1, HasAppend
        <5>. QED
          BY <5>1, <5>2 DEF s
      <4>2. Has(groups[here].containers, c) <=> c \in Joined /\ spec.group[c] = here
        BY <1>1, <1>2, <1>5 DEF Placement
      <4>. QED
        BY <1>4, <2>1, <4>1, <4>2
    <3>. QED
      BY <3>2, <3>3
  <2>2. CASE g # here
    <3>1. groups'[g] = groups[g]
      BY <1>7, <1>8, <2>2
    <3>2. \A c \in Containers : spec.group[c] = g => c # cur
      BY <2>2
    <3>. QED
      BY <1>1, <1>4, <1>10, <3>1, <3>2 DEF Placement
  <2>. QED
    BY <2>1, <2>2
<1>. QED
  BY <1>1, <1>3, <1>9, <1>10 DEF Placement

LEMMA InitPlaces == Init => Placement
  BY DEF Init, Placement, Active, Layers

LEMMA PlacementStep == TypeInv /\ Placement /\ [Next]_vars => Placement'
<1>. SUFFICES ASSUME TypeInv, Placement, [Next]_vars PROVE Placement'
  OBVIOUS
<1>1. CASE UNCHANGED vars
  <2>1. ValidMetadata' = ValidMetadata /\ \A g \in Groups : Members(g)' = Members(g)
    BY <1>1 DEF vars, ValidMetadata, Members
  <2>. QED
    BY <1>1, <2>1 DEF vars, result, Placement, Joined
<1>2. ASSUME NEW text \in Texts,
             Provision(text) \/ Image(text) \/ Variable(text) \/ File(text) \/ Volume(text)
      PROVE  Placement'
  BY <1>2, StillPlaced
  DEF Provision, Image, Variable, File, Volume, Goto, result, Active, Layers
<1>3. CASE NextLayer \/ EndFiles
  <2>1. pc \in Active /\ pc' \in Active
    BY <1>3 DEF NextLayer, EndFiles, Goto, Active, Layers
  <2>. QED
    BY <1>3, <2>1, StillPlaced DEF NextLayer, EndFiles, result
<1>4. CASE Validate
  <2>1. /\ pc = "validate" /\ pc' = "done" /\ UNCHANGED <<spec, groups>>
        /\ \A g \in Groups : groups[g] # None => groups[g].containers # <<>>
    BY <1>4 DEF Validate, Goto, result, ValidGroup
  <2>2. Joined' = Joined /\ (ValidMetadata => ValidMetadata')
    BY <2>1 DEF Joined, ValidMetadata, Members
  <2>3. \A g \in Groups : Members(g)' = Members(g)
    BY <2>1 DEF Members
  <2>. QED
    BY <2>1, <2>2, <2>3 DEF Placement
<1>5. CASE Fail
  BY <1>5, StillPlaced DEF Fail, Goto, result, Active, Layers
<1>6. CASE Again
  BY <1>6 DEF Again, Goto, Placement, Active, Layers
<1>. QED
  BY <1>1, <1>2, <1>3, <1>4, <1>5, <1>6, ConvertPlaces, AttachPlaces DEF Next

(***************************************************************************)
(* In every machine plan each container runs in the one group its process  *)
(* names, on the shape its process asks for.                               *)
(***************************************************************************)
THEOREM PlansAreWhole == Spec => []PlanIsWhole
  BY InitType, TypeStep, InitPlaces, PlacementStep, PlacementMeans, PTL DEF Spec

-----------------------------------------------------------------------------
(***************************************************************************)
(* PlanFile, for any documents.  The keys of a map have one ascending      *)
(* order to be written in: the rank of each, the number of those up to it, *)
(* is a bijection.                                                         *)
(***************************************************************************)
\* Every order of a set has all of it.
LEMMA OrderIsAll ==
    ASSUME NEW S, IsFiniteSet(S), NEW s \in Orders(S)
    PROVE  /\ Range(s) = S
           /\ Len(s) = Cardinality(S) /\ DOMAIN s = 1..Cardinality(S)
<1>. DEFINE n == Cardinality(S)
<1>1. n \in Nat
  BY FS_CardinalityType
<1>2. s \in [1..n -> S] /\ \A i, j \in 1..n : i # j => s[i] # s[j]
  BY DEF Orders, SetToSeqs
<1>3. IsFiniteSet(1..n) /\ Cardinality(1..n) = n
  BY <1>1, FS_Interval
<1>4. s \in Injection(1..n, S)
  BY <1>2 DEF Injection, IsInjective
<1>5. s \in Surjection(1..n, S)
  BY <1>3, <1>4, FS_Injection
<1>6. \A k \in S : \E i \in 1..n : s[i] = k
  BY <1>5 DEF Surjection
<1>7. Range(s) = S
  BY <1>2, <1>6 DEF Range
<1>8. Len(s) = n
  BY <1>1, <1>2
<1>. QED
  BY <1>2, <1>7, <1>8

LEMMA OrderExists ==
    ASSUME NEW S, IsFiniteSet(S), S \subseteq Nat
    PROVE  \E t \in Orders(S) : KeysAscend(t)
<1>. DEFINE n == Cardinality(S)
            Upto(k) == {x \in S : x <= k}
            rank == [k \in S |-> Cardinality(Upto(k))]
<1>1. n \in Nat
  BY FS_CardinalityType
<1>2. ASSUME NEW k \in S
      PROVE  /\ IsFiniteSet(Upto(k)) /\ rank[k] \in 1..n
  <2>1. Upto(k) \in SUBSET S
    OBVIOUS
  <2>2. IsFiniteSet(Upto(k)) /\ Cardinality(Upto(k)) <= n
    BY <2>1, FS_Subset
  <2>3. k \in Upto(k)
    OBVIOUS
  <2>4. Cardinality(Upto(k)) # 0
    BY <2>2, <2>3, FS_EmptySet
  <2>5. Cardinality(Upto(k)) \in Nat
    BY <2>2, FS_CardinalityType
  <2>6. rank[k] = Cardinality(Upto(k))
    OBVIOUS
  <2>. HIDE DEF Upto, rank, n
  <2>. QED
    BY <1>1, <2>2, <2>4, <2>5, <2>6
<1>3. ASSUME NEW k \in S, NEW m \in S, k < m
      PROVE  rank[k] < rank[m]
  <2>1. k \in Nat /\ m \in Nat /\ \A x \in S : x \in Nat
    OBVIOUS
  <2>2. Upto(k) \in SUBSET Upto(m)
    <3>1. ASSUME NEW x \in S, x <= k PROVE x <= m
      BY <1>3, <2>1, <3>1
    <3>. QED
      BY <3>1
  <2>3. m \in Upto(m) /\ m \notin Upto(k)
    BY <1>3
  <2>4. Cardinality(Upto(k)) <= Cardinality(Upto(m)) /\ Cardinality(Upto(m)) # Cardinality(Upto(k))
    BY <1>2, <2>2, <2>3, FS_Subset
  <2>5. rank[k] = Cardinality(Upto(k)) /\ rank[m] = Cardinality(Upto(m))
    OBVIOUS
  <2>6. rank[k] \in 1..n /\ rank[m] \in 1..n
    BY <1>2
  <2>. HIDE DEF Upto, rank, n
  <2>. QED
    BY <1>1, <2>4, <2>5, <2>6
<1>4. rank \in [S -> 1..n]
  BY <1>2
<1>. HIDE DEF rank, n
<1>5. rank \in Injection(S, 1..n)
  <2>1. ASSUME NEW k \in S, NEW m \in S, rank[k] = rank[m] PROVE k = m
    <3>1. ~(rank[k] < rank[m]) /\ ~(rank[m] < rank[k])
      BY <1>1, <1>4, <2>1
    <3>2. ~(k < m) /\ ~(m < k)
      BY <1>3, <3>1
    <3>. QED
      BY <3>2
  <2>. QED
    BY <1>4, <2>1 DEF Injection, IsInjective
<1>6. rank \in Surjection(S, 1..n)
  <2>1. IsFiniteSet(1..n) /\ Cardinality(1..n) = n
    BY <1>1, FS_Interval
  <2>2. n = Cardinality(S)
    BY DEF n
  <2>. QED
    BY <1>5, <2>1, <2>2, FS_Injection
<1>7. \A i \in 1..n : \E k \in S : rank[k] = i
  BY <1>6 DEF Surjection
<1>. DEFINE t == [i \in 1..n |-> CHOOSE k \in S : rank[k] = i]
<1>8. \A i \in 1..n : t[i] \in S /\ rank[t[i]] = i
  BY <1>7
<1>9. t \in [1..n -> S]
  BY <1>8
<1>. HIDE DEF t
<1>10. \A i, j \in 1..n : i # j => t[i] # t[j]
  BY <1>8
<1>11. t \in Orders(S)
  BY <1>9, <1>10 DEF Orders, SetToSeqs, n
<1>12. ASSUME NEW i \in 1..n, NEW j \in 1..n, i < j PROVE t[i] < t[j]
  <2>1. ~(rank[t[j]] < rank[t[i]]) /\ t[i] # t[j]
    BY <1>1, <1>8, <1>12
  <2>2. ~(t[j] < t[i])
    BY <1>3, <1>8, <2>1
  <2>3. t[i] \in Nat /\ t[j] \in Nat
    BY <1>8
  <2>. QED
    BY <2>1, <2>2, <2>3
<1>13. KeysAscend(t)
  BY <1>9, <1>12 DEF KeysAscend
<1>. QED
  BY <1>11, <1>13

\* In whatever order a map was read, it is sorted the same, and keeps its size.
LEMMA SortedIsOne ==
    ASSUME NEW S, IsFiniteSet(S), S \subseteq Nat, NEW s \in Orders(S)
    PROVE  /\ Sorted(s) = CHOOSE t \in Orders(S) : KeysAscend(t)
           /\ Len(Sorted(s)) = Cardinality(S)
<1>1. Sorted(s) = CHOOSE t \in Orders(S) : KeysAscend(t)
  BY OrderIsAll DEF Sorted
<1>2. Sorted(s) \in Orders(S)
  BY <1>1, OrderExists
<1>. QED
  BY <1>1, <1>2, OrderIsAll

-----------------------------------------------------------------------------
(***************************************************************************)
(* A service written to a plan and read back means the same to Fly.        *)
(***************************************************************************)
ServiceOf(doc) == Service(Draft(doc))

LEMMA DraftAsItIs ==
    ASSUME NEW doc, NEW mounts
    PROVE  /\ PlanOf(doc, mounts) = [app |-> doc.app, service |-> ServiceOf(doc), mounts |-> mounts]
           /\ Draft(doc)["service"] = doc.service
<1>. DEFINE d == Draft(doc)
<1>1. /\ DOMAIN d["top"] = {} /\ d["service"] = doc.service
      /\ "http_service" \in DOMAIN d["process"]
  <2>1. /\ d["top"] = Nowhere /\ d["service"] = doc.service
        /\ d["process"] = [key \in {"http_service"} |-> "given"]
    BY DEF Draft, Levels
  <2>. QED
    BY <2>1 DEF Nowhere
<1>. HIDE DEF d
<1>2. Canonical(d) = d
  BY <1>1 DEF Canonical, HasPublishedShape
<1>3. GroupOf(d).services = <<Service(d)>>
  BY <1>1 DEF GroupOf
<1>4. Rendered(d).services[1] = Service(d)
  BY <1>2, <1>3 DEF Rendered
<1>. QED
  BY <1>1, <1>4 DEF PlanOf, ServiceOf, d

\* A field comes back, whether it was written or left out.
LEMMA FieldBack ==
    ASSUME NEW s, NEW names, NEW last, NEW f,
           f \in names \/ s[f] = Omitted[f]
    PROVE  FieldOf(Object(s, names, last), f) = s[f]
  BY DEF FieldOf, Object, Lookup

\* The mark that auto_start is written out is all that may change on the way: it is
\* there afterwards as soon as the field is.
LEMMA RoundTrip ==
    ASSUME NEW doc
    PROVE  LET s == ServiceOf(doc)
               t == UnmarshalService(MarshalService(s))
           IN  /\ t = [s EXCEPT !.autoStartSet = @ \/ s.autoStart # "false"]
               /\ FlyService(t) = FlyService(s)
<1>. DEFINE hs == doc.service
            stop == Lookup(hs, "auto_stop", "")
            default == IF stop \in {"", "off"} THEN "false" ELSE "true"
            set == "auto_start" \in DOMAIN hs
            start == Lookup(hs, "auto_start", default)
            port == hs["internal_port"]
            protocol == Lookup(hs, "protocol", "tcp")
            minRunning == Lookup(hs, "min_machines_running", 0)
            concurrency == Lookup(Draft(doc)["process"], "concurrency", "")
            checks == ServiceCheck(Draft(doc))
            s == [port |-> port, protocol |-> protocol, autoStop |-> stop, autoStart |-> start,
                  autoStartSet |-> set, minRunning |-> minRunning, concurrency |-> concurrency,
                  checks |-> checks]
            names == IF set THEN Written(s) \cup {"autoStart"} ELSE Written(s)
            json == Object(s, names, set)
<1>1. ServiceOf(doc) = s
  <2>. DEFINE Read(h) ==
         [port |-> h["internal_port"], protocol |-> Lookup(h, "protocol", "tcp"),
          autoStop |-> Lookup(h, "auto_stop", ""),
          autoStart |-> Lookup(h, "auto_start",
                            IF Lookup(h, "auto_stop", "") \in {"", "off"} THEN "false" ELSE "true"),
          autoStartSet |-> "auto_start" \in DOMAIN h,
          minRunning |-> Lookup(h, "min_machines_running", 0),
          concurrency |-> concurrency, checks |-> checks]
  <2>1. ServiceOf(doc) = Read(Draft(doc)["service"])
    BY DEF ServiceOf, Service
  <2>2. Draft(doc)["service"] = hs
    BY DraftAsItIs
  <2>3. s = Read(hs)
    OBVIOUS
  <2>. HIDE DEF Read, s
  <2>. QED
    BY <2>1, <2>2, <2>3
<1>2. ~set => start \in {"true", "false"}
  BY DEF Lookup
<1>10. set \in BOOLEAN
  OBVIOUS
<1>. HIDE DEF stop, set, start, port, protocol, minRunning, concurrency, checks
<1>3. MarshalService(s) = json
  <2>1. s.autoStartSet = set
    OBVIOUS
  <2>. HIDE DEF s
  <2>2. CASE set
    BY <2>1, <2>2 DEF MarshalService
  <2>3. CASE ~set
    BY <1>10, <2>1, <2>3 DEF MarshalService, MarshalPlain
  <2>. QED
    BY <2>2, <2>3
<1>4. \A f \in ServiceFields : FieldOf(json, f) = s[f]
  <2>1. \A f \in ServiceFields : f \in Written(s) \/ s[f] = Omitted[f]
    BY DEF Written
  <2>. HIDE DEF s
  <2>. QED
    BY <2>1, FieldBack
<1>5. DOMAIN json.fields = names
  BY DEF Object
<1>6. "autoStart" \in names <=> set \/ start # "false"
  BY DEF Written, ServiceFields, Omitted
<1>. HIDE DEF json, names
<1>. DEFINE marked == "autoStart" \in names
<1>7. UnmarshalService(json) = [s EXCEPT !.autoStartSet = marked]
  <2>1. /\ FieldOf(json, "protocol") = protocol /\ FieldOf(json, "port") = port
        /\ FieldOf(json, "autoStop") = stop /\ FieldOf(json, "autoStart") = start
        /\ FieldOf(json, "minRunning") = minRunning /\ FieldOf(json, "concurrency") = concurrency
        /\ FieldOf(json, "checks") = checks
    BY <1>4 DEF ServiceFields
  <2>2. ("autoStart" \in DOMAIN json.fields) = marked
    BY <1>5
  <2>. HIDE DEF marked
  <2>. QED
    BY <2>1, <2>2 DEF UnmarshalService
<1>8. IF marked \/ start = "true" THEN set \/ start = "true" ELSE ~(set \/ start = "true")
  BY <1>2, <1>6
<1>11. marked <=> set \/ start # "false"
  BY <1>6
<1>. HIDE DEF marked
<1>9. FlyService([s EXCEPT !.autoStartSet = marked]) = FlyService(s)
  BY <1>8 DEF FlyService
<1>12. [s EXCEPT !.autoStartSet = marked]
          = [s EXCEPT !.autoStartSet = @ \/ s.autoStart # "false"]
  <2>1. s.autoStartSet = set /\ s.autoStart = start
    OBVIOUS
  <2>2. marked = (set \/ start # "false")
    BY <1>5, <1>10, <1>11
  <2>. HIDE DEF s
  <2>. QED
    BY <2>1, <2>2
<1>. QED
  BY <1>1, <1>3, <1>7, <1>9, <1>12

-----------------------------------------------------------------------------
(***************************************************************************)
(* Every plan file is one that was written for a document, perhaps with    *)
(* its mounts or its checksum no longer those of that document; and Fly    *)
(* was given what one document means.                                      *)
(***************************************************************************)
\* A plan file for doc: written with its mounts in one order, now with others.
FileOf(doc, mounts, now, version, intact) ==
    LET required == IF version = 1 THEN doc.secrets ELSE {}
    IN  [whole |-> TRUE, version |-> version, json |-> Encode(PlanOf(doc, now)),
         required |-> required, sha |-> Checksum(Encode(PlanOf(doc, mounts)), required),
         intact |-> intact, of |-> doc]

\* What Fly is given for doc, in no way that depends on the order of a map.
ConfigOf(doc) ==
    [service |-> FlyService(ServiceOf(doc)),
     mounts  |-> CHOOSE t \in Orders(MountPaths) : KeysAscend(t),
     headers |-> CHOOSE t \in Orders(HeaderNames) : KeysAscend(t)]

WrittenForADocument ==
    file # Missing /\ file.whole =>
        \E doc \in Documents, mounts \in Orders(MountPaths), now \in Orders(MountPaths) \cup {<<>>},
           version \in {0, 1}, intact \in BOOLEAN :
            file = FileOf(doc, mounts, now, version, intact)

GivenADocument ==
    deployed # Missing =>
        \E doc \in Documents :
            deployed = [config |-> ConfigOf(doc), secrets |-> doc.secrets, of |-> doc]

PlanInv == score \in Documents /\ WrittenForADocument /\ GivenADocument

\* Encoding and decoding leave the mounts alone.
LEMMA MountsStay ==
    ASSUME NEW doc, NEW mounts
    PROVE  /\ Encode(PlanOf(doc, mounts)).mounts = mounts
           /\ Decode(Encode(PlanOf(doc, mounts))).mounts = mounts
           /\ Encode(Decode(Encode(PlanOf(doc, mounts)))).mounts = mounts
           /\ Decode(Encode(PlanOf(doc, mounts))).service
                = UnmarshalService(MarshalService(ServiceOf(doc)))
<1>. DEFINE p == [app |-> doc.app, service |-> ServiceOf(doc), mounts |-> mounts]
            e == [app |-> doc.app, service |-> MarshalService(ServiceOf(doc)), mounts |-> mounts]
            d == [app |-> doc.app, service |-> UnmarshalService(MarshalService(ServiceOf(doc))),
                  mounts |-> mounts]
<1>1. PlanOf(doc, mounts) = p
  BY DraftAsItIs
<1>2. Encode(p) = e
  BY DEF Encode
<1>3. Decode(e) = d
  BY DEF Decode
<1>4. Encode(d).mounts = mounts
  BY DEF Encode
<1>. QED
  BY <1>1, <1>2, <1>3, <1>4

\* What was written for a document is given as that document.
LEMMA GivenFromPlan ==
    ASSUME NEW doc \in Documents, NEW mounts \in Orders(MountPaths),
           NEW headers \in Orders(HeaderNames)
    PROVE  /\ FlyConfig(PlanOf(doc, mounts), headers) = ConfigOf(doc)
           /\ FlyConfig(Decode(Encode(PlanOf(doc, mounts))), headers) = ConfigOf(doc)
<1>1. /\ Sorted(mounts) = CHOOSE t \in Orders(MountPaths) : KeysAscend(t)
      /\ HeadersToFly(headers) = CHOOSE t \in Orders(HeaderNames) : KeysAscend(t)
  BY PlanFileAssumption, SortedIsOne DEF HeadersToFly
<1>2. FlyConfig(PlanOf(doc, mounts), headers) = ConfigOf(doc)
  <2>1. PlanOf(doc, mounts).service = ServiceOf(doc) /\ PlanOf(doc, mounts).mounts = mounts
    BY DraftAsItIs
  <2>. QED
    BY <1>1, <2>1 DEF FlyConfig, ConfigOf
<1>3. FlyConfig(Decode(Encode(PlanOf(doc, mounts))), headers) = ConfigOf(doc)
  <2>1. FlyService(UnmarshalService(MarshalService(ServiceOf(doc)))) = FlyService(ServiceOf(doc))
    BY RoundTrip
  <2>. QED
    BY <1>1, <2>1, MountsStay DEF FlyConfig, ConfigOf
<1>. QED
  BY <1>2, <1>3

\* Whenever Fly is given something, it is a document's.
LEMMA GivenEachTime ==
    ASSUME PlanInv, [PlanNext]_planVars
    PROVE  \/ UNCHANGED deployed
           \/ \E doc \in Documents :
                deployed' = [config |-> ConfigOf(doc), secrets |-> doc.secrets, of |-> doc]
<1>1. ASSUME NEW headers \in Orders(HeaderNames), ApplyPlanFile(headers)
      PROVE  \E doc \in Documents :
               deployed' = [config |-> ConfigOf(doc), secrets |-> doc.secrets, of |-> doc]
  <2>1. PICK doc \in Documents, mounts \in Orders(MountPaths), now \in Orders(MountPaths) \cup {<<>>},
             version \in {0, 1}, intact \in BOOLEAN :
          file = FileOf(doc, mounts, now, version, intact)
    BY <1>1 DEF ApplyPlanFile, LoadsExactPlan, PlanInv, WrittenForADocument
  <2>2. file.of = doc /\ file.json = Encode(PlanOf(doc, now)) /\ file.version = version
    BY <2>1 DEF FileOf
  <2>3. version = 1
    BY <1>1, <2>2 DEF ApplyPlanFile, LoadsExactPlan, KnownVersion
  <2>4. /\ file.required = doc.secrets
        /\ file.sha = Checksum(Encode(PlanOf(doc, mounts)), doc.secrets)
    BY <2>1, <2>3 DEF FileOf
  <2>5. Encode(PlanOf(doc, mounts)) = Encode(Decode(Encode(PlanOf(doc, now))))
    BY <1>1, <2>2, <2>4 DEF ApplyPlanFile, LoadsExactPlan, ChecksumHolds, Checksum
  <2>6. now = mounts
    BY <2>5, MountsStay
  <2>7. FlyConfig(Decode(file.json), headers) = ConfigOf(doc)
    BY <2>2, <2>6, GivenFromPlan
  <2>8. SuppliedSecrets = doc.secrets
    BY <1>1, <2>4 DEF ApplyPlanFile, LoadsExactPlan, ExactSecrets
  <2>. QED
    BY <1>1, <2>2, <2>7, <2>8 DEF ApplyPlanFile
<1>2. ASSUME NEW headers \in Orders(HeaderNames), NEW mounts \in Orders(MountPaths),
             Apply(mounts, headers)
      PROVE  \E doc \in Documents :
               deployed' = [config |-> ConfigOf(doc), secrets |-> doc.secrets, of |-> doc]
  <2>1. deployed' = [config |-> ConfigOf(score), secrets |-> score.secrets, of |-> score]
    BY <1>2, GivenFromPlan DEF Apply, PlanInv
  <2>. QED
    BY <2>1 DEF PlanInv
<1>. QED
  BY <1>1, <1>2 DEF PlanNext, planVars, WritePlan, OlderPlan, WritePlanTorn, EditPlan,
       EditScore, EditSecrets

LEMMA PlanInvHolds == PlanSpec => []PlanInv
<1>1. PlanInit => PlanInv
  BY DEF PlanInit, PlanInv, WrittenForADocument, GivenADocument
<1>2. PlanInv /\ [PlanNext]_planVars => PlanInv'
  <2>. SUFFICES ASSUME PlanInv, [PlanNext]_planVars
                PROVE  PlanInv'
    OBVIOUS
  <2>. USE DEF PlanInv
  <2>1. ASSUME NEW mounts \in Orders(MountPaths), WritePlan(mounts)
        PROVE  (score \in Documents /\ WrittenForADocument)'
    <3>1. file' = FileOf(score, mounts, mounts, 1, TRUE)
      BY <2>1 DEF WritePlan, PlanWritten, FileOf
    <3>2. WrittenForADocument'
      BY <3>1 DEF WrittenForADocument
    <3>. QED
      BY <2>1, <3>2 DEF WritePlan
  <2>2. ASSUME NEW mounts \in Orders(MountPaths), OlderPlan(mounts)
        PROVE  (score \in Documents /\ WrittenForADocument)'
    <3>1. file' = FileOf(score, mounts, mounts, 0, FALSE)
      BY <2>2 DEF OlderPlan, PlanWritten, FileOf
    <3>2. WrittenForADocument'
      BY <3>1 DEF WrittenForADocument
    <3>. QED
      BY <2>2, <3>2 DEF OlderPlan
  <2>3. ASSUME WritePlanTorn
        PROVE  (score \in Documents /\ WrittenForADocument)'
    <3>1. ~file'.whole
      BY <2>3 DEF WritePlanTorn
    <3>. QED
      BY <2>3, <3>1 DEF WritePlanTorn, WrittenForADocument
  <2>4. ASSUME EditPlan
        PROVE  (score \in Documents /\ WrittenForADocument)'
    <3>1. PICK doc \in Documents, mounts \in Orders(MountPaths), now \in Orders(MountPaths) \cup {<<>>},
               version \in {0, 1}, intact \in BOOLEAN :
            file = FileOf(doc, mounts, now, version, intact)
      BY <2>4 DEF EditPlan, WrittenForADocument
    <3>2. Encode(PlanOf(doc, <<>>)) = [Encode(PlanOf(doc, now)) EXCEPT !.mounts = <<>>]
      <4>1. PlanOf(doc, now) = [app |-> doc.app, service |-> ServiceOf(doc), mounts |-> now]
        BY DraftAsItIs
      <4>2. PlanOf(doc, <<>>) = [app |-> doc.app, service |-> ServiceOf(doc), mounts |-> <<>>]
        BY DraftAsItIs
      <4>. DEFINE service == MarshalService(ServiceOf(doc))
                  Json(order) == [app |-> doc.app, service |-> service, mounts |-> order]
      <4>3. Encode(PlanOf(doc, now)) = Json(now)
        BY <4>1 DEF Encode
      <4>4. Encode(PlanOf(doc, <<>>)) = Json(<<>>)
        BY <4>2 DEF Encode
      <4>. HIDE DEF service
      <4>5. [Json(now) EXCEPT !.mounts = <<>>] = Json(<<>>)
        OBVIOUS
      <4>. QED
        BY <4>3, <4>4, <4>5
    <3>3. file' = FileOf(doc, mounts, <<>>, version, FALSE)
      BY <2>4, <3>1, <3>2 DEF EditPlan, FileOf
    <3>4. WrittenForADocument'
      BY <3>3 DEF WrittenForADocument
    <3>. QED
      BY <2>4, <3>4 DEF EditPlan
  <2>5. ASSUME NEW doc \in Documents, EditScore(doc)
        PROVE  (score \in Documents /\ WrittenForADocument)'
    BY <2>5 DEF EditScore, WrittenForADocument
  <2>6. ASSUME NEW names \in SUBSET SecretNames, NEW readable \in BOOLEAN,
               EditSecrets(names, readable)
        PROVE  (score \in Documents /\ WrittenForADocument)'
    BY <2>6 DEF EditSecrets, WrittenForADocument
  <2>7. ASSUME NEW headers \in Orders(HeaderNames), ApplyPlanFile(headers)
        PROVE  (score \in Documents /\ WrittenForADocument)'
    BY <2>7 DEF ApplyPlanFile, WrittenForADocument
  <2>8. ASSUME NEW headers \in Orders(HeaderNames), NEW mounts \in Orders(MountPaths),
               Apply(mounts, headers)
        PROVE  (score \in Documents /\ WrittenForADocument)'
    BY <2>8 DEF Apply, WrittenForADocument
  <2>9. ASSUME UNCHANGED planVars
        PROVE  (score \in Documents /\ WrittenForADocument)'
    BY <2>9 DEF planVars, WrittenForADocument
  <2>10. (score \in Documents /\ WrittenForADocument)'
    BY <2>1, <2>2, <2>3, <2>4, <2>5, <2>6, <2>7, <2>8, <2>9 DEF PlanNext
  <2>11. GivenADocument'
    BY GivenEachTime DEF GivenADocument
  <2>. QED
    BY <2>10, <2>11
<1>. QED
  BY <1>1, <1>2, PTL DEF PlanSpec

\* A document's configuration asks what the document asks.
LEMMA GivenIsAsked ==
    ASSUME NEW doc \in Documents
    PROVE  LET s == ConfigOf(doc).service
           IN  /\ s.autoStop = Asked(doc, "auto_stop", "")
               /\ s.autoStart = Asked(doc, "auto_start",
                       IF s.autoStop \in {"", "off"} THEN "" ELSE "true")
               /\ s.minRunning = Asked(doc, "min_machines_running", 0)
               /\ Len(ConfigOf(doc).mounts) = Cardinality(MountPaths)
<1>. DEFINE hs == doc.service
            s == ServiceOf(doc)
            stop == Lookup(hs, "auto_stop", "")
            default == IF stop \in {"", "off"} THEN "false" ELSE "true"
            set == "auto_start" \in DOMAIN hs
            start == Lookup(hs, "auto_start", default)
<1>1. /\ s.autoStop = stop /\ s.autoStart = start
      /\ s.minRunning = Lookup(hs, "min_machines_running", 0)
      /\ (s.autoStartSet <=> set)
  <2>1. Draft(doc)["service"] = hs
    BY DraftAsItIs
  <2>. QED
    BY <2>1 DEF ServiceOf, Service
<1>2. FlyService(s).autoStop = stop
  BY <1>1 DEF FlyService, ServiceOf, Service
<1>3. FlyService(s).minRunning = Lookup(hs, "min_machines_running", 0)
  BY <1>1 DEF FlyService, ServiceOf, Service
<1>4. FlyService(s).autoStart = IF set \/ start = "true" THEN start ELSE ""
  BY <1>1 DEF FlyService, ServiceOf, Service
<1>5. FlyService(s).autoStart
        = Lookup(hs, "auto_start", IF stop \in {"", "off"} THEN "" ELSE "true")
  BY <1>4 DEF Lookup
<1>6. Len(CHOOSE t \in Orders(MountPaths) : KeysAscend(t)) = Cardinality(MountPaths)
  <2>1. PICK t \in Orders(MountPaths) : KeysAscend(t)
    BY PlanFileAssumption, OrderExists
  <2>. QED
    BY <2>1, PlanFileAssumption, SortedIsOne
<1>. QED
  BY <1>2, <1>3, <1>5, <1>6 DEF ConfigOf, Asked

\* For any documents, volumes and headers, whatever happens to the Score file, the
\* plan file and the secrets file between plan and apply: what Fly is given, directly
\* (machine_commands.go) or through a plan file (LoadExactPlan and the two JSON
\* methods of a service in machineconfig.go), is what one document asks for.
THEOREM PlansAreApplied == PlanSpec => []AppliedAsPlanned
<1>1. PlanInv => AppliedAsPlanned
  <2>. SUFFICES ASSUME PlanInv, deployed # Missing
                PROVE  AppliedAsPlanned
    BY DEF AppliedAsPlanned
  <2>1. PICK doc \in Documents :
          deployed = [config |-> ConfigOf(doc), secrets |-> doc.secrets, of |-> doc]
    BY DEF PlanInv, GivenADocument
  <2>2. deployed.config = ConfigOf(doc) /\ deployed.secrets = doc.secrets /\ deployed.of = doc
    BY <2>1
  <2>. QED
    BY <2>2, GivenIsAsked DEF AppliedAsPlanned
<1>. QED
  BY <1>1, PlanInvHolds, PTL

\* And what Fly is given for a document never depends on the way it was given or on
\* the order in which Go read a map, so the digest the planner compares
\* (ConfigHash, machineconfig.go) stays the same.
THEOREM HashesAreStable == PlanSpec => HashIsStable
<1>1. PlanInv /\ [PlanNext]_planVars =>
        (deployed # Missing /\ deployed'.of = deployed.of => deployed'.config = deployed.config)
  <2>. SUFFICES ASSUME PlanInv, [PlanNext]_planVars,
                       deployed # Missing, deployed'.of = deployed.of, ~UNCHANGED deployed
                PROVE  deployed'.config = deployed.config
    OBVIOUS
  <2>1. PICK doc \in Documents :
          deployed = [config |-> ConfigOf(doc), secrets |-> doc.secrets, of |-> doc]
    BY DEF PlanInv, GivenADocument
  <2>2. PICK next \in Documents :
          deployed' = [config |-> ConfigOf(next), secrets |-> next.secrets, of |-> next]
    BY GivenEachTime
  <2>3. deployed.of = doc /\ deployed'.of = next
    BY <2>1, <2>2
  <2>. QED
    BY <2>1, <2>2, <2>3
<1>. QED
  BY <1>1, PlanInvHolds, PTL DEF PlanSpec, HashIsStable

\* Encoded once more, it is what was encoded unless auto_start was derived and is true
\* and a field that follows it is written: then it has moved behind that one.
LEMMA EncodedOnceMore ==
    ASSUME NEW doc, NEW mounts
    PROVE  Encode(Decode(Encode(PlanOf(doc, mounts)))) = Encode(PlanOf(doc, mounts))
             <=> \/ ServiceOf(doc).autoStartSet \/ ServiceOf(doc).autoStart = "false"
                 \/ Written(ServiceOf(doc)) \cap AfterAutoStart = {}
<1>. DEFINE s == ServiceOf(doc)
            t == UnmarshalService(MarshalService(s))
            Json(service) == [app |-> doc.app, service |-> service, mounts |-> mounts]
<1>1. PlanOf(doc, mounts) = Json(s)
  BY DraftAsItIs
<1>2. Encode(Json(s)) = Json(MarshalService(s))
  BY DEF Encode
<1>3. Decode(Json(MarshalService(s))) = Json(t)
  BY DEF Decode
<1>4. Encode(Json(t)) = Json(MarshalService(t))
  BY DEF Encode
<1>5. Json(MarshalService(t)) = Json(MarshalService(s)) <=> MarshalService(t) = MarshalService(s)
  <2>1. \A a, b : Json(a) = Json(b) => a = b
    <3>1. \A a : Json(a).service = a
      OBVIOUS
    <3>. HIDE DEF Json
    <3>. QED
      BY <3>1
  <2>. HIDE DEF Json
  <2>. QED
    BY <2>1
<1>. HIDE DEF Json
<1>6. t = [s EXCEPT !.autoStartSet = @ \/ s.autoStart # "false"]
  BY RoundTrip
<1>7. /\ s.autoStartSet \in BOOLEAN
      /\ DOMAIN s = ServiceFields \cup {"autoStartSet"}
  BY DEF ServiceOf, Service, ServiceFields
<1>8. /\ \A f \in ServiceFields : t[f] = s[f]
      /\ t.autoStartSet = (s.autoStartSet \/ s.autoStart # "false")
  <2>1. "autoStartSet" \notin ServiceFields
    BY DEF ServiceFields
  <2>. HIDE DEF s, t
  <2>. QED
    BY <1>6, <1>7, <2>1
<1>. HIDE DEF s, t
<1>9. Written(t) = Written(s)
  BY <1>8 DEF Written
<1>10. \A names, last : names \subseteq ServiceFields => Object(t, names, last) = Object(s, names, last)
  BY <1>8 DEF Object
<1>11. /\ Written(s) \subseteq ServiceFields /\ "autoStart" \in ServiceFields
       /\ "autoStart" \in Written(s) <=> s.autoStart # "false"
  BY DEF Written, ServiceFields, Omitted
<1>12. CASE s.autoStartSet
  <2>1. t.autoStartSet
    BY <1>8, <1>12
  <2>. QED
    BY <1>1, <1>2, <1>3, <1>4, <1>5, <1>9, <1>10, <1>11, <1>12, <2>1 DEF MarshalService, s
<1>13. CASE ~s.autoStartSet /\ s.autoStart = "false"
  <2>1. ~t.autoStartSet
    BY <1>8, <1>13
  <2>2. MarshalService(t) = MarshalService(s)
    BY <1>9, <1>10, <1>11, <1>13, <2>1 DEF MarshalService, MarshalPlain
  <2>. QED
    BY <1>1, <1>2, <1>3, <1>4, <1>5, <1>13, <2>2 DEF s
<1>14. CASE ~s.autoStartSet /\ s.autoStart # "false"
  <2>1. t.autoStartSet
    BY <1>8, <1>14
  <2>2. MarshalService(t) = Object(s, Written(s), TRUE)
    <3>1. Written(t) \cup {"autoStart"} = Written(s)
      BY <1>9, <1>11, <1>14
    <3>. QED
      BY <1>10, <1>11, <2>1, <3>1 DEF MarshalService
  <2>3. MarshalService(s) = Object(s, Written(s), FALSE)
    BY <1>14 DEF MarshalService, MarshalPlain
  <2>4. Object(s, Written(s), TRUE) = Object(s, Written(s), FALSE)
          <=> Written(s) \cap AfterAutoStart = {}
    <3>1. /\ Object(s, Written(s), TRUE).startLast = (Written(s) \cap AfterAutoStart # {})
          /\ Object(s, Written(s), FALSE).startLast = FALSE
      BY DEF Object
    <3>2. Written(s) \cap AfterAutoStart = {}
            => Object(s, Written(s), TRUE) = Object(s, Written(s), FALSE)
      BY DEF Object
    <3>. QED
      BY <3>1, <3>2
  <2>. QED
    BY <1>1, <1>2, <1>3, <1>4, <1>5, <1>14, <2>2, <2>3, <2>4 DEF s
<1>. QED
  BY <1>12, <1>13, <1>14

\* A file nobody touched is the one plan has written, for a document.
Untouched ==
    file # Missing /\ file.intact =>
        \E doc \in Documents, mounts \in Orders(MountPaths) :
            file = FileOf(doc, mounts, mounts, 1, TRUE)

LEMMA UntouchedHolds == PlanSpec => []Untouched
<1>1. PlanInit => Untouched
  BY DEF PlanInit, Untouched
<1>2. PlanInv /\ Untouched /\ [PlanNext]_planVars => Untouched'
  <2>. SUFFICES ASSUME PlanInv, Untouched, [PlanNext]_planVars, ~UNCHANGED file
                PROVE  Untouched'
    BY DEF Untouched
  <2>1. ASSUME NEW mounts \in Orders(MountPaths), WritePlan(mounts)
        PROVE  Untouched'
    <3>1. file' = FileOf(score, mounts, mounts, 1, TRUE)
      BY <2>1 DEF WritePlan, PlanWritten, FileOf
    <3>. QED
      BY <3>1 DEF Untouched, PlanInv
  <2>2. ASSUME NEW mounts \in Orders(MountPaths), OlderPlan(mounts)
        PROVE  ~file'.intact
    BY <2>2 DEF OlderPlan, PlanWritten
  <2>3. ASSUME WritePlanTorn
        PROVE  ~file'.intact
    BY <2>3 DEF WritePlanTorn
  <2>4. ASSUME EditPlan
        PROVE  ~file'.intact
    <3>1. "intact" \in DOMAIN file
      BY <2>4 DEF EditPlan, PlanInv, WrittenForADocument, FileOf
    <3>. QED
      BY <2>4, <3>1 DEF EditPlan
  <2>. QED
    BY <2>1, <2>2, <2>3, <2>4 DEF Untouched, PlanNext, planVars, EditScore, EditSecrets,
         ApplyPlanFile, Apply
<1>. QED
  BY <1>1, <1>2, PlanInvHolds, PTL DEF PlanSpec

\* The document leaves auto_start to auto_stop, which makes it true.
DerivesAutoStart(doc) ==
    "auto_start" \notin DOMAIN doc.service /\ Asked(doc, "auto_stop", "") \notin {"", "off"}

\* And it says how many machines keep running, in the struct after auto_start: what
\* else comes there, concurrency and checks, no document here has.
MovesAutoStart(doc) == DerivesAutoStart(doc) /\ Asked(doc, "min_machines_running", 0) # 0

\* How far PlanIsAccepted, which a run refutes, holds
\* (docs/machine-plan-contract.md:28-29): with the secrets it names at hand, a plan file
\* nobody touched is taken by apply (LoadExactPlan) unless its document derives a true
\* auto_start from auto_stop and has a field written after it, and then never; how the
\* machine is planned, when, and in which order maps were read makes no difference.
THEOREM PlanIsAcceptedUnlessMoved ==
    PlanSpec =>
        [](file # Missing /\ file.intact /\ secretsFile # Missing /\ secretsFile.readable
             /\ secretsFile.names = file.of.secrets
           => (LoadsExactPlan <=> ~MovesAutoStart(file.of)))
<1>. DEFINE Ready == /\ file # Missing /\ file.intact /\ secretsFile # Missing
                     /\ secretsFile.readable /\ secretsFile.names = file.of.secrets
<1>1. Untouched => (Ready => (LoadsExactPlan <=> ~MovesAutoStart(file.of)))
  <2>. SUFFICES ASSUME Untouched, Ready
                PROVE  LoadsExactPlan <=> ~MovesAutoStart(file.of)
    OBVIOUS
  <2>1. PICK doc \in Documents, mounts \in Orders(MountPaths) :
          file = FileOf(doc, mounts, mounts, 1, TRUE)
    BY DEF Untouched
  <2>. DEFINE json == Encode(PlanOf(doc, mounts))
  <2>2. /\ file.whole /\ file.version = 1 /\ file.json = json /\ file.required = doc.secrets
        /\ file.sha = Checksum(json, doc.secrets) /\ file.of = doc
    BY <2>1 DEF FileOf
  <2>3. ChecksumHolds <=> Encode(Decode(json)) = json
    <3>1. \A a, b, c : Checksum(a, c) = Checksum(b, c) <=> a = b
      BY DEF Checksum
    <3>. HIDE DEF json
    <3>. QED
      BY <2>2, <3>1 DEF ChecksumHolds
  <2>4. LoadsExactPlan <=> ChecksumHolds
    BY <2>2 DEF LoadsExactPlan, KnownVersion, ExactSecrets, SuppliedSecrets
  <2>. DEFINE hs == doc.service
              stop == Lookup(hs, "auto_stop", "")
  <2>5. Draft(doc)["service"] = hs
    BY DraftAsItIs
  <2>6. ServiceOf(doc).autoStartSet \/ ServiceOf(doc).autoStart = "false"
          <=> ~DerivesAutoStart(doc)
    <3>1. /\ ServiceOf(doc).autoStartSet = ("auto_start" \in DOMAIN hs)
          /\ ServiceOf(doc).autoStart
               = Lookup(hs, "auto_start", IF stop \in {"", "off"} THEN "false" ELSE "true")
      BY <2>5 DEF ServiceOf, Service
    <3>. HIDE DEF stop
    <3>2. CASE "auto_start" \in DOMAIN hs
      BY <3>1, <3>2 DEF DerivesAutoStart
    <3>3. CASE "auto_start" \notin DOMAIN hs
      <4>1. ServiceOf(doc).autoStart = IF stop \in {"", "off"} THEN "false" ELSE "true"
        BY <3>1, <3>3 DEF Lookup
      <4>. QED
        BY <3>1, <3>3, <4>1 DEF DerivesAutoStart, Asked, stop
    <3>. QED
      BY <3>2, <3>3
  <2>7. Written(ServiceOf(doc)) \cap AfterAutoStart = {}
          <=> Asked(doc, "min_machines_running", 0) = 0
    <3>1. ServiceOf(doc).minRunning = Asked(doc, "min_machines_running", 0)
      BY <2>5 DEF ServiceOf, Service, Asked
    <3>2. ServiceOf(doc).concurrency = "" /\ ServiceOf(doc).checks = <<>>
      <4>1. Draft(doc)["process"] = [key \in {"http_service"} |-> "given"]
            /\ Draft(doc)["check"] = Nowhere
        BY DEF Draft, Levels
      <4>2. Lookup(Draft(doc)["process"], "concurrency", "") = ""
        BY <4>1 DEF Lookup
      <4>3. ServiceCheck(Draft(doc)) = <<>>
        BY <4>1 DEF ServiceCheck, Given, Nowhere
      <4>. QED
        BY <4>2, <4>3 DEF ServiceOf, Service
    <3>3. Written(ServiceOf(doc)) \cap AfterAutoStart = {} <=> ServiceOf(doc).minRunning = 0
      <4>. DEFINE s == ServiceOf(doc)
      <4>1. \A f \in AfterAutoStart :
              f \in ServiceFields /\ f \in DOMAIN Omitted
        BY DEF AfterAutoStart, ServiceFields, Omitted
      <4>2. /\ Omitted["minRunning"] = 0 /\ Omitted["concurrency"] = ""
            /\ Omitted["checks"] = <<>>
        BY DEF Omitted
      <4>3. /\ s["minRunning"] = s.minRunning /\ s["concurrency"] = ""
            /\ s["checks"] = <<>>
        BY <3>2
      <4>. HIDE DEF s
      <4>4. \A f \in AfterAutoStart : f \in Written(s) <=> s[f] # Omitted[f]
        BY <4>1 DEF Written
      <4>. QED
        BY <4>2, <4>3, <4>4 DEF AfterAutoStart, s
    <3>. QED
      BY <3>1, <3>3
  <2>. QED
    BY <2>2, <2>3, <2>4, <2>6, <2>7, EncodedOnceMore DEF MovesAutoStart
<1>. QED
  BY <1>1, UntouchedHolds, PTL

\* The files and what Fly was given belong to documents, whatever happens to the files
\* between the commands.
THEOREM PlanTypes == PlanSpec => []PlanTypeOK
<1>. DEFINE Listed == secretsFile = Missing \/ secretsFile.names \in SUBSET SecretNames
<1>1. PlanInit => Listed
  BY DEF PlanInit
<1>2. Listed /\ [PlanNext]_planVars => Listed'
  <2>. SUFFICES ASSUME Listed, [PlanNext]_planVars PROVE Listed'
    OBVIOUS
  <2>1. CASE UNCHANGED secretsFile
    BY <2>1
  <2>2. ASSUME NEW names \in SUBSET SecretNames, NEW readable \in BOOLEAN,
               EditSecrets(names, readable)
        PROVE  Listed'
    BY <2>2 DEF EditSecrets
  <2>. QED
    BY <2>1, <2>2 DEF PlanNext, planVars, WritePlan, WritePlanTorn, OlderPlan, EditPlan,
         EditScore, ApplyPlanFile, Apply
<1>3. PlanInv /\ Listed => PlanTypeOK
  <2>. SUFFICES ASSUME PlanInv, Listed PROVE PlanTypeOK
    OBVIOUS
  <2>1. file = Missing \/ (file.whole /\ file.of \in Documents) \/ ~file.whole
    BY DEF PlanInv, WrittenForADocument, FileOf
  <2>2. deployed = Missing \/ deployed.of \in Documents
    BY DEF PlanInv, GivenADocument
  <2>. QED
    BY <2>1, <2>2 DEF PlanTypeOK, PlanInv
<1>. QED
  BY <1>1, <1>2, <1>3, PlanInvHolds, PTL DEF PlanSpec

-----------------------------------------------------------------------------
(***************************************************************************)
(* The metadata (MetadataCheck).                                           *)
(***************************************************************************)
\* A key is the key of one fact.
LEMMA KeysTell ==
    ASSUME NEW f \in Facts, NEW g \in Facts, NEW v, NEW w, KeyOf(f, v) = KeyOf(g, w)
    PROVE  f = g
  BY DEF Facts, FactTable, KeyOf

\* The facts are in the table, and their values are of their kind.
Meant ==
    /\ DOMAIN facts \subseteq Facts /\ DOMAIN spelling = DOMAIN facts
    /\ "service" \in DOMAIN facts
    /\ \A f \in DOMAIN facts : facts[f] \in Values[f] /\ Spells(f, spelling[f], facts[f])

\* A fact stands under its key, in whatever way it is written.
LEMMA Stands ==
    ASSUME Meant, NEW ways, NEW f \in DOMAIN facts
    PROVE  LET level == LevelOf(f, ways[f])
               key == KeyOf(f, ways[f])
           IN  level \in Levels =>
                /\ key \in DOMAIN RawIn(ways)[level]
                /\ RawIn(ways)[level][key] = InText(f, ways[f], facts[f])
<1>. DEFINE level == LevelOf(f, ways[f])
            here == {g \in DOMAIN facts : LevelOf(g, ways[g]) = level}
            key == KeyOf(f, ways[f])
            it == CHOOSE g \in here : KeyOf(g, ways[g]) = key
            dict == RawIn(ways)[level]
<1>. SUFFICES ASSUME level \in Levels
              PROVE  key \in DOMAIN dict /\ dict[key] = InText(f, ways[f], facts[f])
  OBVIOUS
<1>1. f \in here
  OBVIOUS
<1>2. it \in here /\ KeyOf(it, ways[it]) = key
  BY <1>1
<1>3. it = f
  BY <1>1, <1>2, KeysTell DEF Meant
<1>4. dict = [k \in {KeyOf(g, ways[g]) : g \in here} |->
          LET g == CHOOSE g \in here : KeyOf(g, ways[g]) = k
          IN  InText(g, ways[g], facts[g])]
  BY DEF RawIn
<1>5. key \in {KeyOf(g, ways[g]) : g \in here}
  BY <1>1
<1>6. dict[key] = InText(it, ways[it], facts[it])
  BY <1>4, <1>5
<1>. QED
  BY <1>3, <1>4, <1>5, <1>6

LEMMA StandsThere ==
    ASSUME Meant, NEW f \in DOMAIN facts
    PROVE  LET way == spelling[f]
               level == LevelOf(f, way)
           IN  level \in Levels =>
                /\ KeyOf(f, way) \in DOMAIN Raw[level]
                /\ Raw[level][KeyOf(f, way)] = InText(f, way, facts[f])
  BY Stands DEF Raw

\* And under no other key of its own.
LEMMA NowhereElse ==
    ASSUME Meant, NEW f \in DOMAIN facts, NEW way, KeyOf(f, way) # KeyOf(f, spelling[f]),
           NEW level \in Levels
    PROVE  KeyOf(f, way) \notin DOMAIN Raw[level]
<1>1. DOMAIN Raw[level] \subseteq {KeyOf(g, spelling[g]) : g \in DOMAIN facts}
  BY DEF Raw, RawIn
<1>2. ASSUME NEW g \in DOMAIN facts, KeyOf(g, spelling[g]) = KeyOf(f, way)
      PROVE  FALSE
  <2>1. f = g
    BY <1>2, KeysTell DEF Meant
  <2>. QED
    BY <1>2, <2>1
<1>. QED
  BY <1>1, <1>2

\* The place of a fact in the contract.
Holds(doc, fact) ==
    /\ FactTable[fact].snake \in DOMAIN doc[LevelOf(fact, "snake")]
    /\ doc[LevelOf(fact, "snake")][FactTable[fact].snake] = facts[fact]

Told == PlaceInGroup \cup PlaceInService \cup Times \cup {"kind"}

LEMMA TextAsItIs ==
    ASSUME Meant, NEW f \in DOMAIN facts,
           \/ spelling[f] = "snake"
           \/ spelling[f] = "camel" /\ f \notin Times \cup {"memory", "stop"}
    PROVE  InText(f, spelling[f], facts[f]) = facts[f]
  BY DEF InText

LEMMA HeldByContract ==
    ASSUME Meant, NEW f \in DOMAIN facts \cap Told, InShape(f), ~HasPublishedShape(Raw)
    PROVE  Holds(Raw, f)
<1>1. spelling[f] = "snake"
  BY DEF InShape, Meant, Spells
<1>2. LevelOf(f, "snake") \in Levels /\ f \in Facts
  BY DEF Meant, Facts, FactTable, LevelOf, Levels
<1>3. KeyOf(f, "snake") = FactTable[f].snake
  BY DEF KeyOf
<1>. QED
  BY <1>1, <1>2, <1>3, StandsThere, TextAsItIs DEF Holds


LEMMA OverAt ==
    ASSUME NEW upper, NEW lower, NEW key
    PROVE  /\ key \in DOMAIN upper =>
                key \in DOMAIN Over(upper, lower) /\ Over(upper, lower)[key] = upper[key]
           /\ key \notin DOMAIN upper /\ key \in DOMAIN lower =>
                key \in DOMAIN Over(upper, lower) /\ Over(upper, lower)[key] = lower[key]
           /\ key \notin DOMAIN upper /\ key \notin DOMAIN lower => key \notin DOMAIN Over(upper, lower)
  BY DEF Over

LEMMA CopiedAt ==
    ASSUME NEW dict, NEW table, NEW key
    PROVE  IF key \in DOMAIN table /\ table[key] \in DOMAIN dict
           THEN key \in DOMAIN Copied(dict, table) /\ Copied(dict, table)[key] = dict[table[key]]
           ELSE key \notin DOMAIN Copied(dict, table)
  BY DEF Copied

LEMMA KeptAt ==
    ASSUME NEW dict, NEW keys, NEW key
    PROVE  IF key \in keys /\ key \in DOMAIN dict
           THEN key \in DOMAIN Kept(dict, keys) /\ Kept(dict, keys)[key] = dict[key]
           ELSE key \notin DOMAIN Kept(dict, keys)
  BY DEF Kept

\* What only the camelCase key says at the top and in the process.
LEMMA TopCopied ==
    ASSUME NEW top, NEW to \in DOMAIN TopTable, to \notin DOMAIN top, TopTable[to] \in DOMAIN top
    PROVE  to \in DOMAIN NormalizeTop(top) /\ NormalizeTop(top)[to] = top[TopTable[to]]
  BY OverAt, CopiedAt, KeptAt DEF NormalizeTop

LEMMA ProcessCopied ==
    ASSUME NEW process, NEW service,
           NEW to \in DOMAIN ProcessTable, to \notin DOMAIN process, ProcessTable[to] \in DOMAIN process
    PROVE  LET out == NormalizeProcess(process, service)
           IN  to \in DOMAIN out /\ out[to] = process[ProcessTable[to]]
<1>1. to \in DOMAIN Copied(process, ProcessTable)
      /\ Copied(process, ProcessTable)[to] = process[ProcessTable[to]]
  BY CopiedAt
<1>2. to \notin DOMAIN Kept(process, ContractKeys.process)
  BY KeptAt
<1>. QED
  BY <1>1, <1>2, OverAt DEF NormalizeProcess

LEMMA ServiceCopied ==
    ASSUME NEW service, NEW to \in DOMAIN ServiceTable, ServiceTable[to] \in DOMAIN service
    PROVE  LET out == NormalizeHTTPService(service)
               said == service[ServiceTable[to]]
           IN  to \in DOMAIN out /\ out[to] = IF to = "auto_stop" THEN StopWord(said) ELSE said
<1>. DEFINE out == Copied(service, ServiceTable)
<1>1. to \in DOMAIN out /\ out[to] = service[ServiceTable[to]]
  BY CopiedAt
<1>2. NormalizeHTTPService(service)
        = IF "auto_stop" \in DOMAIN out THEN [out EXCEPT !["auto_stop"] = StopWord(@)] ELSE out
  BY DEF NormalizeHTTPService
<1>. HIDE DEF out
<1>. QED
  BY <1>1, <1>2

LEMMA Published ==
    ASSUME HasPublishedShape(Raw)
    PROVE  /\ Canonical(Raw)["top"] = NormalizeTop(Raw["top"])
           /\ Canonical(Raw)["process"] = NormalizeProcess(Raw["process"], Raw["service"])
           /\ Canonical(Raw)["vm"] = NormalizeVM(Raw["vm"])
           /\ Canonical(Raw)["service"] = NormalizeHTTPService(Raw["service"])
           /\ Given(Raw["check"]) => Canonical(Raw)["check"] = NormalizeCheck(Raw["check"], Raw["service"])
  BY DEF Canonical, NormalizePublishedShape, Levels

\* A fact in the published spelling stands there and nowhere else.
LEMMA WrittenPublished ==
    ASSUME Meant, HasPublishedShape(Raw), NEW f \in DOMAIN facts, InShape(f), ~SameKey(f)
    PROVE  LET level == FactTable[f].level
           IN  /\ spelling[f] = "camel"
               /\ FactTable[f].camel \in DOMAIN Raw[level]
               /\ Raw[level][FactTable[f].camel] = InText(f, "camel", facts[f])
               /\ FactTable[f].camel # FactTable[f].snake =>
                    FactTable[f].snake \notin DOMAIN Raw[level]
<1>1. spelling[f] = "camel"
  BY DEF InShape
<1>2. FactTable[f].level \in Levels /\ f \in Facts /\ LevelOf(f, "camel") = FactTable[f].level
  BY DEF Meant, Facts, FactTable, LevelOf, Levels
<1>3. KeyOf(f, "camel") = FactTable[f].camel /\ KeyOf(f, "snake") = FactTable[f].snake
  BY DEF KeyOf
<1>. QED
  BY <1>1, <1>2, <1>3, StandsThere, NowhereElse

\* One that is spelt the one way in both.
LEMMA WrittenEither ==
    ASSUME Meant, NEW f \in DOMAIN facts, SameKey(f)
    PROVE  LET level == FactTable[f].level
           IN  /\ FactTable[f].snake \in DOMAIN Raw[level]
               /\ Raw[level][FactTable[f].snake] = facts[f]
<1>1. spelling[f] = "snake"
  BY DEF Meant, Spells
<1>2. FactTable[f].level \in Levels /\ f \in Facts /\ LevelOf(f, "snake") = FactTable[f].level
  BY DEF Meant, Facts, FactTable, LevelOf, Levels, SameKey
<1>3. KeyOf(f, "snake") = FactTable[f].snake
  BY DEF KeyOf
<1>. QED
  BY <1>1, <1>2, <1>3, StandsThere, TextAsItIs

LEMMA TopHeld ==
    ASSUME Meant, HasPublishedShape(Raw), NEW f \in DOMAIN facts, InShape(f),
           f \in {"region", "namespace"}
    PROVE  Holds(Canonical(Raw), f)
<1>1. ~SameKey(f) /\ FactTable[f].level = "top" /\ FactTable[f].camel # FactTable[f].snake
      /\ LevelOf(f, "snake") = "top"
      /\ FactTable[f].snake \in DOMAIN TopTable /\ TopTable[FactTable[f].snake] = FactTable[f].camel
  BY DEF FactTable, SameKey, LevelOf, TopTable
<1>2. InText(f, "camel", facts[f]) = facts[f]
  BY DEF InText, Times
<1>. QED
  BY <1>1, <1>2, WrittenPublished, TopCopied, Published DEF Holds

LEMMA GroupHeld ==
    ASSUME Meant, HasPublishedShape(Raw), "group" \in DOMAIN facts, InShape("group")
    PROVE  Holds(Canonical(Raw), "group")
<1>1. ~SameKey("group") /\ FactTable["group"].level = "process" /\ LevelOf("group", "snake") = "process"
      /\ FactTable["group"].camel = "machineGroup" /\ FactTable["group"].snake = "machine_group"
      /\ "machine_group" \in DOMAIN ProcessTable /\ ProcessTable["machine_group"] = "machineGroup"
  BY DEF FactTable, SameKey, LevelOf, ProcessTable
<1>2. InText("group", "camel", facts["group"]) = facts["group"]
  BY DEF InText, Times
<1>. QED
  BY <1>1, <1>2, WrittenPublished, ProcessCopied, Published DEF Holds

\* The concurrency moves from the service to the process.
LEMMA ConcurrencyHeld ==
    ASSUME Meant, HasPublishedShape(Raw), "concurrency" \in DOMAIN facts, InShape("concurrency")
    PROVE  Holds(Canonical(Raw), "concurrency")
<1>. DEFINE f == "concurrency"
            service == Raw["service"]
            process == Raw["process"]
<1>1. ~SameKey(f) /\ FactTable[f].level = "service" /\ LevelOf(f, "snake") = "process"
      /\ FactTable[f].camel = f /\ FactTable[f].snake = f
  BY DEF FactTable, SameKey, LevelOf
<1>2. InText(f, "camel", facts[f]) = facts[f]
  BY DEF InText, Times
<1>3. spelling[f] = "camel" /\ f \in DOMAIN service /\ service[f] = facts[f]
  BY <1>1, <1>2, WrittenPublished
<1>4. f \notin DOMAIN process
  <2>1. DOMAIN process = {KeyOf(g, spelling[g]) :
                            g \in {h \in DOMAIN facts : LevelOf(h, spelling[h]) = "process"}}
    BY DEF Raw, RawIn, Levels
  <2>2. ASSUME NEW g \in DOMAIN facts, LevelOf(g, spelling[g]) = "process", KeyOf(g, spelling[g]) = f
        PROVE  FALSE
    <3>1. KeyOf(f, "camel") = f /\ LevelOf(f, "camel") = "service"
      BY <1>1 DEF KeyOf, LevelOf
    <3>2. g = f
      BY <2>2, <3>1, KeysTell DEF Meant
    <3>. QED
      BY <1>3, <2>2, <3>1, <3>2
  <2>. QED
    BY <2>1, <2>2
<1>5. f \in DOMAIN Kept(service, {f}) /\ Kept(service, {f})[f] = facts[f]
  BY <1>3, KeptAt
<1>6. f \notin DOMAIN Copied(process, ProcessTable)
  BY CopiedAt DEF ProcessTable
<1>7. f \notin DOMAIN Kept(process, ContractKeys.process)
  BY <1>4, KeptAt
<1>8. f \in DOMAIN NormalizeProcess(process, service) /\ NormalizeProcess(process, service)[f] = facts[f]
  BY <1>5, <1>6, <1>7, OverAt DEF NormalizeProcess
<1>. QED
  BY <1>1, <1>8, Published DEF Holds

LEMMA CpusHeld ==
    ASSUME Meant, HasPublishedShape(Raw), "cpus" \in DOMAIN facts, InShape("cpus")
    PROVE  Holds(Canonical(Raw), "cpus")
<1>. DEFINE vm == Raw["vm"]
<1>1. ~SameKey("cpus") /\ FactTable["cpus"].level = "vm" /\ LevelOf("cpus", "snake") = "vm"
      /\ FactTable["cpus"].camel = "size" /\ FactTable["cpus"].snake = "cpus"
  BY DEF FactTable, SameKey, LevelOf
<1>2. InText("cpus", "camel", facts["cpus"]) = facts["cpus"]
  BY DEF InText, Times
<1>3. "size" \in DOMAIN vm /\ vm["size"] = facts["cpus"] /\ "cpus" \notin DOMAIN vm
  BY <1>1, <1>2, WrittenPublished
<1>4. "cpus" \in DOMAIN Copied(vm, [cpus |-> "size"]) /\ Copied(vm, [cpus |-> "size"])["cpus"] = facts["cpus"]
  BY <1>3, CopiedAt
<1>5. "cpus" \notin DOMAIN Kept(vm, ContractKeys.vm)
  BY <1>3, KeptAt
<1>6. "cpus" \in DOMAIN NormalizeVM(vm) /\ NormalizeVM(vm)["cpus"] = facts["cpus"]
  BY <1>4, <1>5, OverAt DEF NormalizeVM
<1>. QED
  BY <1>1, <1>6, Published DEF Holds

\* Gigabytes where they come out even, megabytes where they do not.
LEMMA MemoryBack ==
    ASSUME NEW n \in Nat
    PROVE  ParseMemoryMB(InText("memory", "camel", n)) = n
<1>1. InText("memory", "camel", n) = IF n % 1024 = 0 THEN [n |-> n \div 1024, unit |-> "gb"]
                                                     ELSE [n |-> n, unit |-> "mb"]
  BY DEF InText, Times
<1>2. n % 1024 = 0 => (n \div 1024) * 1024 = n
  OBVIOUS
<1>. QED
  BY <1>1, <1>2 DEF ParseMemoryMB

LEMMA MemoryHeld ==
    ASSUME Meant, HasPublishedShape(Raw), "memory" \in DOMAIN facts, InShape("memory")
    PROVE  Holds(Canonical(Raw), "memory")
<1>. DEFINE vm == Raw["vm"]
            amount == ParseMemoryMB(vm["memory"])
<1>1. ~SameKey("memory") /\ FactTable["memory"].level = "vm" /\ LevelOf("memory", "snake") = "vm"
      /\ FactTable["memory"].camel = "memory" /\ FactTable["memory"].snake = "memory_mb"
  BY DEF FactTable, SameKey, LevelOf
<1>2. "memory" \in DOMAIN vm /\ vm["memory"] = InText("memory", "camel", facts["memory"])
      /\ "memory_mb" \notin DOMAIN vm
  BY <1>1, WrittenPublished
<1>3. amount = facts["memory"]
  BY <1>2, MemoryBack, MetadataAssumption DEF Meant
<1>4. "memory_mb" \in DOMAIN Single("memory_mb", amount) /\ Single("memory_mb", amount)["memory_mb"] = amount
  BY DEF Single
<1>5. "memory_mb" \notin DOMAIN Kept(vm, ContractKeys.vm) /\ "memory_mb" \notin DOMAIN Copied(vm, [cpus |-> "size"])
  BY <1>2, KeptAt, CopiedAt
<1>6. NormalizeVM(vm) = Over(Kept(vm, ContractKeys.vm),
                             Over(Copied(vm, [cpus |-> "size"]), Single("memory_mb", amount)))
  BY <1>2 DEF NormalizeVM
<1>7. "memory_mb" \in DOMAIN NormalizeVM(vm) /\ NormalizeVM(vm)["memory_mb"] = facts["memory"]
  BY <1>3, <1>4, <1>5, <1>6, OverAt
<1>. QED
  BY <1>1, <1>7, Published DEF Holds

\* The switches of a service: a word for stop becomes a boolean and a word again.
LEMMA StopBack ==
    ASSUME NEW word \in {"off", "stop", "suspend"}
    PROVE  StopWord(InText("stop", "camel", word)) = word
  BY DEF StopWord, InText, Times

LEMMA ServiceHeld ==
    ASSUME Meant, HasPublishedShape(Raw), NEW f \in DOMAIN facts, InShape(f),
           f \in {"listen", "protocol", "stop", "start", "minRunning"}
    PROVE  Holds(Canonical(Raw), f)
<1>. DEFINE key == FactTable[f].snake
<1>1. FactTable[f].level = "service" /\ LevelOf(f, "snake") = "service"
      /\ key \in DOMAIN ServiceTable /\ ServiceTable[key] = FactTable[f].camel
      /\ (key = "auto_stop" <=> f = "stop")
      /\ (SameKey(f) <=> f = "protocol") /\ FactTable["protocol"].camel = FactTable["protocol"].snake
  BY DEF FactTable, SameKey, LevelOf, ServiceTable
<1>2. FactTable[f].camel \in DOMAIN Raw["service"]
      /\ Raw["service"][FactTable[f].camel]
            = IF f = "stop" THEN InText("stop", "camel", facts["stop"]) ELSE facts[f]
  <2>1. CASE SameKey(f)
    BY <1>1, <2>1, WrittenEither
  <2>2. CASE ~SameKey(f)
    <3>1. f # "stop" => InText(f, "camel", facts[f]) = facts[f]
      BY DEF InText, Times
    <3>. QED
      BY <1>1, <2>2, <3>1, WrittenPublished
  <2>. QED
    BY <2>1, <2>2
<1>3. f = "stop" => StopWord(InText("stop", "camel", facts["stop"])) = facts["stop"]
  BY StopBack, MetadataAssumption DEF Meant
<1>. QED
  BY <1>1, <1>2, <1>3, ServiceCopied, Published DEF Holds

LEMMA SameCopied ==
    ASSUME NEW check, NEW key \in {"type", "port"}, key \in DOMAIN check
    PROVE  key \in DOMAIN Copied(check, CheckTable) /\ Copied(check, CheckTable)[key] = check[key]
<1>1. key \in DOMAIN CheckTable /\ CheckTable[key] = key
  BY DEF CheckTable
<1>2. CheckTable[key] \in DOMAIN check
  BY <1>1
<1>3. key \in DOMAIN Copied(check, CheckTable) /\ Copied(check, CheckTable)[key] = check[CheckTable[key]]
  BY <1>1, <1>2, CopiedAt
<1>. QED
  BY <1>1, <1>3

LEMMA KindHeld ==
    ASSUME Meant, HasPublishedShape(Raw), "kind" \in DOMAIN facts
    PROVE  Holds(Canonical(Raw), "kind") /\ Given(Raw["check"])
<1>. DEFINE check == Raw["check"]
<1>1. SameKey("kind") /\ FactTable["kind"].level = "check" /\ LevelOf("kind", "snake") = "check"
      /\ FactTable["kind"].snake = "type"
  BY DEF FactTable, SameKey, LevelOf
<1>2. "type" \in DOMAIN check /\ check["type"] = facts["kind"]
  BY <1>1, WrittenEither
<1>3. "type" \in DOMAIN Copied(check, CheckTable) /\ Copied(check, CheckTable)["type"] = facts["kind"]
  BY <1>2, SameCopied
<1>4. "type" \notin DOMAIN Copied(check, TimeTable)
  BY CopiedAt DEF TimeTable
<1>5. LET out == NormalizeCheck(check, Raw["service"]) IN "type" \in DOMAIN out /\ out["type"] = facts["kind"]
  BY <1>3, <1>4, OverAt DEF NormalizeCheck
<1>6. Given(check)
  BY <1>2 DEF Given
<1>. QED
  BY <1>1, <1>5, <1>6, Published DEF Holds

LEMMA TimeHeld ==
    ASSUME Meant, HasPublishedShape(Raw), NEW f \in DOMAIN facts \cap Times, InShape(f)
    PROVE  Holds(Canonical(Raw), f)
<1>. DEFINE check == Raw["check"]
            key == FactTable[f].snake
            texts == Copied(check, TimeTable)
            times == [k \in DOMAIN texts |-> DurationSeconds(texts[k])]
<1>1. ~SameKey(f) /\ FactTable[f].level = "check" /\ LevelOf(f, "snake") = "check"
      /\ FactTable[f].camel # key
      /\ key \in DOMAIN TimeTable /\ TimeTable[key] = FactTable[f].camel
  BY DEF FactTable, SameKey, LevelOf, TimeTable, Times
<1>2. FactTable[f].camel \in DOMAIN check /\ check[FactTable[f].camel] = InText(f, "camel", facts[f])
  BY <1>1, WrittenPublished
<1>3. DurationSeconds(InText(f, "camel", facts[f])) = facts[f]
  BY DEF InText, DurationSeconds, Times
<1>4. key \in DOMAIN texts /\ texts[key] = InText(f, "camel", facts[f])
  BY <1>1, <1>2, CopiedAt
<1>5. key \in DOMAIN times /\ times[key] = facts[f]
  BY <1>3, <1>4
<1>6. \E rest : NormalizeCheck(check, Raw["service"]) = Over(times, rest)
  BY DEF NormalizeCheck
<1>. HIDE DEF times, texts
<1>7. LET out == NormalizeCheck(check, Raw["service"]) IN key \in DOMAIN out /\ out[key] = facts[f]
  BY <1>5, <1>6, OverAt
<1>8. Given(check)
  BY <1>2 DEF Given
<1>. QED
  BY <1>1, <1>7, <1>8, Published DEF Holds

\* In either shape, what is written as the shape has it stands in the contract.
LEMMA ToldIsHeld ==
    ASSUME Meant, NEW f \in DOMAIN facts \cap Told, InShape(f)
    PROVE  Holds(Canonical(Raw), f)
<1>1. CASE ~HasPublishedShape(Raw)
  <2>1. Canonical(Raw) = Raw
    BY <1>1 DEF Canonical
  <2>. QED
    BY <1>1, <2>1, HeldByContract
<1>2. CASE HasPublishedShape(Raw)
  BY <1>2, TopHeld, GroupHeld, ConcurrencyHeld, CpusHeld, MemoryHeld, ServiceHeld, KindHeld, TimeHeld
  DEF Told, PlaceInGroup, PlaceInService
<1>. QED
  BY <1>1, <1>2

\* A document that is accepted has its service where the plan looks for it.
LEMMA ServiceGiven ==
    ASSUME Meant, Parses(Raw)
    PROVE  "http_service" \in DOMAIN Canonical(Raw)["process"]
<1>. DEFINE process == Raw["process"]
            key == KeyOf("service", spelling["service"])
<1>1. "process" \in Levels /\ FactTable["service"].level = "process"
      /\ LevelOf("service", spelling["service"]) = "process" /\ key \in {"http_service", "httpService"}
  BY DEF FactTable, Levels, LevelOf, KeyOf
<1>2. key \in DOMAIN process
  BY <1>1, StandsThere DEF Meant
<1>3. CASE ~HasPublishedShape(Raw)
  <2>1. Canonical(Raw) = Raw
    BY <1>3 DEF Canonical
  <2>2. DOMAIN process \subseteq ContractKeys["process"]
    BY <1>1, <2>1 DEF Parses, Decodes
  <2>3. "httpService" \notin ContractKeys["process"]
    BY DEF ContractKeys
  <2>. QED
    BY <1>1, <1>2, <2>1, <2>2, <2>3
<1>4. CASE HasPublishedShape(Raw)
  <2>1. "http_service" \in ContractKeys.process
        /\ "http_service" \in DOMAIN ProcessTable /\ ProcessTable["http_service"] = "httpService"
    BY DEF ContractKeys, ProcessTable
  <2>2. \/ "http_service" \in DOMAIN Kept(process, ContractKeys.process)
        \/ "http_service" \in DOMAIN Copied(process, ProcessTable)
    BY <1>1, <1>2, <2>1, KeptAt, CopiedAt
  <2>3. "http_service" \in DOMAIN NormalizeProcess(process, Raw["service"])
    BY <2>2, OverAt DEF NormalizeProcess
  <2>. QED
    BY <1>4, <2>3, Published
<1>. QED
  BY <1>3, <1>4

\* What the contract holds, the plan says.
LEMMA HeldIsSaid ==
    ASSUME NEW doc, "http_service" \in DOMAIN doc["process"],
           NEW f \in DOMAIN facts \cap Placed, Holds(doc, f),
           f \in Times => Holds(doc, "kind") /\ facts["kind"] = "http"
    PROVE  Says(GroupOf(doc), f) = facts[f]
<1>. DEFINE group == GroupOf(doc)
            s == Service(doc)
            level == LevelOf(f, "snake")
            key == FactTable[f].snake
<1>1. group.services[1] = s
  BY DEF GroupOf
<1>. SUFFICES Says(group, f) = facts[f]
  OBVIOUS
<1>. HIDE DEF group, s
<1>2. doc[level][key] = facts[f] /\ \A default : Lookup(doc[level], key, default) = facts[f]
  BY DEF Holds, Lookup
<1>3. CASE f \in PlaceInGroup
  <2>1. Says(group, f) = SaysInGroup(group)[f]
    BY <1>3 DEF Says, PlaceInGroup, PlaceInService, Times
  <2>2. /\ f = "region" => SaysInGroup(group)[f] = group.region /\ key = "region"
        /\ f = "namespace" => SaysInGroup(group)[f] = group.namespace /\ key = "secret_namespace"
        /\ f = "group" => SaysInGroup(group)[f] = group.name /\ key = "machine_group"
        /\ f = "cpus" => SaysInGroup(group)[f] = group.cpus /\ key = "cpus"
        /\ f = "memory" => SaysInGroup(group)[f] = group.memory /\ key = "memory_mb"
    BY DEF SaysInGroup, FactTable
  <2>3. /\ f \in {"region", "namespace"} => level = "top"
        /\ f = "group" => level = "process"
        /\ f \in {"cpus", "memory"} => level = "vm"
    BY DEF LevelOf, FactTable
  <2>4. /\ group.name = Lookup(doc["process"], "machine_group", "app")
        /\ group.region = Lookup(doc["top"], "region", "iad")
        /\ group.namespace = Lookup(doc["top"], "secret_namespace", "")
        /\ group.cpus = Lookup(doc["vm"], "cpus", 1)
        /\ group.memory = Lookup(doc["vm"], "memory_mb", 256)
    BY DEF group, GroupOf
  <2>5. CASE f = "region"
    BY <1>2, <2>1, <2>2, <2>3, <2>4, <2>5
  <2>6. CASE f = "namespace"
    BY <1>2, <2>1, <2>2, <2>3, <2>4, <2>6
  <2>7. CASE f = "group"
    BY <1>2, <2>1, <2>2, <2>3, <2>4, <2>7
  <2>8. CASE f = "cpus"
    BY <1>2, <2>1, <2>2, <2>3, <2>4, <2>8
  <2>9. CASE f = "memory"
    BY <1>2, <2>1, <2>2, <2>3, <2>4, <2>9
  <2>. QED
    BY <1>3, <2>5, <2>6, <2>7, <2>8, <2>9 DEF PlaceInGroup
<1>4. CASE f \in PlaceInService
  <2>1. Says(group, f) = SaysInService(s)[f]
    BY <1>1, <1>4 DEF Says, PlaceInGroup, PlaceInService, Times
  <2>2. /\ f = "listen" => SaysInService(s)[f] = s.port /\ key = "internal_port"
        /\ f = "protocol" => SaysInService(s)[f] = s.protocol /\ key = "protocol"
        /\ f = "stop" => SaysInService(s)[f] = s.autoStop /\ key = "auto_stop"
        /\ f = "start" => SaysInService(s)[f] = s.autoStart /\ key = "auto_start"
        /\ f = "minRunning" => SaysInService(s)[f] = s.minRunning /\ key = "min_machines_running"
        /\ f = "concurrency" => SaysInService(s)[f] = s.concurrency /\ key = "concurrency"
    BY DEF SaysInService, FactTable
  <2>3. /\ f # "concurrency" => level = "service"
        /\ f = "concurrency" => level = "process"
    BY <1>4 DEF LevelOf, FactTable, PlaceInService
  <2>4. /\ s.port = doc["service"]["internal_port"]
        /\ s.protocol = Lookup(doc["service"], "protocol", "tcp")
        /\ s.autoStop = Lookup(doc["service"], "auto_stop", "")
        /\ \E default : s.autoStart = Lookup(doc["service"], "auto_start", default)
        /\ s.minRunning = Lookup(doc["service"], "min_machines_running", 0)
        /\ s.concurrency = Lookup(doc["process"], "concurrency", "")
    BY DEF s, Service
  <2>. QED
    BY <1>2, <1>4, <2>1, <2>2, <2>3, <2>4 DEF PlaceInService
<1>5. CASE f \in Times
  <2>. DEFINE check == doc["check"]
              asked == s.checks[1]
  <2>1. Says(group, f) = asked[f]
    BY <1>1, <1>5 DEF Says, PlaceInGroup, PlaceInService, Times
  <2>2. /\ f = "interval" => key = "interval_seconds"
        /\ f = "timeout" => key = "timeout_seconds"
        /\ f = "grace" => key = "grace_period_seconds"
        /\ level = "check"
    BY <1>5 DEF LevelOf, FactTable, Times
  <2>3. "type" \in DOMAIN check /\ check["type"] = "http"
    <3>1. FactTable["kind"].snake = "type" /\ LevelOf("kind", "snake") = "check"
      BY DEF LevelOf, FactTable
    <3>. QED
      BY <1>5, <3>1 DEF Holds
  <2>4. asked = [interval |-> check["interval_seconds"],
                 timeout  |-> check["timeout_seconds"],
                 grace    |-> Lookup(check, "grace_period_seconds", 0),
                 protocol |-> Lookup(doc["service"], "protocol", "")]
    BY <2>3 DEF s, Service, ServiceCheck, Given
  <2>. HIDE DEF asked
  <2>5. /\ asked["interval"] = check["interval_seconds"]
        /\ asked["timeout"] = check["timeout_seconds"]
        /\ asked["grace"] = Lookup(check, "grace_period_seconds", 0)
    <3>. HIDE DEF check
    <3>. QED
      BY <2>4
  <2>6. doc[level] = check
    BY <2>2
  <2>7. CASE f = "interval"
    BY <1>2, <2>1, <2>2, <2>5, <2>6, <2>7
  <2>8. CASE f = "timeout"
    BY <1>2, <2>1, <2>2, <2>5, <2>6, <2>8
  <2>9. CASE f = "grace"
    BY <1>2, <2>1, <2>2, <2>5, <2>6, <2>9
  <2>. QED
    BY <1>5, <2>7, <2>8, <2>9 DEF Times
<1>. QED
  BY <1>3, <1>4, <1>5 DEF Placed

LEMMA AcceptedMeans ==
    ASSUME Meant, Renders(Raw), NEW f \in DOMAIN facts \cap Placed, InShape(f)
    PROVE  Says(Rendered(Raw), f) = facts[f]
<1>1. f \in Told
  BY DEF Placed, Told
<1>2. f \in Times => "kind" \in DOMAIN facts /\ facts["kind"] = "http"
  BY DEF Placed, PlaceInGroup, PlaceInService, Times, Lookup
<1>3. "kind" \in Told /\ InShape("kind")
  BY DEF Told, InShape, SameKey, LevelOf, FactTable
<1>4. "http_service" \in DOMAIN Canonical(Raw)["process"]
  BY ServiceGiven DEF Renders
<1>. QED
  BY <1>1, <1>2, <1>3, <1>4, ToldIsHeld, HeldIsSaid DEF Rendered

-----------------------------------------------------------------------------
\* What was said of a document is said of the facts as they still are.
AuthorInv ==
    /\ Meant
    /\ edits \in 0..MaxEdits
    /\ \/ verdict = [status |-> "none"]
       \/ verdict = [status |-> "refused"] /\ ~Renders(Raw)
       \/ verdict = [status |-> "valid", group |-> Rendered(Raw)] /\ Renders(Raw)

LEMMA AuthorBegins == AuthorInit => AuthorInv
<1>. SUFFICES ASSUME AuthorInit PROVE AuthorInv
  OBVIOUS
<1>1. PICK way \in {"camel", "snake"} :
        spelling = [f \in DOMAIN facts |-> IF SameKey(f) THEN "snake" ELSE way]
  BY DEF AuthorInit
<1>2. DOMAIN spelling = DOMAIN facts
      /\ \A f \in DOMAIN facts : Spells(f, spelling[f], facts[f])
  BY <1>1 DEF Spells
<1>3. edits \in 0..MaxEdits
  BY MetadataAssumption DEF AuthorInit
<1>. QED
  BY <1>2, <1>3, MetadataAssumption DEF AuthorInit, AuthorInv, Meant, Unjudged

LEMMA WriteMeant ==
    ASSUME Meant, NEW fact \in Facts, NEW way, NEW value \in Values[fact], Write(fact, way, value)
    PROVE  Meant'
<1>1. \A g : /\ g \in DOMAIN facts' <=> g \in DOMAIN facts \/ g = fact
             /\ g \in DOMAIN spelling' <=> g \in DOMAIN spelling \/ g = fact
  BY DEF Write, Over, Single
<1>2. facts'[fact] = value /\ spelling'[fact] = way
  BY DEF Write, Over, Single
<1>3. \A g \in DOMAIN facts : g # fact => facts'[g] = facts[g]
  BY DEF Write, Over, Single
<1>4. \A g \in DOMAIN spelling : g # fact => spelling'[g] = spelling[g]
  BY DEF Write, Over, Single
<1>5. DOMAIN spelling' = DOMAIN facts'
  BY DEF Write, Over, Single, Meant
<1>. QED
  BY <1>1, <1>2, <1>3, <1>4, <1>5 DEF Meant, Write

LEMMA AuthorStep == AuthorInv /\ [AuthorNext]_authorVars => AuthorInv'
<1>. SUFFICES ASSUME AuthorInv, [AuthorNext]_authorVars PROVE AuthorInv'
  OBVIOUS
<1>1. ASSUME NEW fact \in Facts, NEW way \in Spellings, NEW value \in Values[fact],
             Write(fact, way, value)
      PROVE  AuthorInv'
  <2>1. edits' \in 0..MaxEdits
    BY <1>1, MetadataAssumption DEF Write, AuthorInv
  <2>. QED
    BY <1>1, <2>1, WriteMeant DEF AuthorInv, Write, Unjudged
<1>2. ASSUME UNCHANGED <<facts, spelling>>
      PROVE  Meant' /\ (Renders(Raw) <=> Renders(Raw)') /\ Rendered(Raw)' = Rendered(Raw)
  <2>1. Meant'
    BY <1>2 DEF AuthorInv, Meant
  <2>2. Raw' = Raw
    BY <1>2 DEF Raw, RawIn
  <2>. QED
    BY <2>1, <2>2 DEF Renders, Rendered, Parses, Canonical
<1>3. CASE ValidateAccepts \/ ValidateRefuses
  BY <1>2, <1>3 DEF ValidateAccepts, ValidateRefuses, AuthorInv
<1>4. CASE UNCHANGED authorVars
  BY <1>2, <1>4 DEF authorVars, AuthorInv
<1>. QED
  BY <1>1, <1>3, <1>4 DEF AuthorNext

\* Whatever its author adds, a document keeps known facts and known spellings, and
\* validate says one of two things of it (flymetadata.go:106-129).
THEOREM AuthorTypes == AuthorSpec => []AuthorTypeOK
<1>1. AuthorInv => AuthorTypeOK
  BY DEF AuthorInv, AuthorTypeOK, Meant
<1>. QED
  BY AuthorBegins, AuthorStep, <1>1, PTL DEF AuthorSpec

\* For any values of the facts and any drafts: what a document that validate accepts
\* says in the spelling of its shape, the plan says (flymetadata.go:139-462,
\* convert/machine.go:365-410).
THEOREM MetadataMeansWhatItSays == AuthorSpec => []MeansWhatItSays
<1>1. AuthorInv => MeansWhatItSays
  <2>. SUFFICES ASSUME AuthorInv, verdict.status = "valid",
                       NEW f \in DOMAIN facts \cap Placed, InShape(f)
                PROVE  Says(verdict.group, f) = facts[f]
    BY DEF MeansWhatItSays
  <2>1. Renders(Raw) /\ verdict.group = Rendered(Raw)
    BY DEF AuthorInv
  <2>. QED
    BY <2>1, AcceptedMeans DEF AuthorInv
<1>. QED
  BY AuthorBegins, AuthorStep, <1>1, PTL DEF AuthorSpec

\* In the contract's own shape a key is known where it stands, or refused.
LEMMA ContractKnows ==
    ASSUME Meant, Renders(Raw), ~HasPublishedShape(Raw), NEW f \in DOMAIN facts
    PROVE  f # "misspelt" /\ InShape(f)
<1>1. Canonical(Raw) = Raw
  BY DEF Canonical
<1>2. f \in Facts /\ LevelOf(f, spelling[f]) \in Levels
  BY DEF Meant, Facts, FactTable, LevelOf, Levels
<1>3. KeyOf(f, spelling[f]) \in ContractKeys[LevelOf(f, spelling[f])]
  BY <1>1, <1>2, StandsThere DEF Renders, Parses, Decodes
<1>4. ASSUME spelling[f] # "snake"
      PROVE  SameKey(f)
  <2>1. FactTable[f].camel \in ContractKeys[FactTable[f].level]
    BY <1>3, <1>4 DEF KeyOf, LevelOf
  <2>. QED
    BY <1>2, <2>1 DEF Facts, FactTable, ContractKeys, SameKey, LevelOf
<1>5. f # "misspelt"
  BY <1>3 DEF FactTable, KeyOf, LevelOf, ContractKeys
<1>. QED
  BY <1>4, <1>5 DEF InShape

\* And what the documentation says of unknown fields (docs/metadata-fly.md:78-79) is
\* true of the contract's own shape: nothing misspelt is accepted, and every fact that
\* has a place in the plan is there.  NothingIgnored fails by the published shape only.
THEOREM ContractIgnoresNothing ==
    AuthorSpec => [](~HasPublishedShape(Raw) /\ verdict.status = "valid" =>
                        /\ "misspelt" \notin DOMAIN facts
                        /\ \A f \in DOMAIN facts \cap Placed : Says(verdict.group, f) = facts[f])
<1>1. AuthorInv => (~HasPublishedShape(Raw) /\ verdict.status = "valid" =>
                        /\ "misspelt" \notin DOMAIN facts
                        /\ \A f \in DOMAIN facts \cap Placed : Says(verdict.group, f) = facts[f])
  <2>. SUFFICES ASSUME AuthorInv, ~HasPublishedShape(Raw), verdict.status = "valid"
                PROVE  /\ "misspelt" \notin DOMAIN facts
                       /\ \A f \in DOMAIN facts \cap Placed : Says(verdict.group, f) = facts[f]
    OBVIOUS
  <2>1. Renders(Raw) /\ verdict.group = Rendered(Raw)
    BY DEF AuthorInv
  <2>. QED
    BY <2>1, AcceptedMeans, ContractKnows DEF AuthorInv
<1>. QED
  BY AuthorBegins, AuthorStep, <1>1, PTL DEF AuthorSpec

\* The same document in the contract's own spelling.
Contracted == RawIn([f \in DOMAIN facts |-> "snake"])

\* All in camelCase, and recognisably so, without the concurrency of the service.
AllPublished ==
    /\ AllCamel
    /\ DOMAIN facts \cap {"slack", "region", "namespace"} # {}
    /\ "concurrency" \notin DOMAIN facts

LEMMA ContractedHolds ==
    ASSUME Meant, NEW level \in Levels
    PROVE  /\ DOMAIN Contracted[level]
                = {FactTable[f].snake : f \in {g \in DOMAIN facts : LevelOf(g, "snake") = level}}
           /\ \A f \in DOMAIN facts : LevelOf(f, "snake") = level =>
                Contracted[level][FactTable[f].snake] = facts[f]
           /\ Contracted[level] = [key \in DOMAIN Contracted[level] |-> Contracted[level][key]]
<1>. DEFINE ways == [f \in DOMAIN facts |-> "snake"]
<1>1. \A f \in DOMAIN facts : ways[f] = "snake"
  OBVIOUS
<1>2. \A f : KeyOf(f, "snake") = FactTable[f].snake /\ InText(f, "snake", facts[f]) = facts[f]
  BY DEF KeyOf, InText
<1>. HIDE DEF ways
<1>3. RawIn(ways)[level] = [key \in DOMAIN RawIn(ways)[level] |-> RawIn(ways)[level][key]]
  BY DEF RawIn
<1>4. DOMAIN RawIn(ways)[level]
        = {KeyOf(f, ways[f]) : f \in {g \in DOMAIN facts : LevelOf(g, ways[g]) = level}}
  BY DEF RawIn
<1>5. DOMAIN RawIn(ways)[level]
        = {FactTable[f].snake : f \in {g \in DOMAIN facts : LevelOf(g, "snake") = level}}
  BY <1>1, <1>2, <1>4
<1>6. \A f \in DOMAIN facts : LevelOf(f, "snake") = level =>
          RawIn(ways)[level][FactTable[f].snake] = facts[f]
  BY <1>1, <1>2, Stands
<1>7. Contracted = RawIn(ways)
  BY DEF Contracted, ways
<1>. QED
  BY <1>3, <1>5, <1>6, <1>7

LEMMA ContractedAt ==
    ASSUME Meant, NEW level \in Levels, NEW f \in DOMAIN facts, LevelOf(f, "snake") = level
    PROVE  /\ FactTable[f].snake \in DOMAIN Contracted[level]
           /\ Contracted[level][FactTable[f].snake] = facts[f]
<1>1. f \in {g \in DOMAIN facts : LevelOf(g, "snake") = level}
  OBVIOUS
<1>. QED
  BY <1>1, ContractedHolds

LEMMA ContractedFrom ==
    ASSUME Meant, NEW level \in Levels, NEW key \in DOMAIN Contracted[level]
    PROVE  \E f \in DOMAIN facts : LevelOf(f, "snake") = level /\ FactTable[f].snake = key
<1>1. key \in {FactTable[f].snake : f \in {g \in DOMAIN facts : LevelOf(g, "snake") = level}}
  BY ContractedHolds
<1>. QED
  BY <1>1

LEMMA PublishedKeys ==
    ASSUME Meant, AllPublished, NEW level \in Levels
    PROVE  DOMAIN Raw[level]
                = {FactTable[f].camel : f \in {g \in DOMAIN facts : FactTable[g].level = level}}
<1>1. ASSUME NEW f \in DOMAIN facts
      PROVE  KeyOf(f, spelling[f]) = FactTable[f].camel /\ LevelOf(f, spelling[f]) = FactTable[f].level
  <2>1. SameKey(f) \/ spelling[f] = "camel"
    BY DEF AllPublished, AllCamel
  <2>2. f # "concurrency"
    BY DEF AllPublished
  <2>. QED
    BY <2>1, <2>2 DEF KeyOf, LevelOf, SameKey
<1>2. DOMAIN Raw[level]
        = {KeyOf(f, spelling[f]) : f \in {g \in DOMAIN facts : LevelOf(g, spelling[g]) = level}}
  BY DEF Raw, RawIn
<1>. QED
  BY <1>1, <1>2

LEMMA PublishedIsSeen ==
    ASSUME Meant, AllPublished
    PROVE  HasPublishedShape(Raw) /\ \A f \in DOMAIN facts : InShape(f)
<1>1. PICK f \in DOMAIN facts : f \in {"slack", "region", "namespace"}
  BY DEF AllPublished
<1>2. FactTable[f].level = "top" /\ FactTable[f].camel \in {"slack", "primaryRegion", "secrets"}
      /\ "top" \in Levels
  BY <1>1 DEF FactTable, Levels
<1>3. FactTable[f].camel \in DOMAIN Raw["top"]
  BY <1>2, PublishedKeys
<1>4. HasPublishedShape(Raw)
  BY <1>2, <1>3 DEF HasPublishedShape
<1>. QED
  BY <1>4 DEF AllPublished, AllCamel, InShape

LEMMA RestHeld ==
    ASSUME Meant, HasPublishedShape(Raw), NEW f \in DOMAIN facts, InShape(f),
           f \in {"slack", "service", "port"}
    PROVE  Holds(Canonical(Raw), f)
<1>0. InText(f, "camel", facts[f]) = facts[f]
  BY DEF InText, Times
<1>1. CASE f = "slack"
  <2>1. ~SameKey(f) /\ FactTable[f].level = "top" /\ LevelOf(f, "snake") = "top"
        /\ FactTable[f].camel = "slack" /\ FactTable[f].snake = "slack_channel"
        /\ "slack_channel" \in DOMAIN TopTable /\ TopTable["slack_channel"] = "slack"
    BY <1>1 DEF FactTable, SameKey, LevelOf, TopTable
  <2>. QED
    BY <1>0, <2>1, WrittenPublished, TopCopied, Published DEF Holds
<1>2. CASE f = "service"
  <2>1. ~SameKey(f) /\ FactTable[f].level = "process" /\ LevelOf(f, "snake") = "process"
        /\ FactTable[f].camel = "httpService" /\ FactTable[f].snake = "http_service"
        /\ "http_service" \in DOMAIN ProcessTable /\ ProcessTable["http_service"] = "httpService"
    BY <1>2 DEF FactTable, SameKey, LevelOf, ProcessTable
  <2>. QED
    BY <1>0, <2>1, WrittenPublished, ProcessCopied, Published DEF Holds
<1>3. CASE f = "port"
  <2>. DEFINE check == Raw["check"]
  <2>1. SameKey(f) /\ FactTable[f].level = "check" /\ LevelOf(f, "snake") = "check"
        /\ FactTable[f].snake = "port"
    BY <1>3 DEF FactTable, SameKey, LevelOf
  <2>2. "port" \in DOMAIN check /\ check["port"] = facts[f]
    BY <2>1, WrittenEither
  <2>3. "port" \in DOMAIN Copied(check, CheckTable) /\ Copied(check, CheckTable)["port"] = facts[f]
    BY <2>2, SameCopied
  <2>4. "port" \notin DOMAIN Copied(check, TimeTable)
    BY CopiedAt DEF TimeTable
  <2>5. LET out == NormalizeCheck(check, Raw["service"]) IN "port" \in DOMAIN out /\ out["port"] = facts[f]
    BY <2>3, <2>4, OverAt DEF NormalizeCheck
  <2>6. Given(check)
    BY <2>2 DEF Given
  <2>. QED
    BY <2>1, <2>5, <2>6, Published DEF Holds
<1>. QED
  BY <1>1, <1>2, <1>3

\* What stands at a level of the normalised document is what the author means.
LEMMA OnlyTopMeant ==
    ASSUME Meant, AllPublished, NEW key \in DOMAIN NormalizeTop(Raw["top"])
    PROVE  \E f \in DOMAIN facts : LevelOf(f, "snake") = "top" /\ FactTable[f].snake = key
<1>. DEFINE top == Raw["top"]
<1>1. \A k \in DOMAIN top : \E f \in DOMAIN facts : FactTable[f].level = "top" /\ FactTable[f].camel = k
  BY PublishedKeys DEF Levels
<1>2. \A f \in DOMAIN facts : f \in Facts /\ f # "concurrency"
  BY DEF Meant, AllPublished
<1>3. \A f \in Facts : FactTable[f].level = "top" => FactTable[f].camel \notin ContractKeys.top
  BY DEF Facts, FactTable, ContractKeys
<1>4. key \notin DOMAIN Kept(top, ContractKeys.top)
  BY <1>1, <1>2, <1>3, KeptAt
<1>5. key \in DOMAIN TopTable /\ TopTable[key] \in DOMAIN top
  BY <1>4, OverAt, CopiedAt DEF NormalizeTop
<1>6. PICK f \in DOMAIN facts : FactTable[f].level = "top" /\ FactTable[f].camel = TopTable[key]
  BY <1>1, <1>5
<1>7. FactTable[f].snake = key
  BY <1>2, <1>5, <1>6 DEF Facts, FactTable, TopTable
<1>. QED
  BY <1>2, <1>6, <1>7 DEF LevelOf

LEMMA OnlyProcessMeant ==
    ASSUME Meant, AllPublished, NEW key \in DOMAIN NormalizeProcess(Raw["process"], Raw["service"])
    PROVE  \E f \in DOMAIN facts : LevelOf(f, "snake") = "process" /\ FactTable[f].snake = key
<1>. DEFINE process == Raw["process"]
            service == Raw["service"]
<1>1. /\ \A k \in DOMAIN process : \E f \in DOMAIN facts :
            FactTable[f].level = "process" /\ FactTable[f].camel = k
      /\ \A k \in DOMAIN service : \E f \in DOMAIN facts :
            FactTable[f].level = "service" /\ FactTable[f].camel = k
  BY PublishedKeys DEF Levels
<1>2. \A f \in DOMAIN facts : f \in Facts /\ f # "concurrency"
  BY DEF Meant, AllPublished
<1>3. \A f \in Facts : /\ FactTable[f].level = "process" => FactTable[f].camel \notin ContractKeys.process
                       /\ f # "concurrency" => FactTable[f].camel # "concurrency"
  BY DEF Facts, FactTable, ContractKeys
<1>4. key \notin DOMAIN Kept(process, ContractKeys.process)
  BY <1>1, <1>2, <1>3, KeptAt
<1>5. key \notin DOMAIN Kept(service, {"concurrency"})
  BY <1>1, <1>2, <1>3, KeptAt
<1>6. key \in DOMAIN ProcessTable /\ ProcessTable[key] \in DOMAIN process
  BY <1>4, <1>5, OverAt, CopiedAt DEF NormalizeProcess
<1>7. PICK f \in DOMAIN facts : FactTable[f].level = "process" /\ FactTable[f].camel = ProcessTable[key]
  BY <1>1, <1>6
<1>8. FactTable[f].snake = key
  BY <1>2, <1>6, <1>7 DEF Facts, FactTable, ProcessTable
<1>. QED
  BY <1>2, <1>7, <1>8 DEF LevelOf

LEMMA OnlyVMMeant ==
    ASSUME Meant, AllPublished, NEW key \in DOMAIN NormalizeVM(Raw["vm"])
    PROVE  \E f \in DOMAIN facts : LevelOf(f, "snake") = "vm" /\ FactTable[f].snake = key
<1>. DEFINE vm == Raw["vm"]
            amount == Single("memory_mb", ParseMemoryMB(vm["memory"]))
<1>1. \A k \in DOMAIN vm : \E f \in DOMAIN facts : FactTable[f].level = "vm" /\ FactTable[f].camel = k
  BY PublishedKeys DEF Levels
<1>2. \A f \in DOMAIN facts : f \in Facts /\ f # "concurrency"
  BY DEF Meant, AllPublished
<1>3. \A f \in Facts : FactTable[f].level = "vm" => FactTable[f].camel \notin ContractKeys.vm
  BY DEF Facts, FactTable, ContractKeys
<1>4. key \notin DOMAIN Kept(vm, ContractKeys.vm)
  BY <1>1, <1>2, <1>3, KeptAt
<1>5. \/ key \in DOMAIN Copied(vm, [cpus |-> "size"])
      \/ "memory" \in DOMAIN vm /\ key \in DOMAIN amount
      \/ key \in DOMAIN Nowhere
  BY <1>4, OverAt DEF NormalizeVM
<1>6. \/ key = "cpus" /\ "size" \in DOMAIN vm
      \/ key = "memory_mb" /\ "memory" \in DOMAIN vm
  BY <1>5, CopiedAt DEF Single, Nowhere
<1>7. PICK f \in DOMAIN facts : FactTable[f].level = "vm"
                                /\ FactTable[f].camel = IF key = "cpus" THEN "size" ELSE "memory"
  BY <1>1, <1>6
<1>8. FactTable[f].snake = key
  BY <1>2, <1>6, <1>7 DEF Facts, FactTable
<1>. QED
  BY <1>2, <1>7, <1>8 DEF LevelOf

LEMMA OnlyServiceMeant ==
    ASSUME Meant, AllPublished, NEW key \in DOMAIN NormalizeHTTPService(Raw["service"])
    PROVE  \E f \in DOMAIN facts : LevelOf(f, "snake") = "service" /\ FactTable[f].snake = key
<1>. DEFINE service == Raw["service"]
<1>1. \A k \in DOMAIN service : \E f \in DOMAIN facts :
          FactTable[f].level = "service" /\ FactTable[f].camel = k
  BY PublishedKeys DEF Levels
<1>2. \A f \in DOMAIN facts : f \in Facts /\ f # "concurrency"
  BY DEF Meant, AllPublished
<1>3. key \in DOMAIN Copied(service, ServiceTable)
  BY DEF NormalizeHTTPService
<1>4. key \in DOMAIN ServiceTable /\ ServiceTable[key] \in DOMAIN service
  BY <1>3, CopiedAt
<1>5. PICK f \in DOMAIN facts : FactTable[f].level = "service" /\ FactTable[f].camel = ServiceTable[key]
  BY <1>1, <1>4
<1>6. FactTable[f].snake = key
  BY <1>2, <1>4, <1>5 DEF Facts, FactTable, ServiceTable
<1>. QED
  BY <1>2, <1>5, <1>6 DEF LevelOf

\* In a check also the kind and the port, which are there if nobody wrote them.
LEMMA OnlyCheckMeant ==
    ASSUME Meant, AllPublished, NEW key \in DOMAIN NormalizeCheck(Raw["check"], Raw["service"])
    PROVE  \/ key \in {"type", "port"}
           \/ \E f \in DOMAIN facts : LevelOf(f, "snake") = "check" /\ FactTable[f].snake = key
<1>. DEFINE check == Raw["check"]
            texts == Copied(check, TimeTable)
            times == [k \in DOMAIN texts |-> DurationSeconds(texts[k])]
            port == Copied(Raw["service"], [port |-> "internalPort"])
<1>. SUFFICES ASSUME key \notin {"type", "port"}
              PROVE  \E f \in DOMAIN facts : LevelOf(f, "snake") = "check" /\ FactTable[f].snake = key
  OBVIOUS
<1>1. \A k \in DOMAIN check : \E f \in DOMAIN facts : FactTable[f].level = "check" /\ FactTable[f].camel = k
  BY PublishedKeys DEF Levels
<1>2. \A f \in DOMAIN facts : f \in Facts /\ f # "concurrency"
  BY DEF Meant, AllPublished
<1>3. DOMAIN times = DOMAIN texts
  OBVIOUS
<1>4. key \notin DOMAIN Single("type", "http") /\ key \notin DOMAIN port
  BY CopiedAt DEF Single
<1>5. NormalizeCheck(check, Raw["service"])
        = Over(times, Over(Copied(check, CheckTable), Over(Single("type", "http"), port)))
  BY DEF NormalizeCheck
<1>. HIDE DEF times, texts, port
<1>6. key \in DOMAIN texts \/ key \in DOMAIN Copied(check, CheckTable)
  BY <1>3, <1>4, <1>5, OverAt
<1>7. \/ key \in DOMAIN TimeTable /\ TimeTable[key] \in DOMAIN check
      \/ key \in DOMAIN CheckTable /\ CheckTable[key] \in DOMAIN check
  BY <1>6, CopiedAt DEF texts
<1>8. CASE key \in DOMAIN TimeTable /\ TimeTable[key] \in DOMAIN check
  <2>1. PICK f \in DOMAIN facts : FactTable[f].level = "check" /\ FactTable[f].camel = TimeTable[key]
    BY <1>1, <1>8
  <2>2. FactTable[f].snake = key
    BY <1>2, <1>8, <2>1 DEF Facts, FactTable, TimeTable
  <2>. QED
    BY <1>2, <2>1, <2>2 DEF LevelOf
<1>9. CASE key \in DOMAIN CheckTable /\ CheckTable[key] \in DOMAIN check
  <2>1. PICK f \in DOMAIN facts : FactTable[f].level = "check" /\ FactTable[f].camel = CheckTable[key]
    BY <1>1, <1>9
  <2>2. CheckTable[key] \in {"intervalSeconds", "timeoutSeconds", "gracePeriodSeconds"}
    BY <1>9 DEF CheckTable
  <2>3. \A g \in Facts : FactTable[g].camel \notin {"intervalSeconds", "timeoutSeconds", "gracePeriodSeconds"}
    BY DEF Facts, FactTable
  <2>. QED
    BY <1>2, <2>1, <2>2, <2>3
<1>. QED
  BY <1>7, <1>8, <1>9

LEMMA ContractedAsItIs ==
    ASSUME Meant
    PROVE  Canonical(Contracted) = Contracted
<1>1. \A f \in DOMAIN facts : f \in Facts
  BY DEF Meant
<1>2. \A f \in Facts :
          FactTable[f].snake \notin {"primaryRegion", "releaseCommand", "secrets", "slack"}
  BY DEF Facts, FactTable
<1>3. "top" \in Levels
  BY DEF Levels
<1>4. ~HasPublishedShape(Contracted)
  BY <1>1, <1>2, <1>3, ContractedFrom DEF HasPublishedShape
<1>. QED
  BY <1>4 DEF Canonical

LEMMA CheckHasBoth ==
    ASSUME NEW check, ValidateCheck(check)
    PROVE  {"type", "port"} \subseteq DOMAIN check
<1>1. "type" \in DOMAIN check
  BY DEF ValidateCheck, Lookup
<1>2. ValidPort(Lookup(check, "port", 0))
  BY DEF ValidateCheck
<1>3. "port" \in DOMAIN check
  BY <1>2 DEF ValidPort, Lookup
<1>. QED
  BY <1>1, <1>3

\* What is accepted in the contract's spelling has no misspelt fact, and its check has a
\* kind and a port.
LEMMA ContractedIsWhole ==
    ASSUME Meant, Renders(Contracted)
    PROVE  /\ "misspelt" \notin DOMAIN facts
           /\ Given(Contracted["check"]) => {"type", "port"} \subseteq DOMAIN Contracted["check"]
<1>1. Decodes(Contracted) /\ ValidateHttpService(Contracted)
  BY ContractedAsItIs DEF Renders, Parses
<1>2. "misspelt" \notin DOMAIN facts
  <2>1. FactTable["misspelt"].snake = "autostart" /\ LevelOf("misspelt", "snake") = "service"
        /\ "service" \in Levels /\ "autostart" \notin ContractKeys["service"]
    BY DEF FactTable, LevelOf, Levels, ContractKeys
  <2>2. DOMAIN Contracted["service"] \subseteq ContractKeys["service"]
    BY <1>1, <2>1 DEF Decodes
  <2>. QED
    BY <2>1, <2>2, ContractedAt
<1>3. ASSUME Given(Contracted["check"])
      PROVE  {"type", "port"} \subseteq DOMAIN Contracted["check"]
  <2>1. FactTable["service"].snake = "http_service" /\ LevelOf("service", "snake") = "process"
        /\ "process" \in Levels
    BY DEF FactTable, LevelOf, Levels
  <2>2. "http_service" \in DOMAIN Contracted["process"]
    BY <2>1, ContractedAt DEF Meant
  <2>3. ValidateCheck(Contracted["check"])
    BY <1>1, <1>3, <2>2 DEF ValidateHttpService
  <2>. QED
    BY <2>3, CheckHasBoth
<1>. QED
  BY <1>2, <1>3

LEMMA AllHeld ==
    ASSUME Meant, AllPublished, "misspelt" \notin DOMAIN facts, NEW f \in DOMAIN facts
    PROVE  Holds(Canonical(Raw), f)
<1>1. f \in Told \/ f \in {"slack", "service", "port"}
  BY DEF Meant, AllPublished, Facts, FactTable, Told, PlaceInGroup, PlaceInService, Times
<1>. QED
  BY <1>1, ToldIsHeld, RestHeld, PublishedIsSeen

LEMMA OnlyMeant ==
    ASSUME Meant, AllPublished, Renders(Contracted),
           NEW level \in Levels, NEW key \in DOMAIN Canonical(Raw)[level]
    PROVE  key \in DOMAIN Contracted[level]
<1>1. HasPublishedShape(Raw)
  BY PublishedIsSeen
<1>2. (\E f \in DOMAIN facts : LevelOf(f, "snake") = level /\ FactTable[f].snake = key)
        => key \in DOMAIN Contracted[level]
  BY ContractedAt
<1>3. CASE level = "top"
  BY <1>1, <1>2, <1>3, Published, OnlyTopMeant
<1>4. CASE level = "process"
  BY <1>1, <1>2, <1>4, Published, OnlyProcessMeant
<1>5. CASE level = "vm"
  BY <1>1, <1>2, <1>5, Published, OnlyVMMeant
<1>6. CASE level = "service"
  BY <1>1, <1>2, <1>6, Published, OnlyServiceMeant
<1>7. CASE level = "check"
  <2>1. CASE Given(Raw["check"])
    <3>1. PICK k \in DOMAIN Raw["check"] : TRUE
      BY <2>1 DEF Given
    <3>2. PICK f \in DOMAIN facts : FactTable[f].level = "check"
      BY <1>7, <3>1, PublishedKeys
    <3>3. LevelOf(f, "snake") = "check"
      BY <3>2 DEF LevelOf, AllPublished
    <3>4. Given(Contracted["check"])
      BY <1>7, <3>3, ContractedAt DEF Given
    <3>. QED
      BY <1>1, <1>2, <1>7, <2>1, <3>4, Published, OnlyCheckMeant, ContractedIsWhole
  <2>2. CASE ~Given(Raw["check"])
    BY <1>1, <1>7, <2>2 DEF Canonical, NormalizePublishedShape, Levels, Nowhere
  <2>. QED
    BY <2>1, <2>2
<1>. QED
  BY <1>3, <1>4, <1>5, <1>6, <1>7 DEF Levels

LEMMA LevelsAreDicts ==
    ASSUME HasPublishedShape(Raw), NEW level \in Levels
    PROVE  Canonical(Raw)[level] = [key \in DOMAIN Canonical(Raw)[level] |-> Canonical(Raw)[level][key]]
<1>1. \A upper, lower : Over(upper, lower)
          = [key \in DOMAIN Over(upper, lower) |-> Over(upper, lower)[key]]
  BY DEF Over
<1>2. CASE level = "service"
  <2>. DEFINE out == Copied(Raw["service"], ServiceTable)
              service == NormalizeHTTPService(Raw["service"])
  <2>1. out = [key \in DOMAIN out |-> out[key]]
    BY DEF Copied
  <2>2. service = IF "auto_stop" \in DOMAIN out THEN [out EXCEPT !["auto_stop"] = StopWord(@)] ELSE out
    BY DEF NormalizeHTTPService
  <2>3. service = [key \in DOMAIN service |-> service[key]]
    <3>. HIDE DEF out, service
    <3>. QED
      BY <2>1, <2>2
  <2>. QED
    BY <1>2, <2>3, Published
<1>3. CASE level = "check" /\ ~Given(Raw["check"])
  BY <1>3 DEF Canonical, NormalizePublishedShape, Levels, Nowhere
<1>4. CASE level = "check" /\ Given(Raw["check"])
  BY <1>1, <1>4, Published DEF NormalizeCheck
<1>5. CASE level \in {"top", "process", "vm"}
  BY <1>1, <1>5, Published DEF NormalizeTop, NormalizeProcess, NormalizeVM
<1>. QED
  BY <1>2, <1>3, <1>4, <1>5 DEF Levels

LEMMA NormalizedIsContracted ==
    ASSUME Meant, AllPublished, Renders(Contracted)
    PROVE  Canonical(Raw) = Contracted
<1>1. HasPublishedShape(Raw) /\ "misspelt" \notin DOMAIN facts
  BY PublishedIsSeen, ContractedIsWhole
<1>2. ASSUME NEW level \in Levels
      PROVE  Canonical(Raw)[level] = Contracted[level]
  <2>. DEFINE mine == Canonical(Raw)[level]
              theirs == Contracted[level]
  <2>1. \A key \in DOMAIN theirs : key \in DOMAIN mine /\ mine[key] = theirs[key]
    <3>. TAKE key \in DOMAIN theirs
    <3>1. PICK f \in DOMAIN facts : LevelOf(f, "snake") = level /\ FactTable[f].snake = key
      BY ContractedFrom
    <3>2. theirs[key] = facts[f]
      BY <3>1, ContractedAt
    <3>3. Holds(Canonical(Raw), f)
      BY <1>1, AllHeld
    <3>. QED
      BY <3>1, <3>2, <3>3 DEF Holds
  <2>2. DOMAIN mine \subseteq DOMAIN theirs
    BY OnlyMeant
  <2>3. mine = [key \in DOMAIN mine |-> mine[key]] /\ theirs = [key \in DOMAIN theirs |-> theirs[key]]
    BY <1>1, LevelsAreDicts, ContractedHolds
  <2>. HIDE DEF mine, theirs
  <2>4. DOMAIN mine = DOMAIN theirs
    BY <2>1, <2>2
  <2>5. mine = theirs
    BY <2>1, <2>3, <2>4
  <2>. QED
    BY <2>5 DEF mine, theirs
<1>3. Canonical(Raw) = [level \in Levels |-> Canonical(Raw)[level]]
  <2>1. Canonical(Raw) = NormalizePublishedShape(Raw)
    BY <1>1 DEF Canonical
  <2>2. NormalizePublishedShape(Raw) = [level \in Levels |-> NormalizePublishedShape(Raw)[level]]
    BY DEF NormalizePublishedShape, Levels
  <2>. QED
    BY <2>1, <2>2
<1>4. Contracted = [level \in Levels |-> Contracted[level]]
  BY DEF Contracted, RawIn
<1>. HIDE DEF Contracted
<1>. QED
  BY <1>2, <1>3, <1>4

LEMMA PublishedIsAccepted ==
    ASSUME Meant, AllPublished, Renders(Contracted)
    PROVE  Renders(Raw) /\ Rendered(Raw) = Rendered(Contracted)
<1>1. Canonical(Raw) = Contracted /\ Canonical(Contracted) = Contracted
  BY NormalizedIsContracted, ContractedAsItIs
<1>2. OnlyKnownKeys(Raw)
  <2>1. \A f \in DOMAIN facts : f \in Facts
    BY DEF Meant
  <2>2. \A f \in Facts :
          /\ FactTable[f].level = "top" => FactTable[f].camel \in Range(TopTable)
          /\ FactTable[f].level = "process" => FactTable[f].camel \in Range(ProcessTable)
    <3>1. {"slack", "primaryRegion", "secrets"} \subseteq Range(TopTable)
      BY DEF Range, TopTable
    <3>2. {"machineGroup", "httpService"} \subseteq Range(ProcessTable)
      BY DEF Range, ProcessTable
    <3>. QED
      BY <3>1, <3>2 DEF Facts, FactTable
  <2>3. "top" \in Levels /\ "process" \in Levels
    BY DEF Levels
  <2>. QED
    BY <2>1, <2>2, <2>3, PublishedKeys DEF OnlyKnownKeys
<1>3. "cpus" \in DOMAIN Raw["vm"] \/ Lookup(Raw["vm"], "size", 1) >= 1
  <2>. SUFFICES ASSUME "size" \in DOMAIN Raw["vm"]
                PROVE  Raw["vm"]["size"] >= 1
    BY DEF Lookup
  <2>1. "vm" \in Levels /\ FactTable["cpus"].level = "vm" /\ FactTable["cpus"].camel = "size"
        /\ FactTable["cpus"].snake = "cpus" /\ LevelOf("cpus", "snake") = "vm" /\ ~SameKey("cpus")
    BY DEF Levels, FactTable, LevelOf, SameKey
  <2>2. "cpus" \in DOMAIN facts
    <3>1. PICK f \in DOMAIN facts : FactTable[f].camel = "size"
      BY <2>1, PublishedKeys
    <3>2. f \in Facts
      BY DEF Meant
    <3>. QED
      BY <3>1, <3>2 DEF Facts, FactTable
  <2>3. Raw["vm"]["size"] = facts["cpus"]
    <3>1. InText("cpus", "camel", facts["cpus"]) = facts["cpus"]
      BY DEF InText, Times
    <3>. QED
      BY <2>1, <2>2, <3>1, PublishedIsSeen, WrittenPublished
  <2>4. "cpus" \in DOMAIN Contracted["vm"] /\ Contracted["vm"]["cpus"] = facts["cpus"]
    BY <2>1, <2>2, ContractedAt
  <2>5. Contracted["vm"]["cpus"] >= 1
    BY <1>1, <2>4 DEF Renders, ValidateProcess, Given, Lookup
  <2>. QED
    BY <2>3, <2>4, <2>5
<1>4. Parses(Raw)
  BY <1>1, <1>2, <1>3 DEF Parses, Renders
<1>. QED
  BY <1>1, <1>4 DEF Renders, Rendered

\* "A camelCase shape [...] is accepted and normalized to the canonical snake_case form"
\* (docs/metadata-fly.md:82-83): for a document all in camelCase that has one of the
\* keys the shape is known by, this is true, and its plan is that of the canonical form,
\* unless its service has a concurrency.  CamelIsAccepted fails for these two reasons only.
THEOREM CamelMeansTheSame ==
    AuthorSpec => [](AllPublished /\ Renders(Contracted) =>
                        Renders(Raw) /\ Rendered(Raw) = Rendered(Contracted))
<1>1. AuthorInv => (AllPublished /\ Renders(Contracted) =>
                        Renders(Raw) /\ Rendered(Raw) = Rendered(Contracted))
  BY PublishedIsAccepted DEF AuthorInv
<1>. QED
  BY AuthorBegins, AuthorStep, <1>1, PTL DEF AuthorSpec
=============================================================================
