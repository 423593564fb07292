--------------------------- MODULE PlannerProofs ---------------------------
(***************************************************************************)
(* Facts about Diff for every plan and every fleet.                        *)
(***************************************************************************)
EXTENDS Planner, FiniteSetTheorems, WellFoundedInduction, TLAPS

LEMMA DiffParts ==
    ASSUME NEW desired, NEW live, NEW c
    PROVE  c \in Diff(desired, live) <=>
            \/ c \in Orphans(desired, live)
            \/ \E g \in DOMAIN desired : c \in GroupChanges(desired[g], live, g)
  BY Zenon DEF Diff

(***************************************************************************)
(* Whatever Diff does to a machine, that machine is live and a member of   *)
(* the change's group, never an unmanaged one.                             *)
(***************************************************************************)
LEMMA DiffIsManaged ==
    ASSUME NEW desired, NEW live, DOMAIN desired \subseteq Int,
           NEW c \in Diff(desired, live), c.action # "create"
    PROVE  /\ c.id \in DOMAIN live
           /\ live[c.id].group = c.group
           /\ c.group # NoGroup
<1>1. CASE c \in Orphans(desired, live)
  BY <1>1 DEF Orphans
<1>2. CASE \E g \in DOMAIN desired : c \in GroupChanges(desired[g], live, g)
  <2>1. PICK g \in DOMAIN desired : c \in GroupChanges(desired[g], live, g)
    BY <1>2
  <2>2. g # NoGroup
    BY NoGroupAssumption
  <2>3. c \notin Missing(desired[g], live, g)
    BY DEF Missing
  <2>4. \E m \in Members(live, g) : c.group = g /\ c.id = m
    <3>1. CASE c \in Kept(desired[g], live, g)
      BY <3>1 DEF Kept
    <3>2. CASE c \in Excess(desired[g], live, g)
      BY <3>2 DEF Excess
    <3>. QED
      BY <2>1, <2>3, <3>1, <3>2 DEF GroupChanges
  <2>. QED
    BY <2>2, <2>4 DEF Members
<1>. QED
  BY <1>1, <1>2, DiffParts

(***************************************************************************)
(* Only the deletes of groups the plan dropped name a group outside it.    *)
(***************************************************************************)
LEMMA DiffShape ==
    ASSUME NEW desired, NEW live, NEW c \in Diff(desired, live)
    PROVE  /\ c = [action |-> c.action, group |-> c.group, id |-> c.id]
           /\ c.action \in Actions
           /\ c.action # "delete" => c.group \in DOMAIN desired
           /\ c.action = "create" => c.id \in Int
<1>1. CASE c \in Orphans(desired, live)
  BY <1>1 DEF Orphans, Actions
<1>2. ASSUME NEW g \in DOMAIN desired, c \in GroupChanges(desired[g], live, g)
      PROVE  /\ c = [action |-> c.action, group |-> c.group, id |-> c.id]
             /\ c.action \in Actions
             /\ c.group = g
             /\ c.action = "create" => c.id \in Int
  BY <1>2 DEF GroupChanges, Kept, Missing, Excess, KeepAction, Actions
<1>. QED
  BY <1>1, <1>2, DiffParts

-----------------------------------------------------------------------------
(***************************************************************************)
(* With finitely many machines the two limits of the kept and the excess   *)
(* machines of a group are the same number, so every member falls on       *)
(* exactly one side of it.                                                 *)
(***************************************************************************)
LEMMA LimitsAgree ==
    ASSUME NEW n \in Nat, NEW max \in Nat
    PROVE  /\ ManagedCount(n, max) = DeleteFrom(n, max)
           /\ ManagedCount(n, max) \in Nat
  BY DEF ManagedCount, DeleteFrom

LEMMA MembersFinite ==
    ASSUME NEW live, IsFiniteSet(DOMAIN live), NEW g, NEW m
    PROVE  /\ Cardinality(Members(live, g)) \in Nat
           /\ Place(m, Members(live, g)) \in Nat
<1>1. IsFiniteSet(Members(live, g))
  BY FS_Subset DEF Members
<1>2. IsFiniteSet({x \in Members(live, g) : x < m})
  BY <1>1, FS_Subset
<1>. QED
  BY <1>1, <1>2, FS_CardinalityType DEF Place

\* The plans Diff accepts, as far as these facts need it.
Sized(desired) ==
    /\ DOMAIN desired \subseteq Int
    /\ \A g \in DOMAIN desired : desired[g].max \in Nat

(***************************************************************************)
(* Every managed machine is the subject of a change ...                    *)
(***************************************************************************)
LEMMA DiffCovers ==
    ASSUME NEW desired, NEW live, IsFiniteSet(DOMAIN live), Sized(desired),
           NEW m \in DOMAIN live, live[m].group # NoGroup
    PROVE  \E c \in Diff(desired, live) : c.action # "create" /\ c.id = m
<1>. DEFINE g == live[m].group
            ms == Members(live, g)
<1>1. CASE g \notin DOMAIN desired
  <2>. DEFINE c == [action |-> "delete", group |-> g, id |-> m]
  <2>1. c \in Orphans(desired, live)
    BY <1>1 DEF Orphans
  <2>. QED
    BY <2>1, DiffParts
<1>2. CASE g \in DOMAIN desired
  <2>1. m \in ms
    BY DEF Members
  <2>2. /\ ManagedCount(Cardinality(ms), desired[g].max) \in Nat
        /\ ManagedCount(Cardinality(ms), desired[g].max)
             = DeleteFrom(Cardinality(ms), desired[g].max)
        /\ Place(m, ms) \in Nat
    BY <1>2, MembersFinite, LimitsAgree DEF Sized
  <2>3. CASE Place(m, ms) < ManagedCount(Cardinality(ms), desired[g].max)
    <3>. DEFINE c == [action |-> KeepAction(live[m], desired[g]), group |-> g, id |-> m]
    <3>1. c \in Kept(desired[g], live, g)
      BY <2>1, <2>3 DEF Kept
    <3>2. c.action # "create"
      BY DEF KeepAction
    <3>. QED
      BY <1>2, <3>1, <3>2, DiffParts DEF GroupChanges
  <2>4. CASE Place(m, ms) >= DeleteFrom(Cardinality(ms), desired[g].max)
    <3>. DEFINE c == [action |-> "delete", group |-> g, id |-> m]
    <3>1. c \in Excess(desired[g], live, g)
      BY <2>1, <2>4 DEF Excess
    <3>. QED
      BY <1>2, <3>1, DiffParts DEF GroupChanges
  <2>. QED
    BY <2>2, <2>3, <2>4
<1>. QED
  BY <1>1, <1>2

(***************************************************************************)
(* ... and of no more than one.                                            *)
(***************************************************************************)
LEMMA DiffChoosesOne ==
    ASSUME NEW desired, NEW live, IsFiniteSet(DOMAIN live), Sized(desired),
           NEW c \in Diff(desired, live), c.action # "create",
           NEW d \in Diff(desired, live), d.action # "create", c.id = d.id
    PROVE  c = d
<1>. DEFINE g == live[c.id].group
            ms == Members(live, g)
<1>1. g = c.group /\ g = d.group /\ g # NoGroup
  BY DiffIsManaged DEF Sized
<1>2. CASE g \notin DOMAIN desired
  <2>1. ASSUME NEW h \in DOMAIN desired, NEW e \in GroupChanges(desired[h], live, h)
        PROVE  e.group = h
    BY <2>1 DEF GroupChanges, Kept, Missing, Excess
  <2>2. ASSUME NEW e \in Diff(desired, live), e.group = g
        PROVE  e \in Orphans(desired, live)
    BY <1>2, <2>1, <2>2, DiffParts
  <2>3. c \in Orphans(desired, live)
    BY <1>1, <2>2
  <2>4. d \in Orphans(desired, live)
    BY <1>1, <2>2
  <2>. QED
    BY <2>3, <2>4 DEF Orphans
<1>3. CASE g \in DOMAIN desired
  <2>. DEFINE limit == ManagedCount(Cardinality(ms), desired[g].max)
  <2>1. /\ limit \in Nat
        /\ limit = DeleteFrom(Cardinality(ms), desired[g].max)
        /\ Place(c.id, ms) \in Nat
    BY <1>3, MembersFinite, LimitsAgree DEF Sized
  <2>2. ASSUME NEW e \in Diff(desired, live), e.action # "create", e.group = g, e.id = c.id
        PROVE  \/ /\ Place(c.id, ms) < limit
                  /\ e = [action |-> KeepAction(live[c.id], desired[g]), group |-> g, id |-> c.id]
               \/ /\ Place(c.id, ms) >= limit
                  /\ e = [action |-> "delete", group |-> g, id |-> c.id]
    <3>1. e \notin Orphans(desired, live)
      BY <1>3, <2>2 DEF Orphans
    <3>2. PICK h \in DOMAIN desired : e \in GroupChanges(desired[h], live, h)
      BY <3>1, DiffParts
    <3>3. h = g
      BY <2>2, <3>2 DEF GroupChanges, Kept, Missing, Excess
    <3>4. e \notin Missing(desired[g], live, g)
      BY <2>2 DEF Missing
    <3>5. CASE e \in Kept(desired[g], live, g)
      BY <2>2, <3>5 DEF Kept
    <3>6. CASE e \in Excess(desired[g], live, g)
      BY <2>1, <2>2, <3>6 DEF Excess
    <3>. QED
      BY <3>2, <3>3, <3>4, <3>5, <3>6 DEF GroupChanges
  <2>. HIDE DEF limit, g, ms
  <2>3. \/ /\ Place(c.id, ms) < limit
           /\ c = [action |-> KeepAction(live[c.id], desired[g]), group |-> g, id |-> c.id]
        \/ /\ Place(c.id, ms) >= limit
           /\ c = [action |-> "delete", group |-> g, id |-> c.id]
    BY <1>1, <2>2
  <2>4. \/ /\ Place(c.id, ms) < limit
           /\ d = [action |-> KeepAction(live[c.id], desired[g]), group |-> g, id |-> c.id]
        \/ /\ Place(c.id, ms) >= limit
           /\ d = [action |-> "delete", group |-> g, id |-> c.id]
    BY <1>1, <2>2
  <2>. QED
    BY <2>1, <2>3, <2>4
<1>. QED
  BY <1>2, <1>3
-----------------------------------------------------------------------------
(***************************************************************************)
(* Counting.  The members with a place below a limit are as many as the    *)
(* limit says: this is what makes min and max of a group mean anything.    *)
(***************************************************************************)
LEMMA NatLeast ==
    ASSUME NEW N \in SUBSET Nat, N # {}
    PROVE  \E n \in N : \A k \in N : n <= k
<1>1. PICK n \in N : \A k \in N : ~(<<k, n>> \in OpToRel(<, Nat))
  BY NatLessThanWellFounded, WFMin
<1>2. \A k \in N : <<k, n>> \in OpToRel(<, Nat) <=> k < n
  BY DEF OpToRel
<1>3. \A k \in N : ~(k < n)
  BY <1>1, <1>2
<1>4. \A k \in N : n <= k
  BY <1>3
<1>. QED
  BY <1>4

LEMMA PlaceGrows ==
    ASSUME NEW S \in SUBSET Int, IsFiniteSet(S), NEW x \in S, NEW y \in S, x < y
    PROVE  /\ Place(x, S) \in Nat /\ Place(y, S) \in Nat
           /\ Place(x, S) < Place(y, S)
<1>. DEFINE X == {z \in S : z < x}
            Y == {z \in S : z < y}
<1>1. IsFiniteSet(X) /\ IsFiniteSet(Y)
  BY FS_Subset
<1>2. X \subseteq Y /\ x \in Y /\ x \notin X
  <2>1. \A z \in S : z < x => z < y
    OBVIOUS
  <2>2. ~(x < x)
    OBVIOUS
  <2>. QED
    BY <2>1, <2>2
<1>3. Cardinality(X) <= Cardinality(Y) /\ Cardinality(X) # Cardinality(Y)
  BY <1>1, <1>2, FS_Subset
<1>4. Cardinality(X) \in Nat /\ Cardinality(Y) \in Nat
  BY <1>1, FS_CardinalityType
<1>. QED
  BY <1>3, <1>4 DEF Place

LEMMA PlaceType ==
    ASSUME NEW S \in SUBSET Int, IsFiniteSet(S), NEW x
    PROVE  Place(x, S) \in Nat
  BY FS_Subset, FS_CardinalityType DEF Place

LEMMA Lowest ==
    ASSUME NEW S \in SUBSET Int, IsFiniteSet(S), S # {}
    PROVE  \E x \in S : \A y \in S : x <= y
<1>. DEFINE N == {Place(x, S) : x \in S}
<1>1. N \in SUBSET Nat /\ N # {}
  BY PlaceType
<1>. HIDE DEF N
<1>2. PICK n \in N : \A k \in N : n <= k
  BY <1>1, NatLeast
<1>3. PICK x \in S : n = Place(x, S)
  BY <1>2 DEF N
<1>4. ASSUME NEW y \in S, y < x PROVE FALSE
  <2>1. Place(y, S) < Place(x, S) /\ Place(y, S) \in Nat /\ Place(x, S) \in Nat
    BY <1>4, PlaceGrows
  <2>2. Place(y, S) \in N
    BY DEF N
  <2>. QED
    BY <1>2, <1>3, <2>1, <2>2
<1>. QED
  BY <1>4

LEMMA Highest ==
    ASSUME NEW S \in SUBSET Int, IsFiniteSet(S), S # {}
    PROVE  \E x \in S : \A y \in S : y <= x
<1>. DEFINE f == [x \in S |-> 0 - x]
            T == {0 - x : x \in S}
<1>1. T \in SUBSET Int /\ T # {}
  <2>1. \A x \in S : 0 - x \in Int
    OBVIOUS
  <2>. QED
    BY <2>1
<1>2. f \in Surjection(S, T)
  BY DEF Surjection
<1>3. IsFiniteSet(T)
  BY <1>2, FS_Surjection
<1>. HIDE DEF T
<1>4. PICK t \in T : \A u \in T : t <= u
  BY <1>1, <1>3, Lowest
<1>5. PICK x \in S : t = 0 - x
  BY <1>4 DEF T
<1>6. \A y \in S : 0 - x <= 0 - y
  BY <1>4, <1>5 DEF T
<1>. QED
  BY <1>6

LEMMA CountLowest ==
    ASSUME NEW S \in SUBSET Int, IsFiniteSet(S), NEW k \in Nat, k <= Cardinality(S)
    PROVE  LET T == {x \in S : Place(x, S) < k}
           IN  IsFiniteSet(T) /\ Cardinality(T) = k
<1>. DEFINE T == {x \in S : Place(x, S) < k}
<1>. \A x \in S : x \in Int
  OBVIOUS
<1>1. /\ IsFiniteSet(T) /\ Cardinality(T) \in Nat /\ T \subseteq S
      /\ Cardinality(S) \in Nat
  <2>1. IsFiniteSet(T)
    BY FS_Subset
  <2>. QED
    BY <2>1, FS_CardinalityType
<1>2. \A x \in T : \A y \in S : y < x => y \in T
  <2>. SUFFICES ASSUME NEW x \in T, NEW y \in S, y < x PROVE y \in T
    OBVIOUS
  <2>1. Place(y, S) < Place(x, S) /\ Place(y, S) \in Nat /\ Place(x, S) \in Nat
    BY PlaceGrows
  <2>. QED
    BY <2>1
<1>3. Cardinality(T) <= k
  <2>1. CASE T = {}
    BY <2>1, FS_EmptySet
  <2>2. CASE T # {}
    <3>1. PICK x \in T : \A y \in T : y <= x
      <4>. HIDE DEF T
      <4>. QED
        BY <1>1, <2>2, Highest
    <3>2. {y \in S : y < x} = T \ {x}
      <4>1. ~(x < x)
        OBVIOUS
      <4>2. \A y \in T : y # x => y < x
        BY <3>1
      <4>. QED
        BY <1>1, <1>2, <4>1, <4>2
    <3>3. Place(x, S) = Cardinality(T) - 1
      <4>. HIDE DEF T
      <4>. QED
        BY <1>1, <3>1, <3>2, FS_RemoveElement DEF Place
    <3>4. Place(x, S) < k
      BY <3>1
    <3>. HIDE DEF T
    <3>. QED
      BY <1>1, <3>3, <3>4
  <2>. QED
    BY <2>1, <2>2
<1>4. Cardinality(T) >= k
  <2>1. CASE T = S
    BY <2>1
  <2>2. CASE T # S
    <3>. DEFINE R == S \ T
    <3>1. R \in SUBSET Int /\ IsFiniteSet(R) /\ R # {}
      <4>1. IsFiniteSet(R)
        BY FS_Difference
      <4>2. R # {}
        BY <1>1, <2>2
      <4>. QED
        BY <4>1, <4>2
    <3>2. PICK x \in R : \A y \in R : x <= y
      <4>. HIDE DEF R
      <4>. QED
        BY <3>1, Lowest
    <3>3. {y \in S : y < x} = T
      <4>1. ASSUME NEW y \in T PROVE y < x
        <5>1. x \in S /\ x \notin T /\ y \in S /\ x \in Int /\ y \in Int
          BY <3>2
        <5>2. ~(x < y)
          BY <1>2, <5>1, <4>1
        <5>3. x # y
          BY <5>1, <4>1
        <5>. QED
          BY <5>1, <5>2, <5>3
      <4>2. ASSUME NEW y \in S, y < x PROVE y \in T
        BY <3>2, <4>2
      <4>. QED
        BY <1>1, <4>1, <4>2
    <3>4. Place(x, S) = Cardinality(T)
      BY <3>3 DEF Place
    <3>5. ~(Place(x, S) < k)
      BY <3>2
    <3>. HIDE DEF T, R
    <3>. QED
      BY <1>1, <3>4, <3>5
  <2>. QED
    BY <2>1, <2>2
<1>. QED
  BY <1>1, <1>3, <1>4

\* The machines that a set of changes removes, and the changes that bring a
\* group one machine more.
Leaving(changes) == {c.id : c \in {d \in changes : d.action \in {"delete", "replace"}}}

Coming(changes, g) == {c \in changes : c.group = g /\ c.action \in {"create", "replace"}}

LEMMA MissingCount ==
    ASSUME NEW spec, NEW live, NEW g, spec.min \in Int,
           Cardinality(Members(live, g)) \in Nat
    PROVE  LET n == Cardinality(Members(live, g))
           IN  /\ IsFiniteSet(Missing(spec, live, g))
               /\ Cardinality(Missing(spec, live, g)) =
                    IF n < spec.min THEN spec.min - n ELSE 0
<1>. DEFINE n == Cardinality(Members(live, g))
            I == n .. (spec.min - 1)
            f == [slot \in I |-> [action |-> "create", group |-> g, id |-> slot]]
<1>1. f \in Bijection(I, Missing(spec, live, g))
  <2>1. f \in Surjection(I, Missing(spec, live, g))
    BY DEF Missing, Surjection
  <2>2. \A a, b \in I : f[a] = f[b] => a = b
    <3>1. \A a \in I : f[a].id = a
      OBVIOUS
    <3>. QED
      BY <3>1
  <2>. QED
    BY <2>1, <2>2 DEF Surjection, Injection, IsInjective, Bijection
<1>2. IsFiniteSet(I) /\ Cardinality(I) = IF n < spec.min THEN spec.min - n ELSE 0
  BY FS_Interval
<1>3. ExistsBijection(I, Missing(spec, live, g))
  BY <1>1 DEF ExistsBijection
<1>. HIDE DEF I
<1>. QED
  BY <1>2, <1>3, FS_Bijection

(***************************************************************************)
(* Carrying out all changes leaves a group with no fewer machines than its *)
(* minimum and no more than its maximum: the members that no change        *)
(* removes, and one more for every change that creates one.                *)
(***************************************************************************)
LEMMA DiffCounts ==
    ASSUME NEW desired, NEW live, DOMAIN live \subseteq Int, IsFiniteSet(DOMAIN live),
           Sized(desired), NEW g \in DOMAIN desired,
           desired[g].min \in Int, desired[g].min <= desired[g].max
    PROVE  LET staying == Members(live, g) \ Leaving(Diff(desired, live))
               coming == Coming(Diff(desired, live), g)
           IN  /\ IsFiniteSet(staying) /\ IsFiniteSet(coming)
               /\ Cardinality(staying) + Cardinality(coming) \in desired[g].min .. desired[g].max
<1>. DEFINE spec == desired[g]
            ms == Members(live, g)
            n == Cardinality(ms)
            limit == ManagedCount(n, spec.max)
            T == {x \in ms : Place(x, ms) < limit}
            R == {x \in T : KeepAction(live[x], spec) = "replace"}
            replace(x) == [action |-> "replace", group |-> g, id |-> x]
            Q == {replace(x) : x \in R}
            M == Missing(spec, live, g)
            staying == ms \ Leaving(Diff(desired, live))
            coming == Coming(Diff(desired, live), g)
<1>1. /\ ms \in SUBSET Int /\ IsFiniteSet(ms) /\ n \in Nat
      /\ spec.min \in Int /\ spec.max \in Nat
      /\ limit \in Nat /\ limit <= n /\ limit = DeleteFrom(n, spec.max)
  <2>1. ms \in SUBSET Int /\ IsFiniteSet(ms)
    BY FS_Subset DEF Members
  <2>2. n \in Nat
    BY <2>1, FS_CardinalityType
  <2>3. spec.max \in Nat
    BY DEF Sized
  <2>. QED
    BY <2>1, <2>2, <2>3 DEF ManagedCount, DeleteFrom
<1>2. IsFiniteSet(T) /\ Cardinality(T) = limit
  <2>. HIDE DEF ms, limit
  <2>. QED
    BY <1>1, CountLowest DEF n
<1>3. ASSUME NEW c \in Diff(desired, live), c.group = g
      PROVE  \/ c \in M
             \/ c.id \in T /\ c = [action |-> KeepAction(live[c.id], spec), group |-> g, id |-> c.id]
             \/ c.id \in ms \ T /\ c = [action |-> "delete", group |-> g, id |-> c.id]
  <2>1. c \notin Orphans(desired, live)
    BY <1>3 DEF Orphans
  <2>2. PICK h \in DOMAIN desired : c \in GroupChanges(desired[h], live, h)
    BY <2>1, DiffParts
  <2>3. h = g
    BY <1>3, <2>2 DEF GroupChanges, Kept, Missing, Excess
  <2>4. CASE c \in Kept(spec, live, g)
    BY <2>4 DEF Kept
  <2>5. CASE c \in Excess(spec, live, g)
    <3>1. PICK m \in ms : /\ Place(m, ms) >= limit
                          /\ c = [action |-> "delete", group |-> g, id |-> m]
      BY <1>1, <2>5 DEF Excess
    <3>2. Place(m, ms) \in Nat
      BY <1>1, PlaceType
    <3>3. m \notin T
      BY <1>1, <3>1, <3>2
    <3>. QED
      BY <3>1, <3>3
  <2>. QED
    BY <2>2, <2>3, <2>4, <2>5 DEF GroupChanges
<1>4. ASSUME NEW x \in T
      PROVE  [action |-> KeepAction(live[x], spec), group |-> g, id |-> x] \in Diff(desired, live)
  <2>1. [action |-> KeepAction(live[x], spec), group |-> g, id |-> x] \in Kept(spec, live, g)
    BY <1>4 DEF Kept
  <2>. QED
    BY <2>1, DiffParts DEF GroupChanges
<1>5. ASSUME NEW x \in ms \ T
      PROVE  [action |-> "delete", group |-> g, id |-> x] \in Diff(desired, live)
  <2>1. Place(x, ms) >= limit
    BY <1>1, PlaceType
  <2>2. [action |-> "delete", group |-> g, id |-> x] \in Excess(spec, live, g)
    BY <1>1, <2>1 DEF Excess
  <2>. QED
    BY <2>2, DiffParts DEF GroupChanges
<1>6. M \subseteq Diff(desired, live)
  BY DiffParts DEF GroupChanges
<1>7. staying = T \ R
  <2>1. ASSUME NEW x \in ms \ T PROVE x \in Leaving(Diff(desired, live))
    <3>. DEFINE d == [action |-> "delete", group |-> g, id |-> x]
    <3>1. d \in Diff(desired, live) /\ d.action = "delete" /\ d.id = x
      BY <1>5, <2>1
    <3>. HIDE DEF d
    <3>. QED
      BY <3>1 DEF Leaving
  <2>2. ASSUME NEW x \in R PROVE x \in Leaving(Diff(desired, live))
    <3>1. replace(x) \in Diff(desired, live)
      BY <1>4, <2>2
    <3>. QED
      BY <3>1 DEF Leaving
  <2>3. ASSUME NEW x \in T, x \in Leaving(Diff(desired, live)) PROVE x \in R
    <3>1. PICK c \in Diff(desired, live) : c.action \in {"delete", "replace"} /\ c.id = x
      BY <2>3 DEF Leaving
    <3>2. c.group = g
      BY <2>3, <3>1, DiffIsManaged DEF Sized, Members
    <3>3. c \notin M
      BY <3>1 DEF Missing
    <3>4. c.action = KeepAction(live[x], spec)
      BY <1>3, <2>3, <3>1, <3>2, <3>3
    <3>5. KeepAction(live[x], spec) # "delete"
      BY DEF KeepAction
    <3>. QED
      BY <2>3, <3>1, <3>4, <3>5
  <2>. QED
    BY <2>1, <2>2, <2>3
<1>8. coming = M \cup Q
  <2>1. ASSUME NEW c \in coming PROVE c \in M \cup Q
    <3>1. c \in Diff(desired, live) /\ c.group = g /\ c.action \in {"create", "replace"}
      BY <2>1 DEF Coming
    <3>2. CASE c.id \in T /\ c = [action |-> KeepAction(live[c.id], spec), group |-> g, id |-> c.id]
      <4>1. KeepAction(live[c.id], spec) = c.action
        BY <3>2
      <4>2. KeepAction(live[c.id], spec) # "create"
        BY DEF KeepAction
      <4>3. c.id \in R
        BY <3>1, <3>2, <4>1, <4>2
      <4>4. c = replace(c.id)
        BY <3>1, <3>2, <4>1, <4>2
      <4>. QED
        BY <4>3, <4>4
    <3>3. ~(c = [action |-> "delete", group |-> g, id |-> c.id])
      BY <3>1
    <3>. QED
      BY <1>3, <3>1, <3>2, <3>3
  <2>2. ASSUME NEW c \in M PROVE c \in coming
    BY <1>6, <2>2 DEF Missing, Coming
  <2>3. ASSUME NEW x \in R PROVE replace(x) \in coming
    BY <1>4, <2>3 DEF Coming
  <2>. QED
    BY <2>1, <2>2, <2>3
<1>9. IsFiniteSet(Q) /\ Cardinality(Q) = Cardinality(R) /\ IsFiniteSet(R)
  <2>. DEFINE f == [x \in R |-> replace(x)]
  <2>1. IsFiniteSet(R)
    BY <1>2, FS_Subset
  <2>2. f \in Surjection(R, Q)
    BY DEF Surjection
  <2>3. \A a \in R : f[a].id = a
    OBVIOUS
  <2>4. f \in Bijection(R, Q)
    BY <2>2, <2>3 DEF Surjection, Injection, IsInjective, Bijection
  <2>5. ExistsBijection(R, Q)
    BY <2>4 DEF ExistsBijection
  <2>. HIDE DEF R, Q
  <2>. QED
    BY <2>1, <2>5, FS_Bijection
<1>10. IsFiniteSet(M) /\ Cardinality(M) = IF n < spec.min THEN spec.min - n ELSE 0
  BY <1>1, MissingCount
<1>11. M \cap Q = {}
  BY DEF Missing
<1>12. IsFiniteSet(staying) /\ Cardinality(staying) = limit - Cardinality(R)
  <2>1. T \cap R = R
    OBVIOUS
  <2>. HIDE DEF T, R, staying
  <2>2. IsFiniteSet(T \ R) /\ Cardinality(T \ R) = Cardinality(T) - Cardinality(T \cap R)
    BY <1>2, FS_Difference
  <2>. QED
    BY <1>2, <1>7, <2>1, <2>2
<1>13. IsFiniteSet(coming) /\ Cardinality(coming) = Cardinality(M) + Cardinality(R)
  <2>1. /\ Cardinality(M) \in Nat /\ Cardinality(R) \in Nat
    BY <1>9, <1>10, FS_CardinalityType
  <2>. HIDE DEF M, Q, R, coming
  <2>2. IsFiniteSet(M \cup Q) /\ Cardinality(M \cup Q) = Cardinality(M) + Cardinality(Q) - Cardinality(M \cap Q)
    BY <1>9, <1>10, FS_Union
  <2>3. Cardinality(M \cap Q) = 0
    BY <1>11, FS_EmptySet
  <2>. QED
    BY <1>8, <1>9, <2>1, <2>2, <2>3
<1>14. Cardinality(R) \in Nat
  BY <1>9, FS_CardinalityType
<1>15. Cardinality(staying) + Cardinality(coming) = limit + (IF n < spec.min THEN spec.min - n ELSE 0)
  <2>. HIDE DEF staying, coming, M, R, limit, n, spec
  <2>. QED
    BY <1>1, <1>10, <1>12, <1>13, <1>14
<1>16. limit = IF spec.max = 0 \/ n > spec.max THEN spec.max ELSE n
  BY DEF ManagedCount
<1>17. limit + (IF n < spec.min THEN spec.min - n ELSE 0) \in spec.min .. spec.max
  <2>. HIDE DEF limit, n
  <2>. QED
    BY <1>1, <1>16
<1>. QED
  BY <1>12, <1>13, <1>15, <1>17

(***************************************************************************)
(* When every group is within its bounds, all its machines are up to date, *)
(* and no other group is left, Diff finds nothing to do.                   *)
(***************************************************************************)
LEMMA NothingToDo ==
    ASSUME NEW desired, NEW live, DOMAIN live \subseteq Int, IsFiniteSet(DOMAIN live),
           Sized(desired),
           \A g \in DOMAIN desired :
                /\ desired[g].min \in Int
                /\ Cardinality(Members(live, g)) \in desired[g].min .. desired[g].max,
           \A m \in DOMAIN live :
                /\ live[m].group \in DOMAIN desired \cup {NoGroup}
                /\ live[m].group \in DOMAIN desired => UpToDate(live[m], desired[live[m].group])
    PROVE  InSync(desired, live)
<1>. SUFFICES ASSUME NEW c \in Diff(desired, live) PROVE c.action = "noop"
  BY DEF InSync
<1>1. c \notin Orphans(desired, live)
  BY DEF Orphans
<1>2. PICK g \in DOMAIN desired : c \in GroupChanges(desired[g], live, g)
  BY <1>1, DiffParts
<1>. DEFINE ms == Members(live, g)
            n == Cardinality(ms)
<1>3. /\ ms \in SUBSET Int /\ IsFiniteSet(ms) /\ n \in Nat
      /\ desired[g].min \in Int /\ desired[g].max \in Nat
      /\ desired[g].min <= n /\ n <= desired[g].max
  <2>1. ms \in SUBSET Int /\ IsFiniteSet(ms)
    BY FS_Subset DEF Members
  <2>2. n \in Nat
    BY <2>1, FS_CardinalityType
  <2>3. desired[g].max \in Nat
    BY DEF Sized
  <2>. QED
    BY <2>1, <2>2, <2>3
<1>4. c \notin Missing(desired[g], live, g)
  <2>. HIDE DEF n
  <2>1. n .. (desired[g].min - 1) = {}
    BY <1>3
  <2>. QED
    BY <2>1 DEF Missing, n
<1>5. c \notin Excess(desired[g], live, g)
  <2>1. ASSUME NEW m \in ms PROVE Place(m, ms) < n
    <3>1. {x \in ms : x < m} \subseteq ms \ {m}
      <4>1. ~(m < m)
        BY <1>3
      <4>. QED
        BY <4>1
    <3>2. IsFiniteSet(ms \ {m}) /\ Cardinality(ms \ {m}) = n - 1
      BY <1>3, FS_RemoveElement
    <3>3. Cardinality({x \in ms : x < m}) <= Cardinality(ms \ {m})
      BY <3>1, <3>2, FS_Subset
    <3>4. Place(m, ms) \in Nat
      BY <1>3, PlaceType
    <3>. QED
      BY <1>3, <3>2, <3>3, <3>4 DEF Place
  <2>2. DeleteFrom(n, desired[g].max) = n
    BY <1>3 DEF DeleteFrom
  <2>3. \A m \in ms : ~(Place(m, ms) >= DeleteFrom(n, desired[g].max))
    BY <1>3, <2>1, <2>2, PlaceType
  <2>. QED
    BY <2>3 DEF Excess
<1>6. c \in Kept(desired[g], live, g)
  BY <1>2, <1>4, <1>5 DEF GroupChanges
<1>7. PICK m \in ms : c.action = KeepAction(live[m], desired[g])
  BY <1>6 DEF Kept
<1>8. live[m].group = g /\ m \in DOMAIN live
  BY DEF Members
<1>9. UpToDate(live[m], desired[g])
  BY <1>8
<1>. QED
  BY <1>7, <1>9 DEF KeepAction

(***************************************************************************)
(* What Diff keeps it treats by comparing the machine with its group.      *)
(***************************************************************************)
LEMMA DiffKeeps ==
    ASSUME NEW desired, NEW live, DOMAIN desired \subseteq Int,
           NEW c \in Diff(desired, live), c.action \in {"noop", "update", "replace"}
    PROVE  /\ c.group \in DOMAIN desired
           /\ c.action = KeepAction(live[c.id], desired[c.group])
<1>1. c \notin Orphans(desired, live)
  BY DEF Orphans
<1>2. PICK g \in DOMAIN desired : c \in GroupChanges(desired[g], live, g)
  BY <1>1, DiffParts
<1>3. c \in Kept(desired[g], live, g)
  BY <1>2 DEF GroupChanges, Missing, Excess
<1>. QED
  BY <1>3 DEF Kept
=============================================================================
