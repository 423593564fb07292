--------------------------- MODULE ResourcesProofs ---------------------------
(***************************************************************************)
(* Proofs about Resources, for any number of processes and resources: the  *)
(* list of databases in the shared state agrees with what the resources    *)
(* record, in the file and in every copy, so that "the last one" is.  And, *)
(* as long as commands do not overlap: what the state records is there,    *)
(* only a deprovision of a resource destroys it, and nothing that is made  *)
(* is forgotten.                                                           *)
(***************************************************************************)
EXTENDS Resources, TLAPS

Documents == \A p \in Processes : Agrees(copy[p]) /\ copy[p].names \subseteq spent

\* A process between two calls to a provisioned app: the resource has no database
\* yet, and the name it is to have is new to its copy.
Pending ==
    \A p \in Processes :
        /\ pc[p] \in {"create", "grant"} =>
            /\ res[p] \in Databases
            /\ app[p] \in Apps
            /\ copy[p].res[res[p]].id = None
        /\ pc[p] = "grant" => name[p] \in Names /\ name[p] \in spent /\ name[p] \notin copy[p].names

IInv == TypeOK /\ BooksAgree /\ file.names \subseteq spent /\ Documents /\ Pending

-----------------------------------------------------------------------------
(***************************************************************************)
(* What each answer does to a document.                                    *)
(***************************************************************************)
\* Writing one entry of the resources.
LEMMA PutEntry ==
    ASSUME NEW doc \in Document, NEW r \in Resources, NEW e \in Entry
    PROVE  /\ [doc EXCEPT !.res[r] = e] \in Document
           /\ [doc EXCEPT !.res[r] = e].app = doc.app
           /\ [doc EXCEPT !.res[r] = e].names = doc.names
           /\ \A s \in Resources : [doc EXCEPT !.res[r] = e].res[s] = IF s = r THEN e ELSE doc.res[s]
<1>. DEFINE f == [doc.res EXCEPT ![r] = e]
<1>1. f \in [Resources -> Entry] /\ \A s \in Resources : f[s] = IF s = r THEN e ELSE doc.res[s]
  BY DEF Document
<1>2. [doc EXCEPT !.res[r] = e] = [doc EXCEPT !.res = f]
  OBVIOUS
<1>. HIDE DEF f
<1>. QED
  BY <1>1, <1>2 DEF Document

\* An answer that leaves the databases as they were.
LEMMA OwnKeeps ==
    ASSUME NEW doc \in Document, Agrees(doc), NEW r \in Resources
    PROVE  /\ Own(r, doc) \in Document /\ Agrees(Own(r, doc)) /\ Own(r, doc).names = doc.names
           /\ \A s \in Resources : Own(r, doc).res[s].id = doc.res[s].id
<1>. DEFINE e == [doc.res[r] EXCEPT !.owned = TRUE]
            new == [doc EXCEPT !.res[r] = e]
<1>1. doc.res[r] \in Entry
  BY DEF Document
<1>2. e \in Entry /\ e.id = doc.res[r].id
  BY <1>1 DEF Entry
<1>3. Own(r, doc) = new
  BY DEF Own
<1>4. /\ new \in Document /\ new.app = doc.app /\ new.names = doc.names
      /\ \A s \in Resources : new.res[s] = IF s = r THEN e ELSE doc.res[s]
  <2>. HIDE DEF e
  <2>. QED
    BY <1>2, PutEntry
<1>. HIDE DEF e, new
<1>5. \A s \in Resources : new.res[s].id = doc.res[s].id
  BY <1>2, <1>4
<1>. QED
  BY <1>3, <1>4, <1>5 DEF Agrees, Resources

LEMMA ShareKeeps ==
    ASSUME NEW doc \in Document, Agrees(doc), NEW r \in Resources, NEW a \in Apps
    PROVE  /\ ShareApp(r, a, doc) \in Document /\ Agrees(ShareApp(r, a, doc))
           /\ ShareApp(r, a, doc).names = doc.names
<1>. DEFINE own == Own(r, doc)
            new == [own EXCEPT !.app = a]
<1>1. own \in Document /\ Agrees(own) /\ own.names = doc.names
  BY OwnKeeps
<1>2. ShareApp(r, a, doc) = new
  BY DEF ShareApp
<1>. HIDE DEF own
<1>3. new \in Document /\ new.app = a /\ new.names = own.names /\ new.res = own.res
  BY <1>1 DEF Document
<1>. QED
  BY <1>1, <1>2, <1>3, ResourcesAssumption DEF Agrees

LEMMA OwnClusterKeeps ==
    ASSUME NEW doc \in Document, Agrees(doc), NEW r \in Clusters, NEW a \in Apps
    PROVE  /\ OwnCluster(r, a, doc) \in Document /\ Agrees(OwnCluster(r, a, doc))
           /\ OwnCluster(r, a, doc).names = doc.names
<1>. DEFINE e == [owned |-> TRUE, id |-> a]
            new == [doc EXCEPT !.res[r] = e]
<1>1. e \in Entry /\ r \in Resources
  BY DEF Entry, Resources
<1>2. OwnCluster(r, a, doc) = new
  BY DEF OwnCluster
<1>3. /\ new \in Document /\ new.app = doc.app /\ new.names = doc.names
      /\ \A s \in Resources : new.res[s] = IF s = r THEN e ELSE doc.res[s]
  <2>. HIDE DEF e
  <2>. QED
    BY <1>1, PutEntry
<1>. HIDE DEF e, new
<1>4. \A s \in Databases : new.res[s] = doc.res[s]
  BY <1>3, ResourcesAssumption DEF Resources
<1>5. \A s \in Clusters : new.res[s].id \in Apps \cup {None}
  <2>1. e.id = a
    BY DEF e
  <2>. QED
    BY <1>3, <2>1 DEF Agrees, Resources
<1>. QED
  BY <1>2, <1>3, <1>4, <1>5 DEF Agrees

\* A new database, under a name the list does not have.
LEMMA AddKeeps ==
    ASSUME NEW doc \in Document, Agrees(doc), NEW r \in Databases, NEW a \in Apps, NEW n \in Names,
           doc.res[r].id = None, n \notin doc.names
    PROVE  /\ AddDatabase(r, a, n, doc) \in Document /\ Agrees(AddDatabase(r, a, n, doc))
           /\ AddDatabase(r, a, n, doc).names = doc.names \cup {n}
<1>. DEFINE e == [owned |-> TRUE, id |-> n]
            put == [doc EXCEPT !.res[r] = e]
            new == [put EXCEPT !.app = a, !.names = doc.names \cup {n}]
<1>1. e \in Entry /\ e.id = n /\ r \in Resources
  BY DEF Entry, Resources
<1>2. AddDatabase(r, a, n, doc) = new
  BY DEF AddDatabase, Document
<1>3. /\ put \in Document
      /\ \A s \in Resources : put.res[s] = IF s = r THEN e ELSE doc.res[s]
  <2>. HIDE DEF e
  <2>. QED
    BY <1>1, PutEntry
<1>. HIDE DEF e, put
<1>4. new \in Document /\ new.app = a /\ new.names = doc.names \cup {n} /\ new.res = put.res
  BY <1>3 DEF Document
<1>. HIDE DEF new
<1>5. \A s \in Databases : new.res[s].id = IF s = r THEN n ELSE doc.res[s].id
  BY <1>1, <1>3, <1>4 DEF Resources
<1>6. n # None /\ a # None
  BY ResourcesAssumption
<1>7. new.names = {new.res[s].id : s \in Databases} \ {None}
  BY <1>4, <1>5, <1>6 DEF Agrees
<1>8. \A s, t \in Databases : new.res[s].id = new.res[t].id => s = t \/ new.res[s].id = None
  BY <1>5, <1>6 DEF Agrees
<1>9. \A s \in Clusters : new.res[s] = doc.res[s]
  BY <1>3, <1>4, ResourcesAssumption DEF Resources
<1>. QED
  BY <1>2, <1>4, <1>6, <1>7, <1>8, <1>9 DEF Agrees

\* The document a deprovision leaves.
LEMMA DropKeeps ==
    ASSUME NEW doc \in Document, Agrees(doc), NEW r \in Databases, doc.res[r].id \in doc.names
    PROVE  /\ Dropped(r, doc) \in Document /\ Agrees(Dropped(r, doc))
           /\ Dropped(r, doc).names \subseteq doc.names
<1>. DEFINE e == [owned |-> FALSE, id |-> None]
            id == doc.res[r].id
            put == [doc EXCEPT !.res[r] = e]
            new == [put EXCEPT !.names = doc.names \ {id},
                               !.app = IF doc.names = {id} THEN None ELSE doc.app]
<1>1. e \in Entry /\ e.id = None /\ r \in Resources
  BY DEF Entry, Resources
<1>2. /\ put \in Document /\ put.app = doc.app /\ put.names = doc.names
      /\ \A s \in Resources : put.res[s] = IF s = r THEN e ELSE doc.res[s]
  <2>. HIDE DEF e
  <2>. QED
    BY <1>1, PutEntry
<1>3. Dropped(r, doc) = new
  BY <1>2 DEF Dropped, Forget, Last
<1>. HIDE DEF e, put
<1>4. /\ new \in Document /\ new.names = doc.names \ {id} /\ new.res = put.res
      /\ new.app = IF doc.names = {id} THEN None ELSE doc.app
  BY <1>2 DEF Document
<1>. HIDE DEF new
<1>5. \A s \in Databases : new.res[s].id = IF s = r THEN None ELSE doc.res[s].id
  BY <1>1, <1>2, <1>4 DEF Resources
<1>6. id # None /\ \A s \in Databases : doc.res[s].id = id => s = r
  BY DEF Agrees
<1>7. new.names = {new.res[s].id : s \in Databases} \ {None}
  BY <1>4, <1>5, <1>6 DEF Agrees
<1>8. \A s, t \in Databases : new.res[s].id = new.res[t].id => s = t \/ new.res[s].id = None
  BY <1>5 DEF Agrees
<1>9. new.names # {} => new.app # None
  BY <1>4 DEF Agrees
<1>10. \A s \in Clusters : new.res[s] = doc.res[s]
  BY <1>2, <1>4, ResourcesAssumption DEF Resources
<1>11. \A s \in Clusters : new.res[s].id \in Apps \cup {None}
  BY <1>10 DEF Agrees
<1>12. Agrees(new)
  BY <1>7, <1>8, <1>9, <1>11 DEF Agrees
<1>13. new.names \subseteq doc.names
  BY <1>4
<1>. QED
  BY <1>3, <1>4, <1>12, <1>13

-----------------------------------------------------------------------------
(***************************************************************************)
(* The steps.                                                              *)
(***************************************************************************)
LEMMA InitInv == Init => IInv
<1>1. Blank \in Document
  BY DEF Blank, Document, Entry
<1>2. Agrees(Blank) /\ Blank.names = {}
  BY DEF Blank, Agrees, Resources
<1>. QED
  BY <1>1, <1>2
  DEF Init, IInv, TypeOK, BooksAgree, Documents, Pending, Phases, Provisions

Budget == [commands : Nat, looks : Nat, faults : Nat, crashes : Nat]

LEMMA SpendBudget ==
    ASSUME budget \in Budget, NEW what \in {"commands", "looks", "faults", "crashes"}, Spend(what)
    PROVE  budget' \in Budget
<1>1. budget[what] + 1 \in Nat
  BY DEF Budget
<1>. QED
  BY <1>1 DEF Spend, Budget

\* A step that gives a process another document, and no process a pending name.
LEMMA NewCopy ==
    ASSUME IInv, NEW p \in Processes, NEW doc \in Document, Agrees(doc),
           copy' = [copy EXCEPT ![p] = doc], doc.names \subseteq spent',
           spent \subseteq spent', pc'[p] \notin {"create", "grant"},
           \A q \in Processes \ {p} : pc'[q] = pc[q],
           UNCHANGED <<file, res, app, name>>
    PROVE  /\ copy' \in [Processes -> Document]
           /\ (BooksAgree /\ file.names \subseteq spent /\ Documents /\ Pending)'
<1>. USE DEF IInv, TypeOK
<1>1. copy' \in [Processes -> Document] /\ \A q \in Processes : copy'[q] = IF q = p THEN doc ELSE copy[q]
  OBVIOUS
<1>2. Documents'
  BY <1>1 DEF Documents
<1>3. Pending'
  BY <1>1 DEF Pending
<1>. QED
  BY <1>1, <1>2, <1>3 DEF BooksAgree

\* A step that leaves the copies alone.
LEMMA SameCopies ==
    ASSUME IInv, NEW p \in Processes, spent \subseteq spent', pc'[p] \notin {"create", "grant"},
           \A q \in Processes \ {p} : pc'[q] = pc[q],
           \A q \in Processes \ {p} : res'[q] = res[q],
           UNCHANGED <<file, copy, app, name>>
    PROVE  (BooksAgree /\ file.names \subseteq spent /\ Documents /\ Pending)'
<1>. USE DEF IInv, TypeOK
<1>1. Documents'
  BY DEF Documents
<1>2. Pending'
  BY DEF Pending
<1>. QED
  BY <1>1, <1>2 DEF BooksAgree

LEMMA Inductive == IInv /\ [Next]_vars => IInv'
<1>. SUFFICES ASSUME IInv, [Next]_vars
              PROVE  IInv'
  OBVIOUS
<1>. USE DEF IInv, fly, local, history
<1>1. CASE UNCHANGED vars
  BY <1>1 DEF vars, TypeOK, BooksAgree, Documents, Pending
<1>. SUFFICES ASSUME NEW p \in Processes, Step(p)
              PROVE  IInv'
  BY <1>1 DEF Next
<1>2. copy[p] \in Document /\ Agrees(copy[p]) /\ copy[p].names \subseteq spent
  BY DEF TypeOK, Documents
<1>3. ASSUME NEW c \in Provisions \cup {"deprovision"}, Start(p, c),
             todo' \in [Processes -> SUBSET Resources], res' \in [Processes -> Resources],
             \A q \in Processes \ {p} : res'[q] = res[q],
             NEW phase \in Phases \ {"create", "grant"}, Goto(p, phase)
      PROVE  IInv'
  <2>1. budget' \in Budget
    BY <1>3, SpendBudget DEF Start, TypeOK, Budget
  <2>2. copy' \in [Processes -> Document] /\ \A q \in Processes : copy'[q] = IF q = p THEN file ELSE copy[q]
    BY <1>3 DEF Start, TypeOK
  <2>3. pc' \in [Processes -> Phases] /\ pc'[p] = phase /\ \A q \in Processes \ {p} : pc'[q] = pc[q]
    BY <1>3 DEF Goto, TypeOK
  <2>4. Documents'
    BY <1>3, <2>2 DEF Start, Documents, BooksAgree
  <2>5. Pending'
    BY <1>3, <2>2, <2>3 DEF Start, Pending
  <2>6. TypeOK'
    BY <1>3, <2>1, <2>2, <2>3 DEF Start, TypeOK, Budget
  <2>. QED
    BY <1>3, <2>4, <2>5, <2>6 DEF Start, BooksAgree
<1>4. ASSUME NEW c \in Provisions, NEW wanted \in SUBSET Resources, Load(p, c, wanted)
      PROVE  IInv'
  <2>1. todo' \in [Processes -> SUBSET Resources] /\ res' = res
    BY <1>4 DEF Load, TypeOK
  <2>2. "provision" \in Phases \ {"create", "grant"} /\ Goto(p, "provision") /\ Start(p, c)
    BY <1>4 DEF Load, Phases
  <2>. QED
    BY <1>3, <2>1, <2>2 DEF TypeOK
<1>5. ASSUME NEW r \in Resources, LoadDeprovision(p, r)
      PROVE  IInv'
  <2>1. res' \in [Processes -> Resources] /\ \A q \in Processes \ {p} : res'[q] = res[q]
    BY <1>5 DEF LoadDeprovision, TypeOK
  <2>2. "deprovision" \in Phases \ {"create", "grant"} /\ Goto(p, "deprovision") /\ Start(p, "deprovision")
    BY <1>5 DEF LoadDeprovision, Phases
  <2>3. todo' = todo
    BY <1>5 DEF LoadDeprovision
  <2>. QED
    BY <1>3, <2>1, <2>2, <2>3 DEF TypeOK
<1>6. CASE Persist(p)
  <2>1. TypeOK'
    BY <1>2, <1>6 DEF Persist, Goto, Phases, TypeOK
  <2>2. Documents' /\ Pending'
    BY <1>6 DEF Persist, Goto, TypeOK, Documents, Pending
  <2>. QED
    BY <1>2, <1>6, <2>1, <2>2 DEF Persist, BooksAgree, Agrees
<1>7. CASE PersistFails(p) \/ Crash(p)
  <2>1. budget' \in Budget
    BY <1>7, SpendBudget DEF PersistFails, Crash, TypeOK, Budget
  <2>2. pc' \in [Processes -> Phases] /\ pc'[p] = "idle" /\ \A q \in Processes \ {p} : pc'[q] = pc[q]
    BY <1>7 DEF PersistFails, Crash, Goto, Phases, TypeOK
  <2>3. TypeOK'
    BY <1>7, <2>1, <2>2 DEF PersistFails, Crash, TypeOK, Budget
  <2>. QED
    BY <1>7, <2>2, <2>3, SameCopies DEF PersistFails, Crash
<1>8. CASE ProvisionStatic(p)
  <2>1. PICK r \in todo[p] \cap Statics : Answer(p, r, Own(r, copy[p]))
    BY <1>8 DEF ProvisionStatic
  <2>2. r \in Resources
    BY DEF Resources
  <2>3. Own(r, copy[p]) \in Document /\ Agrees(Own(r, copy[p])) /\ Own(r, copy[p]).names \subseteq spent
    BY <1>2, <2>2, OwnKeeps
  <2>4. copy' = [copy EXCEPT ![p] = Own(r, copy[p])] /\ todo' \in [Processes -> SUBSET Resources]
    BY <2>1 DEF Answer, TypeOK
  <2>5. /\ copy' \in [Processes -> Document]
        /\ (BooksAgree /\ file.names \subseteq spent /\ Documents /\ Pending)'
    BY <1>8, <2>3, <2>4, NewCopy DEF ProvisionStatic
  <2>6. TypeOK'
    BY <1>8, <2>4, <2>5 DEF ProvisionStatic, TypeOK
  <2>. QED
    BY <2>5, <2>6
<1>9. ASSUME NEW a \in Apps, EnsureApp(a)
      PROVE  apps' \subseteq Apps /\ dbs' = dbs /\ spent' \subseteq Apps \cup Names /\ spent \subseteq spent'
  BY <1>9 DEF EnsureApp, TypeOK
<1>10. /\ \A r \in Clusters : AppFor(copy[p].res[r].id) \subseteq Apps
       /\ AppFor(copy[p].app) \subseteq Apps
  BY <1>2 DEF AppFor, Agrees, Document
<1>11. CASE ProvisionCluster(p)
  <2>1. PICK r \in todo[p] \cap Clusters, a \in Apps :
            EnsureApp(a) /\ Answer(p, r, OwnCluster(r, a, copy[p]))
    BY <1>10, <1>11 DEF ProvisionCluster
  <2>. DEFINE doc == OwnCluster(r, a, copy[p])
  <2>2. apps' \subseteq Apps /\ dbs' = dbs /\ spent' \subseteq Apps \cup Names /\ spent \subseteq spent'
    BY <1>9, <2>1
  <2>3. doc \in Document /\ Agrees(doc) /\ doc.names \subseteq spent'
    BY <1>2, <2>2, OwnClusterKeeps
  <2>4. copy' = [copy EXCEPT ![p] = doc] /\ todo' \in [Processes -> SUBSET Resources]
    BY <2>1 DEF Answer, TypeOK
  <2>. HIDE DEF doc
  <2>5. /\ copy' \in [Processes -> Document]
        /\ (BooksAgree /\ file.names \subseteq spent /\ Documents /\ Pending)'
    BY <1>11, <2>2, <2>3, <2>4, NewCopy DEF ProvisionCluster
  <2>6. TypeOK'
    BY <1>11, <2>2, <2>4, <2>5 DEF ProvisionCluster, TypeOK
  <2>. QED
    BY <2>5, <2>6
<1>12. CASE ProvisionDatabase(p)
  <2>1. PICK r \in todo[p] \cap Databases, a \in Apps :
            /\ EnsureApp(a)
            /\ IF copy[p].res[r].id # None
               THEN Answer(p, r, ShareApp(r, a, copy[p])) /\ UNCHANGED <<pc, local>>
               ELSE /\ res' = [res EXCEPT ![p] = r]
                    /\ app' = [app EXCEPT ![p] = a]
                    /\ Goto(p, "create")
                    /\ UNCHANGED <<copy, todo, name>>
    BY <1>10, <1>12 DEF ProvisionDatabase
  <2>2. apps' \subseteq Apps /\ dbs' = dbs /\ spent' \subseteq Apps \cup Names /\ spent \subseteq spent'
    BY <1>9, <2>1
  <2>3. CASE copy[p].res[r].id # None
    <3>. DEFINE doc == ShareApp(r, a, copy[p])
    <3>1. doc \in Document /\ Agrees(doc) /\ doc.names \subseteq spent'
      BY <1>2, <2>2, ShareKeeps DEF Resources
    <3>2. copy' = [copy EXCEPT ![p] = doc] /\ todo' \in [Processes -> SUBSET Resources]
      BY <2>1, <2>3 DEF Answer, TypeOK
    <3>. HIDE DEF doc
    <3>3. /\ copy' \in [Processes -> Document]
          /\ (BooksAgree /\ file.names \subseteq spent /\ Documents /\ Pending)'
      BY <1>12, <2>1, <2>2, <2>3, <3>1, <3>2, NewCopy DEF ProvisionDatabase
    <3>4. TypeOK'
      BY <1>12, <2>1, <2>2, <2>3, <3>2, <3>3 DEF ProvisionDatabase, TypeOK
    <3>. QED
      BY <3>3, <3>4
  <2>4. CASE copy[p].res[r].id = None
    <3>1. /\ pc' \in [Processes -> Phases] /\ pc'[p] = "create" /\ \A q \in Processes \ {p} : pc'[q] = pc[q]
          /\ res' \in [Processes -> Resources] /\ res'[p] = r /\ \A q \in Processes \ {p} : res'[q] = res[q]
          /\ app' \in [Processes -> Apps \cup {None}] /\ app'[p] = a /\ \A q \in Processes \ {p} : app'[q] = app[q]
          /\ UNCHANGED <<copy, todo, name>>
      BY <2>1, <2>4 DEF Goto, Phases, Resources, TypeOK
    <3>2. TypeOK'
      BY <1>12, <2>2, <3>1 DEF ProvisionDatabase, TypeOK
    <3>3. Documents'
      BY <2>2, <3>1 DEF Documents
    <3>4. Pending'
      BY <2>2, <2>4, <3>1 DEF Pending
    <3>. QED
      BY <1>12, <2>2, <3>2, <3>3, <3>4 DEF ProvisionDatabase, BooksAgree
  <2>. QED
    BY <2>3, <2>4
<1>13. CASE CreateDatabase(p)
  <2>1. PICK n \in Names \ spent :
            /\ dbs' = dbs \cup {<<app[p], n>>}
            /\ spent' = spent \cup {n}
            /\ name' = [name EXCEPT ![p] = n]
    BY <1>13 DEF CreateDatabase
  <2>2. app[p] \in Apps
    BY <1>13 DEF CreateDatabase, TypeOK
  <2>3. /\ pc' \in [Processes -> Phases] /\ pc'[p] = "grant" /\ \A q \in Processes \ {p} : pc'[q] = pc[q]
        /\ name' \in [Processes -> Names \cup {None}] /\ name'[p] = n /\ \A q \in Processes \ {p} : name'[q] = name[q]
    BY <1>13, <2>1 DEF CreateDatabase, Goto, Phases, TypeOK
  <2>4. dbs' \subseteq Apps \X Names /\ spent' \subseteq Apps \cup Names
    BY <2>1, <2>2 DEF TypeOK
  <2>5. TypeOK'
    BY <1>13, <2>3, <2>4 DEF CreateDatabase, TypeOK
  <2>6. Documents'
    BY <1>13, <2>1 DEF CreateDatabase, Documents
  <2>7. Pending'
    BY <1>2, <1>13, <2>1, <2>3 DEF CreateDatabase, Pending
  <2>. QED
    BY <1>13, <2>1, <2>5, <2>6, <2>7 DEF CreateDatabase, BooksAgree
<1>14. CASE GrantAccess(p)
  <2>. DEFINE doc == AddDatabase(res[p], app[p], name[p], copy[p])
  <2>1. /\ res[p] \in Databases /\ app[p] \in Apps /\ name[p] \in Names
        /\ copy[p].res[res[p]].id = None /\ name[p] \notin copy[p].names /\ name[p] \in spent
    BY <1>14 DEF GrantAccess, Pending
  <2>2. doc \in Document /\ Agrees(doc) /\ doc.names \subseteq spent
    BY <1>2, <2>1, AddKeeps
  <2>3. copy' = [copy EXCEPT ![p] = doc] /\ todo' \in [Processes -> SUBSET Resources]
    BY <1>14 DEF GrantAccess, Answer, TypeOK
  <2>. HIDE DEF doc
  <2>4. pc' \in [Processes -> Phases] /\ pc'[p] = "provision" /\ \A q \in Processes \ {p} : pc'[q] = pc[q]
    BY <1>14 DEF GrantAccess, Goto, Phases, TypeOK
  <2>5. /\ copy' \in [Processes -> Document]
        /\ (BooksAgree /\ file.names \subseteq spent /\ Documents /\ Pending)'
    BY <1>14, <2>2, <2>3, <2>4, NewCopy DEF GrantAccess
  <2>6. TypeOK'
    BY <1>14, <2>3, <2>4, <2>5 DEF GrantAccess, TypeOK
  <2>. QED
    BY <2>5, <2>6
<1>15. CASE EndProvision(p) \/ DeprovisionRefused(p)
  <2>1. pc' \in [Processes -> Phases] /\ pc'[p] \in {"idle", "persist"} /\ \A q \in Processes \ {p} : pc'[q] = pc[q]
    BY <1>15 DEF EndProvision, DeprovisionRefused, Goto, Phases, TypeOK
  <2>2. TypeOK'
    BY <1>15, <2>1 DEF EndProvision, DeprovisionRefused, TypeOK
  <2>. QED
    BY <1>15, <2>1, <2>2, SameCopies DEF EndProvision, DeprovisionRefused
<1>16. CASE DeleteCluster(p)
  <2>1. apps' \subseteq Apps /\ dbs' \subseteq Apps \X Names
    BY <1>16 DEF DeleteCluster, RemoveApp, TypeOK
  <2>2. pc' \in [Processes -> Phases] /\ pc'[p] = "idle" /\ \A q \in Processes \ {p} : pc'[q] = pc[q]
    BY <1>16 DEF DeleteCluster, Goto, Phases, TypeOK
  <2>3. cut' \subseteq Resources
    BY <1>16 DEF DeleteCluster, TypeOK
  <2>4. TypeOK'
    BY <1>16, <2>1, <2>2, <2>3 DEF DeleteCluster, TypeOK
  <2>. QED
    BY <1>16, <2>2, <2>4, SameCopies DEF DeleteCluster
<1>17. CASE DeprovisionFails(p)
  <2>1. apps' \subseteq Apps /\ dbs' \subseteq Apps \X Names /\ cut' \subseteq Resources
    BY <1>17 DEF DeprovisionFails, RemoveDatabase, RemoveApp, TypeOK
  <2>2. pc' \in [Processes -> Phases] /\ pc'[p] = "idle" /\ \A q \in Processes \ {p} : pc'[q] = pc[q]
    BY <1>17 DEF DeprovisionFails, Goto, Phases, TypeOK
  <2>3. budget' \in Budget
    BY <1>17, SpendBudget DEF DeprovisionFails, TypeOK, Budget
  <2>4. TypeOK'
    BY <1>17, <2>1, <2>2, <2>3 DEF DeprovisionFails, TypeOK, Budget
  <2>. QED
    BY <1>17, <2>2, <2>4, SameCopies DEF DeprovisionFails
<1>18. CASE DeleteDatabase(p)
  <2>. DEFINE doc == Dropped(res[p], copy[p])
  <2>1. res[p] \in Databases /\ copy[p].res[res[p]].id \in copy[p].names
    BY <1>18 DEF DeleteDatabase, Listed, Recorded
  <2>2. doc \in Document /\ Agrees(doc) /\ doc.names \subseteq spent
    BY <1>2, <2>1, DropKeeps
  <2>3. copy' = [copy EXCEPT ![p] = doc]
    BY <1>18 DEF DeleteDatabase
  <2>. HIDE DEF doc
  <2>4. apps' \subseteq Apps /\ dbs' \subseteq Apps \X Names
    BY <1>18 DEF DeleteDatabase, RemoveDatabase, RemoveApp, TypeOK
  <2>5. pc' \in [Processes -> Phases] /\ pc'[p] = "persist" /\ \A q \in Processes \ {p} : pc'[q] = pc[q]
    BY <1>18 DEF DeleteDatabase, Goto, Phases, TypeOK
  <2>6. cut' \subseteq Resources
    BY <1>18 DEF DeleteDatabase, TypeOK
  <2>7. /\ copy' \in [Processes -> Document]
        /\ (BooksAgree /\ file.names \subseteq spent /\ Documents /\ Pending)'
    BY <1>18, <2>2, <2>3, <2>5, NewCopy DEF DeleteDatabase
  <2>8. TypeOK'
    BY <1>18, <2>4, <2>5, <2>6, <2>7 DEF DeleteDatabase, TypeOK
  <2>. QED
    BY <2>7, <2>8
<1>19. CASE CreateFails(p)
  <2>1. /\ pc' \in [Processes -> Phases] /\ pc'[p] \in {"idle", "persistOnly"}
        /\ \A q \in Processes \ {p} : pc'[q] = pc[q]
    BY <1>19 DEF CreateFails, Abort, Goto, Phases, TypeOK
  <2>2. app[p] \in Apps
    BY <1>19 DEF CreateFails, Pending
  <2>3. /\ dbs' \subseteq Apps \X Names
        /\ spent' \subseteq Apps \cup Names /\ spent \subseteq spent'
    BY <1>19, <2>2 DEF CreateFails, TypeOK
  <2>4. budget' \in Budget
    BY <1>19, SpendBudget DEF CreateFails, TypeOK, Budget
  <2>5. TypeOK'
    BY <1>19, <2>1, <2>3, <2>4 DEF CreateFails, TypeOK, Budget
  <2>. QED
    BY <1>19, <2>1, <2>3, <2>5, SameCopies DEF CreateFails
<1>20. CASE ProvisionFails(p)
  <2>1. /\ pc' \in [Processes -> Phases] /\ pc'[p] \in {"idle", "persistOnly"}
        /\ \A q \in Processes \ {p} : pc'[q] = pc[q]
    BY <1>20 DEF ProvisionFails, Abort, Goto, Phases, TypeOK
  <2>2. budget' \in Budget
    BY <1>20, SpendBudget DEF ProvisionFails, TypeOK, Budget
  <2>3. CASE UNCHANGED <<fly, copy>>
    <3>1. TypeOK'
      BY <1>20, <2>1, <2>2, <2>3 DEF ProvisionFails, TypeOK, Budget
    <3>. QED
      BY <1>20, <2>1, <2>3, <3>1, SameCopies DEF ProvisionFails
  <2>4. CASE \E r \in todo[p] \ Statics :
                \E a \in AppFor(IF r \in Clusters THEN copy[p].res[r].id ELSE copy[p].app) :
                    /\ EnsureApp(a) \/ (spent' = spent \cup {a} /\ UNCHANGED <<apps, dbs>>)
                    /\ copy' = [copy EXCEPT ![p] =
                            IF r \in Clusters THEN OwnCluster(r, a, @) ELSE ShareApp(r, a, @)]
    <3>1. PICK r \in todo[p] \ Statics, a \in Apps :
                /\ EnsureApp(a) \/ (spent' = spent \cup {a} /\ UNCHANGED <<apps, dbs>>)
                /\ copy' = [copy EXCEPT ![p] =
                        IF r \in Clusters THEN OwnCluster(r, a, copy[p]) ELSE ShareApp(r, a, copy[p])]
      BY <1>10, <2>4 DEF TypeOK
    <3>. DEFINE doc == IF r \in Clusters THEN OwnCluster(r, a, copy[p]) ELSE ShareApp(r, a, copy[p])
    <3>2. apps' \subseteq Apps /\ dbs' = dbs /\ spent' \subseteq Apps \cup Names /\ spent \subseteq spent'
      BY <3>1 DEF EnsureApp, TypeOK
    <3>3. r \in Resources
      BY DEF TypeOK
    <3>4. doc \in Document /\ Agrees(doc) /\ doc.names = copy[p].names
      BY <1>2, <3>3, OwnClusterKeeps, ShareKeeps
    <3>5. copy' = [copy EXCEPT ![p] = doc]
      BY <3>1
    <3>. HIDE DEF doc
    <3>6. /\ copy' \in [Processes -> Document]
          /\ (BooksAgree /\ file.names \subseteq spent /\ Documents /\ Pending)'
      BY <1>2, <1>20, <2>1, <3>2, <3>4, <3>5, NewCopy DEF ProvisionFails
    <3>7. TypeOK'
      BY <1>20, <2>1, <2>2, <3>2, <3>6 DEF ProvisionFails, TypeOK, Budget
    <3>. QED
      BY <3>6, <3>7
  <2>. QED
    BY <1>20, <2>3, <2>4 DEF ProvisionFails
<1>. QED
  BY <1>4, <1>5, <1>6, <1>7, <1>8, <1>11, <1>12, <1>13, <1>14, <1>15, <1>16, <1>17, <1>18, <1>19, <1>20
  DEF Step, Provisioning, Deprovisioning

(***************************************************************************)
(* Resources is type-correct.                                              *)
(***************************************************************************)
THEOREM ResourceTypes == Spec => []TypeOK
<1>1. IInv => TypeOK
  BY DEF IInv
<1>. QED
  BY InitInv, Inductive, <1>1, PTL DEF Spec

(***************************************************************************)
(* The list of databases that decides whether the app is deleted agrees    *)
(* with what the resources record, whatever processes do to each other's   *)
(* state and wherever they fail.                                           *)
(***************************************************************************)
THEOREM BooksAlwaysAgree == Spec => []BooksAgree
<1>1. IInv => BooksAgree
  BY DEF IInv
<1>. QED
  BY InitInv, Inductive, <1>1, PTL DEF Spec

-----------------------------------------------------------------------------
(***************************************************************************)
(* As long as commands do not overlap, a copy is the file, and what has    *)
(* been made or removed since; what the file records is there; and the app *)
(* a command removes holds nothing but the resource it is to remove, since *)
(* no two resources share one except the databases.                        *)
(***************************************************************************)
Sole == \A p, q \in Processes : pc[p] # "idle" /\ pc[q] # "idle" => p = q

\* The app of each cluster is its own, and no recorded app is made again.
Apart(doc, sp) ==
    /\ \A c \in Clusters : doc.res[c].id # None => doc.res[c].id \in sp /\ doc.res[c].id # doc.app
    /\ \A c, d \in Clusters : doc.res[c].id = doc.res[d].id => c = d \/ doc.res[c].id = None
    /\ doc.app # None => doc.app \in sp

\* The databases of a document exist, but for those that were lost.
Present(doc, ds, lost) ==
    \A r \in Databases \ lost : doc.res[r].id # None => <<doc.app, doc.res[r].id>> \in ds

\* What a provisioning command does not change of the file it began with.
Carries(old, doc) ==
    /\ old.app # None => doc.app = old.app
    /\ \A r \in Databases \cup Clusters : old.res[r].id # None => doc.res[r].id = old.res[r].id

\* What a deprovision of r changes of it.
Drops(old, doc, r) ==
    /\ r \in Databases /\ doc.res[r].id = None
    /\ \A s \in (Databases \cup Clusters) \ {r} : doc.res[s].id = old.res[s].id
    /\ doc.app = old.app \/ doc.names = {}

\* A command between the calls that make a database.
Between(p) ==
    /\ app[p] \in apps /\ app[p] \in spent
    /\ copy[p].app # None => app[p] = copy[p].app
    /\ \A c \in Clusters : copy[p].res[c].id # app[p]
    /\ pc[p] = "grant" => <<app[p], name[p]>> \in dbs

SoleAt(p) ==
    /\ Apart(file, spent) /\ Present(file, dbs, cut)
    /\ pc[p] # "idle" => Apart(copy[p], spent) /\ Present(copy[p], dbs, cut)
    /\ pc[p] # "idle" /\ cmd[p] # "deprovision" => Carries(file, copy[p]) /\ pc[p] # "deprovision"
    /\ pc[p] # "idle" /\ cmd[p] = "deprovision" =>
        \/ pc[p] = "deprovision" /\ copy[p] = file
        \/ pc[p] = "persist" /\ Drops(file, copy[p], res[p])
    /\ pc[p] \in {"create", "grant"} => Between(p)

SoleInv ==
    alone =>
        /\ Sole
        /\ Apart(file, spent) /\ Present(file, dbs, cut)
        /\ \A p \in Processes : SoleAt(p)

LEMMA Remains ==
    ASSUME NEW doc, NEW ds, NEW es, NEW lost, NEW more,
           Present(doc, ds, lost), ds \subseteq es, lost \subseteq more
    PROVE  Present(doc, es, more)
  BY DEF Present

LEMMA SpentMore ==
    ASSUME NEW doc, NEW sp, NEW more, Apart(doc, sp), sp \subseteq more
    PROVE  Apart(doc, more)
  BY DEF Apart

\* What the answers do to the ids.
LEMMA SharedIds ==
    ASSUME NEW doc \in Document, Agrees(doc), NEW r \in Resources, NEW a \in Apps
    PROVE  /\ ShareApp(r, a, doc).app = a
           /\ \A s \in Resources : ShareApp(r, a, doc).res[s].id = doc.res[s].id
<1>1. PICK own : own = Own(r, doc)
  OBVIOUS
<1>2. own \in Document /\ \A s \in Resources : own.res[s].id = doc.res[s].id
  BY <1>1, OwnKeeps
<1>3. ShareApp(r, a, doc) = [own EXCEPT !.app = a]
  BY <1>1 DEF ShareApp
<1>4. ShareApp(r, a, doc).app = a /\ ShareApp(r, a, doc).res = own.res
  BY <1>2, <1>3 DEF Document
<1>. QED
  BY <1>2, <1>4

LEMMA OwnApp ==
    ASSUME NEW doc \in Document, NEW r \in Resources
    PROVE  Own(r, doc).app = doc.app
<1>. DEFINE e == [doc.res[r] EXCEPT !.owned = TRUE]
<1>1. doc.res[r] \in Entry
  BY DEF Document
<1>2. e \in Entry
  BY <1>1 DEF Entry
<1>3. Own(r, doc) = [doc EXCEPT !.res[r] = e]
  BY DEF Own
<1>. HIDE DEF e
<1>. QED
  BY <1>2, <1>3, PutEntry

LEMMA ClusterIds ==
    ASSUME NEW doc \in Document, NEW r \in Clusters, NEW a \in Apps
    PROVE  /\ OwnCluster(r, a, doc).app = doc.app
           /\ \A s \in Resources : OwnCluster(r, a, doc).res[s].id = IF s = r THEN a ELSE doc.res[s].id
<1>1. PICK e : e = [owned |-> TRUE, id |-> a]
  OBVIOUS
<1>2. e \in Entry /\ e.id = a /\ r \in Resources
  BY <1>1 DEF Entry, Resources
<1>3. OwnCluster(r, a, doc) = [doc EXCEPT !.res[r] = e]
  BY <1>1 DEF OwnCluster
<1>. QED
  BY <1>2, <1>3, PutEntry

LEMMA AddedIds ==
    ASSUME NEW doc \in Document, NEW r \in Databases, NEW a \in Apps, NEW n \in Names
    PROVE  LET new == AddDatabase(r, a, n, doc) IN
           /\ new.app = a
           /\ \A s \in Resources : new.res[s].id = IF s = r THEN n ELSE doc.res[s].id
<1>1. PICK e, put, new : /\ e = [owned |-> TRUE, id |-> n]
                         /\ put = [doc EXCEPT !.res[r] = e]
                         /\ new = [put EXCEPT !.app = a, !.names = doc.names \cup {n}]
  OBVIOUS
<1>2. e \in Entry /\ e.id = n /\ r \in Resources
  BY <1>1 DEF Entry, Resources
<1>3. put \in Document /\ \A s \in Resources : put.res[s] = IF s = r THEN e ELSE doc.res[s]
  BY <1>1, <1>2, PutEntry
<1>4. new.app = a /\ new.res = put.res
  BY <1>1, <1>3 DEF Document
<1>5. AddDatabase(r, a, n, doc) = new
  BY <1>1 DEF AddDatabase, Document
<1>. QED
  BY <1>2, <1>3, <1>4, <1>5

LEMMA DroppedIds ==
    ASSUME NEW doc \in Document, NEW r \in Databases
    PROVE  LET new == Dropped(r, doc) IN
           /\ new.app = IF Last(r, doc) THEN None ELSE doc.app
           /\ new.names = doc.names \ {doc.res[r].id}
           /\ \A s \in Resources : new.res[s].id = IF s = r THEN None ELSE doc.res[s].id
<1>1. PICK e, put, new :
        /\ e = [owned |-> FALSE, id |-> None]
        /\ put = [doc EXCEPT !.res[r] = e]
        /\ new = [put EXCEPT !.names = doc.names \ {doc.res[r].id},
                             !.app = IF Last(r, doc) THEN None ELSE doc.app]
  OBVIOUS
<1>2. e \in Entry /\ e.id = None /\ r \in Resources
  BY <1>1 DEF Entry, Resources
<1>3. /\ put \in Document /\ put.app = doc.app /\ put.names = doc.names
      /\ \A s \in Resources : put.res[s] = IF s = r THEN e ELSE doc.res[s]
  BY <1>1, <1>2, PutEntry
<1>4. /\ new.app = IF Last(r, doc) THEN None ELSE doc.app
      /\ new.names = doc.names \ {doc.res[r].id} /\ new.res = put.res
  BY <1>1, <1>3 DEF Document
<1>5. Dropped(r, doc) = new
  BY <1>1, <1>3 DEF Dropped, Forget
<1>. QED
  BY <1>2, <1>3, <1>4, <1>5

\* The app a provisioner asks for is the recorded one, or new.
LEMMA AppAsked ==
    ASSUME NEW recorded, NEW a \in AppFor(recorded)
    PROVE  IF recorded # None THEN a = recorded ELSE a \in Apps /\ a \notin spent
  BY DEF AppFor

\* The app of the databases, recorded or new, is none of a cluster's.
LEMMA ShareApart ==
    ASSUME NEW doc \in Document, Agrees(doc), Apart(doc, spent),
           NEW r \in Resources, NEW a \in AppFor(doc.app)
    PROVE  /\ a \in Apps
           /\ Apart(ShareApp(r, a, doc), spent \cup {a})
           /\ \A c \in Clusters : doc.res[c].id # a
           /\ doc.app # None => a = doc.app
<1>1. IF doc.app # None THEN a = doc.app ELSE a \in Apps /\ a \notin spent
  BY AppAsked
<1>2. a \in Apps
  BY <1>1 DEF Document
<1>3. a # None
  BY <1>2, ResourcesAssumption
<1>4. \A c \in Clusters : doc.res[c].id # a
  BY <1>1, <1>3 DEF Apart
<1>5. PICK new : new = ShareApp(r, a, doc)
  OBVIOUS
<1>6. new.app = a /\ \A c \in Clusters : new.res[c].id = doc.res[c].id
  BY <1>2, <1>5, SharedIds DEF Resources
<1>7. Apart(new, spent \cup {a})
  BY <1>4, <1>6 DEF Apart
<1>. QED
  BY <1>1, <1>2, <1>4, <1>5, <1>7

LEMMA SharePresent ==
    ASSUME NEW doc \in Document, Agrees(doc), NEW r \in Resources, NEW a \in Apps,
           doc.app # None => a = doc.app,
           NEW ds, NEW lost, Present(doc, ds, lost), NEW old, Carries(old, doc)
    PROVE  Present(ShareApp(r, a, doc), ds, lost) /\ Carries(old, ShareApp(r, a, doc))
<1>1. PICK new : new = ShareApp(r, a, doc)
  OBVIOUS
<1>2. new.app = a /\ \A s \in Databases \cup Clusters : new.res[s].id = doc.res[s].id
  BY <1>1, SharedIds DEF Resources
<1>3. ASSUME NEW s \in Databases, doc.res[s].id # None
      PROVE  a = doc.app
  BY <1>3 DEF Agrees
<1>4. Present(new, ds, lost)
  BY <1>2, <1>3 DEF Present
<1>5. Carries(old, new)
  BY <1>2 DEF Carries
<1>. QED
  BY <1>1, <1>4, <1>5

LEMMA ClusterApart ==
    ASSUME NEW doc \in Document, Agrees(doc), Apart(doc, spent),
           NEW r \in Clusters, NEW a \in AppFor(doc.res[r].id)
    PROVE  /\ a \in Apps
           /\ Apart(OwnCluster(r, a, doc), spent \cup {a})
<1>1. IF doc.res[r].id # None THEN a = doc.res[r].id ELSE a \in Apps /\ a \notin spent
  BY AppAsked
<1>2. a \in Apps
  BY <1>1 DEF Agrees
<1>3. a # None
  BY <1>2, ResourcesAssumption
<1>4. a # doc.app /\ \A c \in Clusters \ {r} : doc.res[c].id # a
  BY <1>1, <1>3 DEF Apart
<1>5. PICK new : new = OwnCluster(r, a, doc)
  OBVIOUS
<1>6. new.app = doc.app /\ \A c \in Clusters : new.res[c].id = IF c = r THEN a ELSE doc.res[c].id
  BY <1>2, <1>5, ClusterIds DEF Resources
<1>7. Apart(new, spent \cup {a})
  BY <1>4, <1>6 DEF Apart
<1>. QED
  BY <1>2, <1>5, <1>7

LEMMA ClusterPresent ==
    ASSUME NEW doc \in Document, NEW r \in Clusters, NEW a \in Apps,
           doc.res[r].id # None => a = doc.res[r].id,
           NEW ds, NEW lost, Present(doc, ds, lost), NEW old, Carries(old, doc)
    PROVE  Present(OwnCluster(r, a, doc), ds, lost) /\ Carries(old, OwnCluster(r, a, doc))
<1>1. PICK new : new = OwnCluster(r, a, doc)
  OBVIOUS
<1>2. /\ new.app = doc.app
      /\ \A s \in Databases \cup Clusters : new.res[s].id = IF s = r THEN a ELSE doc.res[s].id
  BY <1>1, ClusterIds DEF Resources
<1>3. \A s \in Databases : new.res[s].id = doc.res[s].id
  BY <1>2, ResourcesAssumption
<1>4. Present(new, ds, lost)
  BY <1>2, <1>3 DEF Present
<1>5. Carries(old, new)
  BY <1>2 DEF Carries
<1>. QED
  BY <1>1, <1>4, <1>5

-----------------------------------------------------------------------------
(***************************************************************************)
(* Its steps.                                                              *)
(***************************************************************************)
\* A command that is over, and has lost nothing the file records but what is noted.
LEMMA SoleEnds ==
    ASSUME NEW p \in Processes, SoleAt(p), file' = file, spent \subseteq spent',
           pc'[p] = "idle", Present(file, dbs', cut')
    PROVE  SoleAt(p)'
  BY SpentMore DEF SoleAt

\* A provisioning command that goes on with a document that has grown.
LEMMA SoleGrows ==
    ASSUME NEW p \in Processes, SoleAt(p), file' = file, spent \subseteq spent',
           dbs \subseteq dbs', cut' = cut, cmd'[p] = cmd[p], cmd[p] # "deprovision",
           pc'[p] \notin {"create", "grant", "deprovision"},
           Apart(copy'[p], spent'), Present(copy'[p], dbs', cut), Carries(file, copy'[p])
    PROVE  SoleAt(p)'
<1>1. Apart(file, spent') /\ Present(file, dbs', cut)
  BY SpentMore, Remains DEF SoleAt
<1>. QED
  BY <1>1 DEF SoleAt

LEMMA SoleProvisions ==
    ASSUME IInv, NEW p \in Processes, SoleAt(p), Provisioning(p)
    PROVE  SoleAt(p)'
<1>. USE DEF fly, local, history
<1>1. /\ copy \in [Processes -> Document] /\ copy[p] \in Document /\ Agrees(copy[p])
      /\ todo \in [Processes -> SUBSET Resources] /\ pc \in [Processes -> Phases]
      /\ res \in [Processes -> Resources] /\ app \in [Processes -> Apps \cup {None}]
      /\ name \in [Processes -> Names \cup {None}] /\ cmd \in [Processes -> Provisions \cup {"deprovision"}]
  BY DEF IInv, TypeOK, Documents
<1>2. pc[p] \in {"provision", "create", "grant"}
  BY DEF Provisioning, ProvisionStatic, ProvisionCluster, ProvisionDatabase, CreateDatabase,
         GrantAccess, EndProvision, ProvisionFails, CreateFails
<1>3. /\ Apart(copy[p], spent) /\ Present(copy[p], dbs, cut) /\ Carries(file, copy[p])
      /\ cmd[p] # "deprovision"
  BY <1>2 DEF SoleAt
<1>4. file' = file /\ cmd' = cmd /\ cut' = cut
  BY DEF Provisioning, ProvisionStatic, ProvisionCluster, ProvisionDatabase, CreateDatabase,
         GrantAccess, EndProvision, ProvisionFails, CreateFails
<1>5. CASE ProvisionStatic(p)
  <2>1. PICK r \in todo[p] \cap Statics : Answer(p, r, Own(r, copy[p]))
    BY <1>5 DEF ProvisionStatic
  <2>2. PICK new : new = Own(r, copy[p])
    OBVIOUS
  <2>3. r \in Resources
    BY DEF Resources
  <2>4. new.app = copy[p].app /\ \A s \in Resources : new.res[s].id = copy[p].res[s].id
    BY <1>1, <2>2, <2>3, OwnKeeps, OwnApp
  <2>5. Apart(new, spent) /\ Present(new, dbs, cut) /\ Carries(file, new)
    BY <1>3, <2>4 DEF Apart, Present, Carries, Resources
  <2>6. copy'[p] = new /\ pc' = pc /\ spent' = spent /\ dbs' = dbs
    BY <1>1, <1>5, <2>1, <2>2 DEF Answer, ProvisionStatic
  <2>7. pc[p] = "provision"
    BY <1>5 DEF ProvisionStatic
  <2>. QED
    BY <1>3, <1>4, <2>5, <2>6, <2>7, SoleGrows
<1>6. CASE ProvisionCluster(p)
  <2>1. PICK r \in todo[p] \cap Clusters : \E a \in AppFor(copy[p].res[r].id) :
            EnsureApp(a) /\ Answer(p, r, OwnCluster(r, a, copy[p]))
    BY <1>6 DEF ProvisionCluster
  <2>2. PICK a \in AppFor(copy[p].res[r].id) :
            EnsureApp(a) /\ Answer(p, r, OwnCluster(r, a, copy[p]))
    BY <2>1
  <2>3. PICK new : new = OwnCluster(r, a, copy[p])
    OBVIOUS
  <2>4. a \in Apps /\ Apart(new, spent \cup {a})
    BY <1>1, <1>3, <2>3, ClusterApart
  <2>5. Present(new, dbs, cut) /\ Carries(file, new)
    BY <1>1, <1>3, <2>3, <2>4, AppAsked, ClusterPresent
  <2>6. copy'[p] = new /\ pc' = pc /\ spent' = spent \cup {a} /\ dbs' = dbs /\ pc[p] = "provision"
    BY <1>1, <1>6, <2>2, <2>3 DEF Answer, EnsureApp, ProvisionCluster
  <2>. QED
    BY <1>3, <1>4, <2>4, <2>5, <2>6, SoleGrows
<1>7. CASE ProvisionDatabase(p)
  <2>1. PICK r \in todo[p] \cap Databases : \E a \in AppFor(copy[p].app) :
            /\ EnsureApp(a)
            /\ IF copy[p].res[r].id # None
               THEN Answer(p, r, ShareApp(r, a, copy[p])) /\ UNCHANGED <<pc, local>>
               ELSE /\ res' = [res EXCEPT ![p] = r]
                    /\ app' = [app EXCEPT ![p] = a]
                    /\ Goto(p, "create")
                    /\ UNCHANGED <<copy, todo, name>>
    BY <1>7 DEF ProvisionDatabase
  <2>2. PICK a \in AppFor(copy[p].app) :
            /\ EnsureApp(a)
            /\ IF copy[p].res[r].id # None
               THEN Answer(p, r, ShareApp(r, a, copy[p])) /\ UNCHANGED <<pc, local>>
               ELSE /\ res' = [res EXCEPT ![p] = r]
                    /\ app' = [app EXCEPT ![p] = a]
                    /\ Goto(p, "create")
                    /\ UNCHANGED <<copy, todo, name>>
    BY <2>1
  <2>3. r \in Resources
    BY DEF Resources
  <2>4. PICK new : new = ShareApp(r, a, copy[p])
    OBVIOUS
  <2>5. /\ a \in Apps /\ Apart(new, spent \cup {a}) /\ \A c \in Clusters : copy[p].res[c].id # a
        /\ copy[p].app # None => a = copy[p].app
    BY <1>1, <1>3, <2>3, <2>4, ShareApart
  <2>6. Present(new, dbs, cut) /\ Carries(file, new)
    BY <1>1, <1>3, <2>3, <2>4, <2>5, SharePresent
  <2>7. spent' = spent \cup {a} /\ dbs' = dbs /\ apps' = apps \cup {a}
    BY <2>2 DEF EnsureApp
  <2>8. CASE copy[p].res[r].id # None
    <3>1. copy'[p] = new /\ pc' = pc /\ pc[p] = "provision"
      BY <1>1, <1>7, <2>2, <2>4, <2>8 DEF Answer, ProvisionDatabase
    <3>. QED
      BY <1>3, <1>4, <2>5, <2>6, <2>7, <3>1, SoleGrows
  <2>9. CASE copy[p].res[r].id = None
    <3>1. copy' = copy /\ pc'[p] = "create" /\ app'[p] = a
      BY <1>1, <2>2, <2>9 DEF Goto
    <3>2. Between(p)'
      BY <2>5, <2>7, <3>1 DEF Between
    <3>3. /\ Apart(file, spent') /\ Present(file, dbs', cut)
          /\ Apart(copy[p], spent') /\ Present(copy[p], dbs', cut)
      BY <1>3, <2>7, SpentMore DEF SoleAt
    <3>. QED
      BY <1>3, <1>4, <3>1, <3>2, <3>3 DEF SoleAt
  <2>. QED
    BY <2>8, <2>9
<1>8. CASE CreateDatabase(p)
  <2>1. PICK n \in Names \ spent :
            /\ dbs' = dbs \cup {<<app[p], n>>}
            /\ spent' = spent \cup {n}
            /\ name' = [name EXCEPT ![p] = n]
    BY <1>8 DEF CreateDatabase
  <2>2. pc'[p] = "grant" /\ name'[p] = n /\ copy' = copy /\ app' = app /\ apps' = apps
    BY <1>1, <1>8, <2>1 DEF CreateDatabase, Goto
  <2>3. Between(p)
    BY <1>8 DEF CreateDatabase, SoleAt
  <2>4. Between(p)'
    BY <2>1, <2>2, <2>3 DEF Between
  <2>5. /\ Apart(file, spent') /\ Present(file, dbs', cut)
        /\ Apart(copy[p], spent') /\ Present(copy[p], dbs', cut)
    BY <1>3, <2>1, SpentMore, Remains DEF SoleAt
  <2>. QED
    BY <1>3, <1>4, <2>2, <2>4, <2>5 DEF SoleAt
<1>9. CASE GrantAccess(p)
  <2>1. /\ res[p] \in Databases /\ app[p] \in Apps /\ name[p] \in Names
        /\ copy[p].res[res[p]].id = None
    BY <1>9 DEF GrantAccess, IInv, Pending
  <2>2. Between(p) /\ pc[p] = "grant"
    BY <1>9 DEF GrantAccess, SoleAt
  <2>3. PICK new : new = AddDatabase(res[p], app[p], name[p], copy[p])
    OBVIOUS
  <2>4. /\ new.app = app[p]
        /\ \A s \in Databases \cup Clusters :
                new.res[s].id = IF s = res[p] THEN name[p] ELSE copy[p].res[s].id
    BY <1>1, <2>1, <2>3, AddedIds DEF Resources
  <2>5. \A c \in Clusters : new.res[c].id = copy[p].res[c].id
    BY <2>1, <2>4, ResourcesAssumption
  <2>6. Apart(new, spent)
    BY <1>3, <2>2, <2>4, <2>5 DEF Apart, Between
  <2>7. ASSUME NEW s \in Databases, copy[p].res[s].id # None
        PROVE  app[p] = copy[p].app
    <3>1. copy[p].res[s].id \in copy[p].names
      BY <1>1, <2>7 DEF Agrees
    <3>2. copy[p].app # None
      BY <1>1, <3>1 DEF Agrees
    <3>. QED
      BY <2>2, <3>2 DEF Between
  <2>8. Present(new, dbs, cut)
    BY <1>3, <2>2, <2>4, <2>7 DEF Present, Between
  <2>9. Carries(file, new)
    BY <1>3, <2>1, <2>2, <2>4 DEF Carries, Between
  <2>10. copy'[p] = new /\ pc'[p] = "provision" /\ spent' = spent /\ dbs' = dbs
    BY <1>1, <1>9, <2>3 DEF Answer, GrantAccess, Goto
  <2>. QED
    BY <1>3, <1>4, <2>6, <2>8, <2>9, <2>10, SoleGrows
<1>10. CASE EndProvision(p)
  <2>1. copy' = copy /\ spent' = spent /\ dbs' = dbs /\ pc'[p] \in {"idle", "persist"}
    BY <1>1, <1>10 DEF EndProvision, Goto
  <2>. QED
    BY <1>3, <1>4, <2>1, SoleGrows
<1>11. CASE ProvisionFails(p)
  <2>1. pc'[p] \in {"idle", "persistOnly"}
    BY <1>1, <1>11 DEF ProvisionFails, Abort, Goto
  <2>2. CASE UNCHANGED <<fly, copy>>
    BY <1>3, <1>4, <2>1, <2>2, SoleGrows
  <2>3. ASSUME NEW r \in todo[p] \ Statics,
               NEW a \in AppFor(IF r \in Clusters THEN copy[p].res[r].id ELSE copy[p].app),
               EnsureApp(a) \/ (spent' = spent \cup {a} /\ UNCHANGED <<apps, dbs>>),
               copy' = [copy EXCEPT ![p] =
                            IF r \in Clusters THEN OwnCluster(r, a, @) ELSE ShareApp(r, a, @)]
        PROVE  SoleAt(p)'
    <3>1. spent' = spent \cup {a} /\ dbs' = dbs
      BY <2>3 DEF EnsureApp
    <3>2. CASE r \in Clusters
      <4>1. PICK new : new = OwnCluster(r, a, copy[p])
        OBVIOUS
      <4>2. a \in AppFor(copy[p].res[r].id)
        BY <3>2
      <4>3. a \in Apps /\ Apart(new, spent \cup {a})
        BY <1>1, <1>3, <3>2, <4>1, <4>2, ClusterApart
      <4>4. Present(new, dbs, cut) /\ Carries(file, new)
        BY <1>1, <1>3, <3>2, <4>1, <4>2, <4>3, AppAsked, ClusterPresent
      <4>5. copy'[p] = new
        BY <1>1, <2>3, <3>2, <4>1
      <4>. QED
        BY <1>3, <1>4, <2>1, <3>1, <4>3, <4>4, <4>5, SoleGrows
    <3>3. CASE r \notin Clusters
      <4>1. PICK new : new = ShareApp(r, a, copy[p])
        OBVIOUS
      <4>2. a \in AppFor(copy[p].app) /\ r \in Resources
        BY <1>1, <3>3
      <4>3. /\ a \in Apps /\ Apart(new, spent \cup {a})
            /\ copy[p].app # None => a = copy[p].app
        BY <1>1, <1>3, <4>1, <4>2, ShareApart
      <4>4. Present(new, dbs, cut) /\ Carries(file, new)
        BY <1>1, <1>3, <4>1, <4>2, <4>3, SharePresent
      <4>5. copy'[p] = new
        BY <1>1, <2>3, <3>3, <4>1
      <4>. QED
        BY <1>3, <1>4, <2>1, <3>1, <4>3, <4>4, <4>5, SoleGrows
    <3>. QED
      BY <3>2, <3>3
  <2>. QED
    BY <1>11, <2>2, <2>3 DEF ProvisionFails
<1>12. CASE CreateFails(p)
  <2>1. /\ pc'[p] \in {"idle", "persistOnly"} /\ copy' = copy
        /\ spent \subseteq spent' /\ dbs \subseteq dbs'
    BY <1>1, <1>12 DEF CreateFails, Abort, Goto
  <2>2. Apart(copy[p], spent') /\ Present(copy[p], dbs', cut)
    BY <1>3, <2>1, SpentMore, Remains
  <2>. QED
    BY <1>3, <1>4, <2>1, <2>2, SoleGrows
<1>. QED
  BY <1>5, <1>6, <1>7, <1>8, <1>9, <1>10, <1>11, <1>12 DEF Provisioning

\* The app of a cluster goes: it holds no other resource.
LEMMA ClusterRemoved ==
    ASSUME NEW doc, NEW sp, Apart(doc, sp), NEW r \in Clusters, doc.res[r].id # None,
           RemoveApp(doc.res[r].id)
    PROVE  /\ \A c \in Clusters \ {r} : doc.res[c].id \in apps => doc.res[c].id \in apps'
           /\ \A n \in Names : <<doc.app, n>> \in dbs => <<doc.app, n>> \in dbs'
<1>1. \A c \in Clusters \ {r} : doc.res[c].id # doc.res[r].id
  BY DEF Apart
<1>2. doc.app # doc.res[r].id
  BY DEF Apart
<1>. QED
  BY <1>1, <1>2 DEF RemoveApp

\* A database goes, and the app only when the list has no other.
LEMMA DatabaseRemoved ==
    ASSUME NEW doc \in Document, Agrees(doc), NEW sp, Apart(doc, sp), apps \subseteq Apps,
           NEW r \in Databases, doc.res[r].id \in doc.names,
           IF Last(r, doc) THEN RemoveApp(doc.app)
           ELSE dbs' = dbs \ {<<doc.app, doc.res[r].id>>} /\ UNCHANGED apps
    PROVE  /\ \A c \in Clusters : doc.res[c].id \in apps => doc.res[c].id \in apps'
           /\ \A s \in Databases \ {r} :
                doc.res[s].id # None /\ <<doc.app, doc.res[s].id>> \in dbs
                    => <<doc.app, doc.res[s].id>> \in dbs'
<1>1. ASSUME NEW s \in Databases \ {r}, doc.res[s].id # None
      PROVE  doc.res[s].id # doc.res[r].id /\ ~Last(r, doc)
  <2>1. doc.res[s].id \in doc.names /\ doc.res[s].id # doc.res[r].id
    BY <1>1 DEF Agrees
  <2>. QED
    BY <2>1 DEF Last
<1>2. ASSUME NEW c \in Clusters, doc.res[c].id \in apps
      PROVE  doc.res[c].id # doc.app
  <2>1. doc.res[c].id # None
    BY <1>2, ResourcesAssumption
  <2>. QED
    BY <2>1 DEF Apart
<1>. QED
  BY <1>1, <1>2 DEF RemoveApp

LEMMA SoleDeprovisions ==
    ASSUME IInv, NEW p \in Processes, SoleAt(p), Deprovisioning(p)
    PROVE  SoleAt(p)'
<1>. USE DEF fly, local, history
<1>1. /\ copy \in [Processes -> Document] /\ copy[p] \in Document /\ Agrees(copy[p])
      /\ pc \in [Processes -> Phases] /\ apps \subseteq Apps /\ dbs \subseteq Apps \X Names
  BY DEF IInv, TypeOK, Documents
<1>2. pc[p] = "deprovision"
  BY DEF Deprovisioning, DeleteCluster, DeleteDatabase, DeprovisionRefused, DeprovisionFails
<1>3. /\ copy[p] = file /\ cmd[p] = "deprovision"
      /\ Apart(copy[p], spent) /\ Present(copy[p], dbs, cut)
  BY <1>2 DEF SoleAt
<1>4. file' = file /\ cmd' = cmd /\ spent' = spent /\ res' = res
  BY DEF Deprovisioning, DeleteCluster, DeleteDatabase, DeprovisionRefused, DeprovisionFails
<1>5. \A s \in Databases : copy[p].res[s].id # None => copy[p].res[s].id \in Names
  BY <1>1 DEF Agrees, Document
<1>6. ASSUME res[p] \in Clusters, Recorded(p) \in apps, RemoveApp(Recorded(p))
      PROVE  Present(file, dbs', cut \cup {res[p]})
  <2>1. copy[p].res[res[p]].id # None
    BY <1>1, <1>6, ResourcesAssumption DEF Recorded
  <2>2. \A n \in Names : <<copy[p].app, n>> \in dbs => <<copy[p].app, n>> \in dbs'
    BY <1>3, <1>6, <2>1, ClusterRemoved DEF Recorded
  <2>. QED
    BY <1>3, <1>5, <2>2 DEF Present
<1>7. ASSUME Listed(p), RemoveDatabase(p)
      PROVE  Present(copy[p], dbs', cut \cup {res[p]})
  <2>1. res[p] \in Databases /\ copy[p].res[res[p]].id \in copy[p].names
    BY <1>7 DEF Listed, Recorded
  <2>2. IF Last(res[p], copy[p]) THEN RemoveApp(copy[p].app)
        ELSE dbs' = dbs \ {<<copy[p].app, copy[p].res[res[p]].id>>} /\ UNCHANGED apps
    BY <1>7 DEF RemoveDatabase, Recorded
  <2>3. \A s \in Databases \ {res[p]} :
            copy[p].res[s].id # None /\ <<copy[p].app, copy[p].res[s].id>> \in dbs
                => <<copy[p].app, copy[p].res[s].id>> \in dbs'
    BY <1>1, <1>3, <2>1, <2>2, DatabaseRemoved
  <2>. QED
    BY <1>3, <2>3 DEF Present
<1>8. CASE DeleteCluster(p)
  <2>1. Present(file, dbs', cut')
    BY <1>6, <1>8 DEF DeleteCluster
  <2>2. pc'[p] = "idle"
    BY <1>1, <1>8 DEF DeleteCluster, Goto
  <2>. QED
    BY <1>4, <2>1, <2>2, SoleEnds
<1>9. CASE DeleteDatabase(p)
  <2>1. res[p] \in Databases /\ copy[p].res[res[p]].id \in copy[p].names
    BY <1>9 DEF DeleteDatabase, Listed, Recorded
  <2>2. PICK new : new = Dropped(res[p], copy[p])
    OBVIOUS
  <2>3. /\ new.app = IF Last(res[p], copy[p]) THEN None ELSE copy[p].app
        /\ new.names = copy[p].names \ {copy[p].res[res[p]].id}
        /\ \A s \in Databases \cup Clusters :
                new.res[s].id = IF s = res[p] THEN None ELSE copy[p].res[s].id
    BY <1>1, <2>1, <2>2, DroppedIds DEF Resources
  <2>4. Present(copy[p], dbs', cut') /\ cut' = cut \cup {res[p]}
    BY <1>7, <1>9 DEF DeleteDatabase
  <2>5. new.app = copy[p].app \/ (new.names = {} /\ \A s \in Databases : new.res[s].id = None)
    <3>1. CASE Last(res[p], copy[p])
      <4>1. new.names = {}
        BY <2>3, <3>1 DEF Last
      <4>2. ASSUME NEW s \in Databases, copy[p].res[s].id # None
            PROVE  s = res[p]
        <5>1. copy[p].res[s].id \in copy[p].names
          BY <1>1, <4>2 DEF Agrees
        <5>2. copy[p].res[s].id = copy[p].res[res[p]].id
          BY <3>1, <5>1 DEF Last
        <5>. QED
          BY <1>1, <2>1, <4>2, <5>2 DEF Agrees
      <4>. QED
        BY <2>3, <4>1, <4>2
    <3>. QED
      BY <2>3, <3>1
  <2>6. Present(new, dbs', cut')
    BY <2>3, <2>4, <2>5 DEF Present
  <2>7. \A c \in Clusters : new.res[c].id = copy[p].res[c].id
    BY <2>1, <2>3, ResourcesAssumption
  <2>8. Apart(new, spent)
    BY <1>3, <2>3, <2>7 DEF Apart
  <2>9. Drops(file, new, res[p])
    BY <1>3, <2>1, <2>3, <2>5 DEF Drops
  <2>10. copy'[p] = new /\ pc'[p] = "persist"
    BY <1>1, <1>9, <2>2 DEF DeleteDatabase, Goto
  <2>11. Apart(file, spent) /\ Present(file, dbs', cut')
    BY <1>3, <2>4
  <2>. QED
    BY <1>3, <1>4, <2>6, <2>8, <2>9, <2>10, <2>11 DEF SoleAt
<1>10. CASE DeprovisionRefused(p)
  <2>1. pc'[p] = "idle" /\ Present(file, dbs', cut')
    BY <1>1, <1>3, <1>10 DEF DeprovisionRefused, Goto
  <2>. QED
    BY <1>4, <2>1, SoleEnds
<1>11. CASE DeprovisionFails(p)
  <2>1. pc'[p] = "idle"
    BY <1>1, <1>11 DEF DeprovisionFails, Goto
  <2>2. Present(file, dbs', cut')
    <3>1. CASE UNCHANGED <<apps, dbs, cut>>
      BY <1>3, <3>1
    <3>2. CASE /\ res[p] \in Clusters /\ Recorded(p) \in apps /\ RemoveApp(Recorded(p))
               /\ cut' = cut \cup {res[p]}
      BY <1>6, <3>2
    <3>3. CASE Listed(p) /\ RemoveDatabase(p) /\ cut' = cut \cup {res[p]}
      BY <1>3, <1>7, <3>3
    <3>. QED
      BY <1>11, <3>1, <3>2, <3>3 DEF DeprovisionFails
  <2>. QED
    BY <1>4, <2>1, <2>2, SoleEnds
<1>. QED
  BY <1>8, <1>9, <1>10, <1>11 DEF Deprovisioning

LEMMA SoleInit == Init => SoleInv
<1>. SUFFICES ASSUME Init PROVE SoleInv
  OBVIOUS
<1>1. file = Blank /\ \A p \in Processes : pc[p] = "idle"
  BY DEF Init
<1>2. Blank.app = None /\ \A r \in Resources : Blank.res[r].id = None
  BY DEF Blank
<1>3. Apart(file, spent) /\ Present(file, dbs, cut)
  BY <1>1, <1>2 DEF Apart, Present, Resources
<1>. QED
  BY <1>1, <1>3 DEF SoleInv, SoleAt, Sole

LEMMA SoleStarts ==
    ASSUME IInv, NEW p \in Processes, SoleAt(p),
           \/ \E c \in Provisions, wanted \in SUBSET Resources : Load(p, c, wanted)
           \/ \E r \in Resources : LoadDeprovision(p, r)
    PROVE  SoleAt(p)'
<1>. USE DEF fly, history
<1>1. /\ copy \in [Processes -> Document] /\ pc \in [Processes -> Phases]
      /\ cmd \in [Processes -> Provisions \cup {"deprovision"}]
  BY DEF IInv, TypeOK
<1>2. Apart(file, spent) /\ Present(file, dbs, cut) /\ Carries(file, file)
  BY DEF SoleAt, Carries
<1>3. copy'[p] = file /\ file' = file /\ spent' = spent /\ dbs' = dbs /\ cut' = cut
  BY <1>1 DEF Load, LoadDeprovision, Start
<1>4. CASE \E c \in Provisions, wanted \in SUBSET Resources : Load(p, c, wanted)
  <2>1. pc'[p] = "provision" /\ cmd'[p] # "deprovision"
    BY <1>1, <1>4 DEF Load, Start, Goto, Provisions
  <2>. QED
    BY <1>2, <1>3, <2>1 DEF SoleAt
<1>5. CASE \E r \in Resources : LoadDeprovision(p, r)
  <2>1. pc'[p] = "deprovision" /\ cmd'[p] = "deprovision"
    BY <1>1, <1>5 DEF LoadDeprovision, Start, Goto
  <2>. QED
    BY <1>2, <1>3, <2>1 DEF SoleAt
<1>. QED
  BY <1>4, <1>5

LEMMA SolePersists ==
    ASSUME IInv, NEW p \in Processes, SoleAt(p), Persist(p) \/ PersistFails(p) \/ Crash(p)
    PROVE  SoleAt(p)'
<1>. USE DEF fly, local, history
<1>1. pc \in [Processes -> Phases] /\ pc'[p] = "idle" /\ spent' = spent /\ dbs' = dbs
  BY DEF IInv, TypeOK, Persist, PersistFails, Crash, Goto
<1>2. CASE PersistFails(p) \/ Crash(p)
  <2>1. file' = file /\ cut' = cut /\ Present(file, dbs, cut)
    BY <1>2 DEF PersistFails, Crash, SoleAt
  <2>. QED
    BY <1>1, <2>1, SoleEnds
<1>3. CASE Persist(p)
  <2>1. /\ pc[p] \in {"persist", "persistOnly"} /\ file' = copy[p]
        /\ cut' = IF cmd[p] = "deprovision" THEN cut \ {res[p]} ELSE cut
    BY <1>3 DEF Persist
  <2>2. Apart(copy[p], spent) /\ Present(copy[p], dbs, cut)
    BY <2>1 DEF SoleAt
  <2>3. Present(copy[p], dbs, cut')
    <3>1. CASE cmd[p] = "deprovision"
      <4>1. Drops(file, copy[p], res[p])
        BY <2>1, <3>1 DEF SoleAt
      <4>. QED
        BY <2>1, <2>2, <3>1, <4>1 DEF Present, Drops
    <3>. QED
      BY <2>1, <2>2, <3>1
  <2>. QED
    BY <1>1, <2>1, <2>2, <2>3 DEF SoleAt
<1>. QED
  BY <1>2, <1>3

\* While commands do not overlap, no other process is under way when one moves.
LEMMA OthersIdle ==
    ASSUME IInv, SoleInv, NEW p \in Processes, Step(p), alone'
    PROVE  /\ alone
           /\ \A q \in Processes \ {p} : pc[q] = "idle" /\ pc'[q] = "idle"
<1>1. pc \in [Processes -> Phases]
  BY DEF IInv, TypeOK
<1>2. \A q \in Processes \ {p} : pc'[q] = pc[q]
  BY <1>1 DEF Step, Load, LoadDeprovision, Start, Provisioning, Deprovisioning,
     ProvisionStatic, ProvisionCluster, ProvisionDatabase, CreateDatabase, GrantAccess,
     EndProvision, ProvisionFails, CreateFails, DeleteCluster, DeleteDatabase,
     DeprovisionRefused, DeprovisionFails, Persist, PersistFails, Crash, Abort, Goto
<1>3. CASE \E c \in Provisions \cup {"deprovision"} : Start(p, c)
  BY <1>2, <1>3 DEF Start
<1>4. CASE pc[p] # "idle" /\ alone' = alone
  BY <1>2, <1>4 DEF SoleInv, Sole
<1>5. CASE Provisioning(p)
  BY <1>4, <1>5 DEF Provisioning, ProvisionStatic, ProvisionCluster, ProvisionDatabase,
     CreateDatabase, GrantAccess, EndProvision, ProvisionFails, CreateFails, history
<1>6. CASE Deprovisioning(p)
  BY <1>4, <1>6 DEF Deprovisioning, DeleteCluster, DeleteDatabase, DeprovisionRefused,
     DeprovisionFails, history
<1>7. CASE Persist(p) \/ PersistFails(p) \/ Crash(p)
  BY <1>4, <1>7 DEF Persist, PersistFails, Crash, history
<1>. QED
  BY <1>3, <1>5, <1>6, <1>7 DEF Step, Load, LoadDeprovision

LEMMA SoleKept == IInv /\ SoleInv /\ [Next]_vars => SoleInv'
<1>. SUFFICES ASSUME IInv, SoleInv, [Next]_vars, alone'
              PROVE  (/\ Sole
                      /\ Apart(file, spent) /\ Present(file, dbs, cut)
                      /\ \A p \in Processes : SoleAt(p))'
  BY DEF SoleInv
<1>1. CASE UNCHANGED vars
  BY <1>1 DEF vars, fly, local, history, SoleInv, Sole, SoleAt, Between
<1>2. CASE Next
  <2>1. PICK p \in Processes : Step(p)
    BY <1>2 DEF Next
  <2>2. alone /\ \A q \in Processes \ {p} : pc'[q] = "idle"
    BY <2>1, OthersIdle
  <2>3. SoleAt(p)
    BY <2>2 DEF SoleInv
  <2>4. SoleAt(p)'
    BY <2>1, <2>3, SoleStarts, SolePersists, SoleProvisions, SoleDeprovisions DEF Step
  <2>5. (Apart(file, spent) /\ Present(file, dbs, cut))'
    BY <2>4 DEF SoleAt
  <2>6. \A q \in Processes \ {p} : SoleAt(q)'
    BY <2>2, <2>5 DEF SoleAt
  <2>7. Sole'
    BY <2>2 DEF Sole
  <2>. QED
    BY <2>4, <2>5, <2>6, <2>7
<1>. QED
  BY <1>1, <1>2

(***************************************************************************)
(* As long as commands do not overlap, wherever they fail or are killed, a *)
(* database the state records is there, unless a deprovision was stopped   *)
(* before it was persisted: what builtinPostgresProvision does not look    *)
(* for again (postgres.go:104-107) need not be looked for.                 *)
(***************************************************************************)
THEOREM RecordedAreThere == Spec => []RecordedExist
<1>1. IInv /\ SoleInv => RecordedExist
  <2>. SUFFICES ASSUME SoleInv, alone, NEW r \in Databases \ cut, file.res[r].id # None
                PROVE  Held(r)
    BY DEF RecordedExist
  <2>. QED
    BY DEF SoleInv, Present, Held
<1>. QED
  BY InitInv, Inductive, SoleInit, SoleKept, <1>1, PTL DEF Spec

-----------------------------------------------------------------------------
(***************************************************************************)
(* What a step may lose.                                                   *)
(***************************************************************************)
LEMMA OnlyItsOwn ==
    ASSUME IInv, NEW p \in Processes, SoleAt(p), Step(p),
           NEW r \in Databases \cup Clusters, Held(r),
           ~(pc[p] # "idle" /\ cmd[p] = "deprovision" /\ res[p] = r)
    PROVE  Held(r)'
<1>. USE DEF fly, local, history
<1>1. /\ copy \in [Processes -> Document] /\ copy[p] \in Document /\ Agrees(copy[p])
      /\ pc \in [Processes -> Phases] /\ apps \subseteq Apps /\ dbs \subseteq Apps \X Names
  BY DEF IInv, TypeOK, Documents
<1>2. file.res[r].id # None /\ (r \in Databases => file.app # None)
  BY <1>1, ResourcesAssumption DEF Held
<1>3. ASSUME file' = file, apps \subseteq apps', dbs \subseteq dbs'
      PROVE  Held(r)'
  BY <1>3 DEF Held
<1>4. CASE Persist(p)
  <2>1. pc[p] \in {"persist", "persistOnly"} /\ file' = copy[p] /\ apps' = apps /\ dbs' = dbs
    BY <1>4 DEF Persist
  <2>2. CASE cmd[p] # "deprovision"
    <3>1. Carries(file, copy[p])
      BY <2>1, <2>2 DEF SoleAt
    <3>. QED
      BY <1>2, <2>1, <3>1 DEF Held, Carries
  <2>3. CASE cmd[p] = "deprovision"
    <3>1. Drops(file, copy[p], res[p]) /\ r # res[p]
      BY <2>1, <2>3 DEF SoleAt
    <3>2. copy[p].res[r].id = file.res[r].id
      BY <3>1 DEF Drops
    <3>3. ASSUME r \in Databases
          PROVE  copy[p].app = file.app
      <4>1. copy[p].res[r].id \in copy[p].names
        BY <1>1, <1>2, <3>2, <3>3 DEF Agrees
      <4>. QED
        BY <3>1, <4>1 DEF Drops
    <3>. QED
      BY <2>1, <3>2, <3>3 DEF Held
  <2>. QED
    BY <2>2, <2>3
<1>5. CASE Deprovisioning(p)
  <2>1. pc[p] = "deprovision" /\ file' = file
    BY <1>5 DEF Deprovisioning, DeleteCluster, DeleteDatabase, DeprovisionRefused, DeprovisionFails
  <2>2. copy[p] = file /\ cmd[p] = "deprovision" /\ Apart(copy[p], spent)
    BY <2>1 DEF SoleAt
  <2>3. r # res[p]
    BY <2>1, <2>2
  <2>4. r \in Databases => file.res[r].id \in Names
    BY <1>1, <1>2, <2>2 DEF Agrees, Document
  <2>5. ASSUME res[p] \in Clusters, Recorded(p) \in apps, RemoveApp(Recorded(p))
        PROVE  Held(r)'
    <3>1. copy[p].res[res[p]].id # None
      BY <1>1, <2>5, ResourcesAssumption DEF Recorded
    <3>2. /\ \A c \in Clusters \ {res[p]} : copy[p].res[c].id \in apps => copy[p].res[c].id \in apps'
          /\ \A n \in Names : <<copy[p].app, n>> \in dbs => <<copy[p].app, n>> \in dbs'
      BY <2>2, <2>5, <3>1, ClusterRemoved DEF Recorded
    <3>. QED
      BY <2>1, <2>2, <2>3, <2>4, <3>2 DEF Held
  <2>6. ASSUME Listed(p), RemoveDatabase(p)
        PROVE  Held(r)'
    <3>1. res[p] \in Databases /\ copy[p].res[res[p]].id \in copy[p].names
      BY <2>6 DEF Listed, Recorded
    <3>2. IF Last(res[p], copy[p]) THEN RemoveApp(copy[p].app)
          ELSE dbs' = dbs \ {<<copy[p].app, copy[p].res[res[p]].id>>} /\ UNCHANGED apps
      BY <2>6 DEF RemoveDatabase, Recorded
    <3>3. /\ \A c \in Clusters : copy[p].res[c].id \in apps => copy[p].res[c].id \in apps'
          /\ \A s \in Databases \ {res[p]} :
              copy[p].res[s].id # None /\ <<copy[p].app, copy[p].res[s].id>> \in dbs
                  => <<copy[p].app, copy[p].res[s].id>> \in dbs'
      BY <1>1, <2>2, <3>1, <3>2, DatabaseRemoved
    <3>. QED
      BY <1>2, <2>1, <2>2, <2>3, <3>3 DEF Held
  <2>7. CASE UNCHANGED <<apps, dbs>>
    BY <1>3, <2>1, <2>7
  <2>. QED
    BY <1>5, <2>5, <2>6, <2>7
    DEF Deprovisioning, DeleteCluster, DeleteDatabase, DeprovisionRefused, DeprovisionFails
<1>6. CASE Provisioning(p)
  <2>1. file' = file /\ apps \subseteq apps' /\ dbs \subseteq dbs'
    BY <1>6 DEF Provisioning, ProvisionStatic, ProvisionCluster, ProvisionDatabase, CreateDatabase,
               GrantAccess, EndProvision, ProvisionFails, CreateFails, EnsureApp
  <2>. QED
    BY <1>3, <2>1
<1>7. CASE \/ \E c \in Provisions, wanted \in SUBSET Resources : Load(p, c, wanted)
           \/ \E s \in Resources : LoadDeprovision(p, s)
           \/ PersistFails(p) \/ Crash(p)
  <2>1. file' = file /\ apps' = apps /\ dbs' = dbs
    BY <1>7 DEF Load, LoadDeprovision, Start, PersistFails, Crash
  <2>. QED
    BY <1>3, <2>1
<1>. QED
  BY <1>4, <1>5, <1>6, <1>7 DEF Step

(***************************************************************************)
(* As long as commands do not overlap, what the state records of a         *)
(* resource is destroyed only by a deprovision of that resource: not by    *)
(* one of another resource, though they share an app, and not by the next  *)
(* provision, whatever was left behind by a failure or a kill before.      *)
(***************************************************************************)
THEOREM OthersAreKept == Spec => OthersKept
<1>. DEFINE Kept == \A r \in Databases \cup Clusters :
        alone /\ Held(r) /\ ~Held(r)' =>
            \E p \in Processes : pc[p] # "idle" /\ cmd[p] = "deprovision" /\ res[p] = r
<1>1. IInv /\ SoleInv /\ [Next]_vars => [Kept]_vars
  <2>. SUFFICES ASSUME IInv, SoleInv, Next, alone,
                       NEW r \in Databases \cup Clusters, Held(r), ~Held(r)'
                PROVE  \E p \in Processes : pc[p] # "idle" /\ cmd[p] = "deprovision" /\ res[p] = r
    OBVIOUS
  <2>1. PICK p \in Processes : Step(p)
    BY DEF Next
  <2>2. SoleAt(p)
    BY DEF SoleInv
  <2>. QED
    BY <2>1, <2>2, OnlyItsOwn
<1>. QED
  BY InitInv, Inductive, SoleInit, SoleKept, <1>1, PTL DEF Spec, OthersKept

-----------------------------------------------------------------------------
(***************************************************************************)
(* Nothing made is forgotten, as long as no call fails, no process is      *)
(* killed and every command persists: what exists is in the file or, while *)
(* a command runs, in its copy or in its hands.                            *)
(***************************************************************************)
Clean == budget.faults = 0 /\ budget.crashes = 0 /\ budget.looks = 0

Extra(p) == IF pc[p] \in {"create", "grant"} THEN {app[p]} ELSE {}
ExtraDb(p) == IF pc[p] = "grant" THEN {<<app[p], name[p]>>} ELSE {}

Recalls(doc, xs, ys) ==
    /\ apps \subseteq xs \cup {doc.app} \cup {doc.res[r].id : r \in Clusters}
    /\ dbs \subseteq ys \cup {<<doc.app, n>> : n \in doc.names}

LeakAt(p) ==
    Clean =>
        /\ pc[p] = "idle" => Recalls(file, {}, {})
        /\ pc[p] # "idle" =>
            Recalls(copy[p], Extra(p), ExtraDb(p)) /\ cmd[p] # "look" /\ pc[p] # "persistOnly"

LeakInv ==
    alone =>
        /\ (\A p \in Processes : pc[p] = "idle") /\ Clean => Recalls(file, {}, {})
        /\ \A p \in Processes : pc[p] # "idle" => LeakAt(p)

\* A budget is only spent.
LEMMA OnlySpent ==
    ASSUME budget \in Budget, NEW what \in {"commands", "looks", "faults", "crashes"}, Spend(what)
    PROVE  Clean' => Clean /\ what = "commands"
<1>1. budget'[what] = budget[what] + 1 /\ \A k \in {"commands", "looks", "faults", "crashes"} \ {what} :
            budget'[k] = budget[k]
  BY DEF Spend, Budget
<1>2. budget'[what] # 0
  BY <1>1 DEF Budget
<1>. QED
  BY <1>1, <1>2 DEF Clean

\* The apps and the databases a document names.
Made(doc) == {doc.app} \cup {doc.res[r].id : r \in Clusters}
Listing(doc) == {<<doc.app, n>> : n \in doc.names}

\* An answer that keeps the ids, and takes over what the command had in its hands.
LEMMA StillRecalled ==
    ASSUME NEW p, Recalls(copy[p], Extra(p), ExtraDb(p)), apps \subseteq Apps, None \notin Apps,
           pc'[p] = "provision", apps' \subseteq apps \cup Made(copy'[p]), dbs' = dbs,
           Extra(p) \subseteq Made(copy'[p]), ExtraDb(p) \subseteq Listing(copy'[p]),
           copy[p].names # {} => copy'[p].app = copy[p].app,
           copy[p].names \subseteq copy'[p].names,
           copy[p].app = None \/ copy'[p].app = copy[p].app,
           \A c \in Clusters : copy[p].res[c].id = None \/ copy'[p].res[c].id = copy[p].res[c].id
    PROVE  Recalls(copy[p], Extra(p), ExtraDb(p))'
<1>1. Extra(p)' = {} /\ ExtraDb(p)' = {}
  BY DEF Extra, ExtraDb
<1>2. ASSUME NEW a \in apps
      PROVE  a \in Made(copy'[p])
  BY <1>2 DEF Recalls, Made
<1>3. ASSUME NEW d \in dbs
      PROVE  d \in Listing(copy'[p])
  BY <1>3 DEF Recalls, Listing
<1>4. apps' \subseteq Made(copy'[p]) /\ dbs' \subseteq Listing(copy'[p])
  BY <1>2, <1>3
<1>. QED
  BY <1>1, <1>4 DEF Recalls, Made, Listing

\* A provisioning step after which nothing has yet failed.
LEMMA ProvisionsRecalled ==
    ASSUME IInv, NEW p \in Processes, SoleAt(p), LeakAt(p), Provisioning(p), Clean'
    PROVE  LeakAt(p)'
<1>. USE DEF fly, local, history
<1>1. /\ copy \in [Processes -> Document] /\ copy[p] \in Document /\ Agrees(copy[p])
      /\ pc \in [Processes -> Phases] /\ apps \subseteq Apps /\ dbs \subseteq Apps \X Names
      /\ res \in [Processes -> Resources] /\ app \in [Processes -> Apps \cup {None}]
      /\ name \in [Processes -> Names \cup {None}] /\ budget \in Budget
  BY DEF IInv, TypeOK, Documents, Budget
<1>2. pc[p] \in {"provision", "create", "grant"} /\ file' = file /\ cmd' = cmd
  BY DEF Provisioning, ProvisionStatic, ProvisionCluster, ProvisionDatabase, CreateDatabase,
         GrantAccess, EndProvision, ProvisionFails, CreateFails
<1>3. ~ProvisionFails(p)
  BY <1>1, OnlySpent DEF ProvisionFails
<1>4. ~CreateFails(p)
  <2>1. SUFFICES ASSUME CreateFails(p) PROVE FALSE
    OBVIOUS
  <2>2. app[p] \in apps
    BY <2>1 DEF CreateFails, SoleAt, Between
  <2>3. Spend("faults")
    BY <2>1, <2>2 DEF CreateFails
  <2>. QED
    BY <1>1, <2>3, OnlySpent
<1>5. budget' = budget /\ Clean
  BY <1>3, <1>4
  DEF Provisioning, ProvisionStatic, ProvisionCluster, ProvisionDatabase, CreateDatabase,
      GrantAccess, EndProvision, Clean
<1>6. Recalls(copy[p], Extra(p), ExtraDb(p)) /\ cmd[p] # "look"
  BY <1>2, <1>5 DEF LeakAt
<1>7. None \notin Apps
  BY ResourcesAssumption
<1>8. ASSUME pc'[p] \in {"provision", "create", "grant", "persist"}, Recalls(copy[p], Extra(p), ExtraDb(p))'
      PROVE  LeakAt(p)'
  BY <1>2, <1>6, <1>8 DEF LeakAt
<1>9. CASE ProvisionStatic(p)
  <2>1. PICK r \in Statics : Answer(p, r, Own(r, copy[p]))
    BY <1>9 DEF ProvisionStatic
  <2>2. PICK new : new = Own(r, copy[p])
    OBVIOUS
  <2>3. r \in Resources
    BY DEF Resources
  <2>4. /\ new.app = copy[p].app /\ new.names = copy[p].names
        /\ \A s \in Clusters : new.res[s].id = copy[p].res[s].id
    BY <1>1, <2>2, <2>3, OwnKeeps, OwnApp DEF Resources
  <2>5. copy'[p] = new /\ pc' = pc /\ apps' = apps /\ dbs' = dbs /\ pc[p] = "provision"
    BY <1>1, <1>9, <2>1, <2>2 DEF Answer, ProvisionStatic
  <2>6. Recalls(copy[p], {}, {})
    BY <1>6, <2>5 DEF Extra, ExtraDb
  <2>7. /\ apps \subseteq {new.app} \cup {new.res[s].id : s \in Clusters}
        /\ dbs \subseteq {<<new.app, n>> : n \in new.names}
    BY <2>4, <2>6 DEF Recalls
  <2>. QED
    BY <1>8, <2>5, <2>7 DEF Recalls, Extra, ExtraDb
<1>10. CASE ProvisionCluster(p)
  <2>1. PICK r \in Clusters : \E a \in AppFor(copy[p].res[r].id) :
            EnsureApp(a) /\ Answer(p, r, OwnCluster(r, a, copy[p]))
    BY <1>10 DEF ProvisionCluster
  <2>2. PICK a \in AppFor(copy[p].res[r].id) :
            EnsureApp(a) /\ Answer(p, r, OwnCluster(r, a, copy[p]))
    BY <2>1
  <2>3. PICK new : new = OwnCluster(r, a, copy[p])
    OBVIOUS
  <2>4. a \in Apps /\ (copy[p].res[r].id # None => a = copy[p].res[r].id)
    BY <1>1, AppAsked DEF Agrees
  <2>5. /\ new.app = copy[p].app /\ new.names = copy[p].names
        /\ \A s \in Clusters : new.res[s].id = IF s = r THEN a ELSE copy[p].res[s].id
    BY <1>1, <2>3, <2>4, ClusterIds, OwnClusterKeeps DEF Resources
  <2>6. copy'[p] = new /\ pc' = pc /\ apps' = apps \cup {a} /\ dbs' = dbs /\ pc[p] = "provision"
    BY <1>1, <1>10, <2>2, <2>3 DEF Answer, EnsureApp, ProvisionCluster
  <2>7. Extra(p) = {} /\ ExtraDb(p) = {}
    BY <2>6 DEF Extra, ExtraDb
  <2>8. apps' \subseteq apps \cup Made(new)
    BY <2>5, <2>6 DEF Made
  <2>9. \A c \in Clusters : copy[p].res[c].id = None \/ new.res[c].id = copy[p].res[c].id
    BY <2>4, <2>5
  <2>10. Recalls(copy[p], Extra(p), ExtraDb(p))'
    BY <1>1, <1>6, <1>7, <2>5, <2>6, <2>7, <2>8, <2>9, StillRecalled
  <2>. QED
    BY <1>8, <2>6, <2>10
<1>11. CASE ProvisionDatabase(p)
  <2>1. PICK r \in Databases, a \in AppFor(copy[p].app) :
            /\ EnsureApp(a)
            /\ IF copy[p].res[r].id # None
               THEN Answer(p, r, ShareApp(r, a, copy[p])) /\ UNCHANGED <<pc, local>>
               ELSE /\ res' = [res EXCEPT ![p] = r]
                    /\ app' = [app EXCEPT ![p] = a]
                    /\ Goto(p, "create")
                    /\ UNCHANGED <<copy, todo, name>>
    BY <1>11 DEF ProvisionDatabase
  <2>2. a \in Apps /\ (copy[p].app # None => a = copy[p].app) /\ r \in Resources
    BY <1>1, AppAsked DEF Document, Resources
  <2>3. apps' = apps \cup {a} /\ dbs' = dbs /\ pc[p] = "provision"
    BY <1>11, <2>1 DEF EnsureApp, ProvisionDatabase
  <2>4. Recalls(copy[p], {}, {})
    BY <1>6, <2>3 DEF Extra, ExtraDb
  <2>5. CASE copy[p].res[r].id # None
    <3>1. PICK new : new = ShareApp(r, a, copy[p])
      OBVIOUS
    <3>2. /\ new.app = a /\ new.names = copy[p].names
          /\ \A s \in Clusters : new.res[s].id = copy[p].res[s].id
      BY <1>1, <2>2, <3>1, SharedIds, ShareKeeps DEF Resources
    <3>3. copy'[p] = new /\ pc' = pc
      BY <1>1, <2>1, <2>5, <3>1 DEF Answer
    <3>4. copy[p].names # {} => new.app = copy[p].app
      BY <1>1, <2>2, <3>2 DEF Agrees
    <3>5. apps' \subseteq apps \cup Made(new)
      BY <2>3, <3>2 DEF Made
    <3>6. Extra(p) = {} /\ ExtraDb(p) = {}
      BY <2>3 DEF Extra, ExtraDb
    <3>7. Recalls(copy[p], Extra(p), ExtraDb(p))'
      BY <1>1, <1>6, <1>7, <2>2, <2>3, <3>2, <3>3, <3>4, <3>5, <3>6, StillRecalled
    <3>. QED
      BY <1>8, <2>3, <3>3, <3>7
  <2>6. CASE copy[p].res[r].id = None
    <3>1. copy' = copy /\ pc'[p] = "create" /\ app'[p] = a
      BY <1>1, <2>1, <2>6 DEF Goto
    <3>2. Recalls(copy[p], Extra(p), ExtraDb(p))'
      BY <2>3, <2>4, <3>1 DEF Recalls, Extra, ExtraDb
    <3>. QED
      BY <1>8, <3>1, <3>2
  <2>. QED
    BY <2>5, <2>6
<1>12. CASE CreateDatabase(p)
  <2>1. PICK n : dbs' = dbs \cup {<<app[p], n>>} /\ name' = [name EXCEPT ![p] = n]
    BY <1>12 DEF CreateDatabase
  <2>2. /\ pc[p] = "create" /\ pc'[p] = "grant" /\ name'[p] = n
        /\ copy' = copy /\ app' = app /\ apps' = apps
    BY <1>1, <1>12, <2>1 DEF CreateDatabase, Goto
  <2>3. Recalls(copy[p], {app[p]}, {})
    BY <1>6, <2>2 DEF Extra, ExtraDb
  <2>4. Recalls(copy[p], Extra(p), ExtraDb(p))'
    BY <2>1, <2>2, <2>3 DEF Recalls, Extra, ExtraDb
  <2>. QED
    BY <1>8, <2>2, <2>4
<1>13. CASE GrantAccess(p)
  <2>1. /\ res[p] \in Databases /\ app[p] \in Apps /\ name[p] \in Names /\ pc[p] = "grant"
        /\ copy[p].res[res[p]].id = None /\ name[p] \notin copy[p].names
    BY <1>13 DEF GrantAccess, IInv, Pending
  <2>2. copy[p].app # None => app[p] = copy[p].app
    BY <2>1 DEF SoleAt, Between
  <2>3. PICK new : new = AddDatabase(res[p], app[p], name[p], copy[p])
    OBVIOUS
  <2>4. new.names = copy[p].names \cup {name[p]}
    BY <1>1, <2>1, <2>3, AddKeeps
  <2>5. /\ new.app = app[p]
        /\ \A s \in Resources : new.res[s].id = IF s = res[p] THEN name[p] ELSE copy[p].res[s].id
    BY <1>1, <2>1, <2>3, AddedIds
  <2>6. \A c \in Clusters : new.res[c].id = copy[p].res[c].id
    BY <2>1, <2>5, ResourcesAssumption DEF Resources
  <2>7. copy'[p] = new /\ pc'[p] = "provision" /\ apps' = apps /\ dbs' = dbs
    BY <1>1, <1>13, <2>3 DEF Answer, GrantAccess, Goto
  <2>8. copy[p].names # {} => new.app = copy[p].app
    BY <1>1, <2>2, <2>5 DEF Agrees
  <2>9. Extra(p) \subseteq Made(new) /\ ExtraDb(p) \subseteq Listing(new)
    BY <2>1, <2>4, <2>5 DEF Extra, ExtraDb, Made, Listing
  <2>10. Recalls(copy[p], Extra(p), ExtraDb(p))'
    BY <1>1, <1>6, <1>7, <2>2, <2>4, <2>5, <2>6, <2>7, <2>8, <2>9, StillRecalled
  <2>. QED
    BY <1>8, <2>7, <2>10
<1>14. CASE EndProvision(p)
  <2>1. copy' = copy /\ pc'[p] = "persist" /\ apps' = apps /\ dbs' = dbs /\ pc[p] = "provision"
    BY <1>1, <1>6, <1>14 DEF EndProvision, Goto
  <2>2. Recalls(copy[p], Extra(p), ExtraDb(p))'
    BY <1>6, <2>1 DEF Recalls, Extra, ExtraDb
  <2>. QED
    BY <1>8, <2>1, <2>2
<1>. QED
  BY <1>3, <1>4, <1>9, <1>10, <1>11, <1>12, <1>13, <1>14 DEF Provisioning

LEMMA DeprovisionsRecalled ==
    ASSUME IInv, NEW p \in Processes, SoleAt(p), LeakAt(p), Deprovisioning(p), Clean'
    PROVE  LeakAt(p)'
<1>. USE DEF fly, local, history
<1>1. /\ copy \in [Processes -> Document] /\ copy[p] \in Document /\ Agrees(copy[p])
      /\ pc \in [Processes -> Phases] /\ apps \subseteq Apps /\ dbs \subseteq Apps \X Names
      /\ budget \in Budget
  BY DEF IInv, TypeOK, Documents, Budget
<1>2. pc[p] = "deprovision" /\ file' = file /\ cmd' = cmd
  BY DEF Deprovisioning, DeleteCluster, DeleteDatabase, DeprovisionRefused, DeprovisionFails
<1>3. copy[p] = file /\ cmd[p] = "deprovision"
  BY <1>2 DEF SoleAt
<1>4. ~DeprovisionFails(p)
  BY <1>1, OnlySpent DEF DeprovisionFails
<1>5. budget' = budget /\ Clean
  BY <1>4 DEF Deprovisioning, DeleteCluster, DeleteDatabase, DeprovisionRefused, Clean
<1>6. Recalls(copy[p], {}, {})
  BY <1>2, <1>5 DEF LeakAt, Extra, ExtraDb
<1>7. CASE DeleteCluster(p) \/ DeprovisionRefused(p)
  <2>1. pc'[p] = "idle" /\ apps' \subseteq apps /\ dbs' \subseteq dbs
    BY <1>1, <1>7 DEF DeleteCluster, RemoveApp, DeprovisionRefused, Goto
  <2>2. Recalls(file, {}, {})'
    BY <1>2, <1>3, <1>6, <2>1 DEF Recalls
  <2>. QED
    BY <2>1, <2>2 DEF LeakAt
<1>8. CASE DeleteDatabase(p)
  <2>1. res[p] \in Databases
    BY <1>8 DEF DeleteDatabase, Listed
  <2>2. PICK new : new = Dropped(res[p], copy[p])
    OBVIOUS
  <2>3. /\ new.app = IF Last(res[p], copy[p]) THEN None ELSE copy[p].app
        /\ new.names = copy[p].names \ {copy[p].res[res[p]].id}
        /\ \A s \in Resources : new.res[s].id = IF s = res[p] THEN None ELSE copy[p].res[s].id
    BY <1>1, <2>1, <2>2, DroppedIds
  <2>4. \A c \in Clusters : new.res[c].id = copy[p].res[c].id
    BY <2>1, <2>3, ResourcesAssumption DEF Resources
  <2>5. copy'[p] = new /\ pc'[p] = "persist"
    BY <1>1, <1>8, <2>2 DEF DeleteDatabase, Goto
  <2>6. apps' \subseteq Made(new) /\ dbs' \subseteq Listing(new)
    <3>1. CASE Last(res[p], copy[p])
      <4>1. apps' = apps \ {copy[p].app} /\ dbs' = {d \in dbs : d[1] # copy[p].app}
        BY <1>8, <3>1 DEF DeleteDatabase, RemoveDatabase, RemoveApp
      <4>. QED
        BY <1>6, <2>3, <2>4, <4>1 DEF Recalls, Made, Listing
    <3>2. CASE ~Last(res[p], copy[p])
      <4>1. apps' = apps /\ dbs' = dbs \ {<<copy[p].app, copy[p].res[res[p]].id>>}
        BY <1>8, <3>2 DEF DeleteDatabase, RemoveDatabase, Recorded
      <4>2. new.app = copy[p].app
        BY <2>3, <3>2
      <4>3. apps' \subseteq Made(new)
        BY <1>6, <2>4, <4>1, <4>2 DEF Recalls, Made
      <4>4. ASSUME NEW d \in dbs'
            PROVE  d \in Listing(new)
        <5>1. PICK n \in copy[p].names : d = <<copy[p].app, n>>
          BY <1>6, <4>1, <4>4 DEF Recalls
        <5>2. n \in new.names
          BY <2>3, <4>1, <4>4, <5>1
        <5>. QED
          BY <4>2, <5>1, <5>2 DEF Listing
      <4>. QED
        BY <4>3, <4>4
    <3>. QED
      BY <3>1, <3>2
  <2>7. Recalls(copy[p], Extra(p), ExtraDb(p))'
    BY <2>5, <2>6 DEF Recalls, Made, Listing, Extra, ExtraDb
  <2>. QED
    BY <1>2, <1>3, <2>5, <2>7 DEF LeakAt
<1>. QED
  BY <1>4, <1>7, <1>8 DEF Deprovisioning

LEMMA LeakInit == Init => LeakInv
  BY DEF Init, LeakInv, Recalls

LEMMA LeakSteps ==
    ASSUME IInv, NEW p \in Processes, SoleAt(p), LeakAt(p), Step(p)
    PROVE  LeakAt(p)'
<1>. SUFFICES ASSUME Clean' PROVE LeakAt(p)'
  BY DEF LeakAt
<1>. USE DEF fly, local, history
<1>1. /\ copy \in [Processes -> Document] /\ pc \in [Processes -> Phases] /\ budget \in Budget
      /\ cmd \in [Processes -> Provisions \cup {"deprovision"}]
  BY DEF IInv, TypeOK, Budget
<1>2. ~PersistFails(p) /\ ~Crash(p)
  BY <1>1, OnlySpent DEF PersistFails, Crash
<1>3. ASSUME NEW c \in Provisions \cup {"deprovision"}, Start(p, c), pc'[p] \in {"provision", "deprovision"}
      PROVE  LeakAt(p)'
  <2>1. c # "look" /\ Clean
    BY <1>1, <1>3, OnlySpent DEF Start
  <2>2. pc[p] = "idle" /\ copy'[p] = file /\ cmd'[p] = c /\ apps' = apps /\ dbs' = dbs
    BY <1>1, <1>3 DEF Start
  <2>3. Recalls(file, {}, {})
    BY <2>1, <2>2 DEF LeakAt
  <2>4. Recalls(copy[p], Extra(p), ExtraDb(p))'
    BY <1>3, <2>2, <2>3 DEF Recalls, Extra, ExtraDb
  <2>. QED
    BY <1>3, <2>1, <2>2, <2>4 DEF LeakAt
<1>4. CASE \E c \in Provisions, wanted \in SUBSET Resources : Load(p, c, wanted)
  <2>1. PICK c \in Provisions : Start(p, c) /\ pc'[p] = "provision"
    BY <1>1, <1>4 DEF Load, Goto
  <2>. QED
    BY <1>3, <2>1
<1>5. CASE \E r \in Resources : LoadDeprovision(p, r)
  <2>1. Start(p, "deprovision") /\ pc'[p] = "deprovision"
    BY <1>1, <1>5 DEF LoadDeprovision, Goto
  <2>. QED
    BY <1>3, <2>1
<1>6. CASE Persist(p)
  <2>1. /\ pc[p] \in {"persist", "persistOnly"} /\ pc'[p] = "idle" /\ file' = copy[p]
        /\ apps' = apps /\ dbs' = dbs /\ budget' = budget
    BY <1>1, <1>6 DEF Persist, Goto
  <2>2. Recalls(copy[p], {}, {})
    BY <2>1 DEF Clean, LeakAt, Extra, ExtraDb
  <2>. QED
    BY <2>1, <2>2 DEF LeakAt, Recalls
<1>. QED
  BY <1>2, <1>4, <1>5, <1>6, ProvisionsRecalled, DeprovisionsRecalled DEF Step

LEMMA LeakKept == IInv /\ SoleInv /\ LeakInv /\ [Next]_vars => LeakInv'
<1>. SUFFICES ASSUME IInv, SoleInv, LeakInv, [Next]_vars, alone'
              PROVE  (/\ (\A p \in Processes : pc[p] = "idle") /\ Clean => Recalls(file, {}, {})
                      /\ \A p \in Processes : pc[p] # "idle" => LeakAt(p))'
  BY DEF LeakInv
<1>1. CASE UNCHANGED vars
  BY <1>1 DEF vars, fly, local, history, LeakInv, LeakAt, Recalls, Extra, ExtraDb, Clean
<1>2. CASE Next
  <2>1. PICK p \in Processes : Step(p)
    BY <1>2 DEF Next
  <2>2. alone /\ \A q \in Processes \ {p} : pc[q] = "idle" /\ pc'[q] = "idle"
    BY <2>1, OthersIdle
  <2>3. LeakAt(p)
    <3>1. CASE pc[p] = "idle"
      <4>1. Clean => Recalls(file, {}, {})
        BY <2>2, <3>1 DEF LeakInv
      <4>. QED
        BY <3>1, <4>1 DEF LeakAt
    <3>. QED
      BY <2>2, <3>1 DEF LeakInv
  <2>4. SoleAt(p)
    BY <2>2 DEF SoleInv
  <2>5. LeakAt(p)'
    BY <2>1, <2>3, <2>4, LeakSteps
  <2>6. (\A q \in Processes : pc'[q] = "idle") /\ Clean' => Recalls(file, {}, {})'
    BY <2>5 DEF LeakAt
  <2>7. \A q \in Processes : pc'[q] # "idle" => q = p
    BY <2>2
  <2>. QED
    BY <2>5, <2>6, <2>7
<1>. QED
  BY <1>1, <1>2

(***************************************************************************)
(* After commands that did not overlap, no call of which failed, and that  *)
(* persist: every app and every database ever made and not removed is in   *)
(* the state between two commands, whatever the resources asked for.       *)
(***************************************************************************)
THEOREM NothingIsLeaked == Spec => []NothingLeaks
<1>1. IInv /\ LeakInv => NothingLeaks
  <2>. SUFFICES ASSUME IInv, LeakInv, alone, \A p \in Processes : pc[p] = "idle",
                       Mishaps + budget.looks = 0
                PROVE  /\ apps \subseteq {file.app} \cup {file.res[r].id : r \in Clusters}
                       /\ dbs \subseteq {<<file.app, n>> : n \in file.names}
    BY DEF NothingLeaks
  <2>1. budget.faults \in Nat /\ budget.crashes \in Nat /\ budget.looks \in Nat
    BY DEF IInv, TypeOK
  <2>2. Clean
    BY <2>1 DEF Mishaps, Clean
  <2>3. Recalls(file, {}, {})
    BY <2>2 DEF LeakInv
  <2>. QED
    BY <2>3 DEF Recalls
<1>. QED
  BY InitInv, Inductive, SoleInit, SoleKept, LeakInit, LeakKept, <1>1, PTL DEF Spec

-----------------------------------------------------------------------------
(***************************************************************************)
(* How far DeprovisionRemoves, which a run refutes, holds: for databases,  *)
(* and for nothing else.                                                   *)
(***************************************************************************)
\* For any resources and however many processes: a deprovision of a database that is
\* listed, and whose app is there, goes on to persist, unless a call fails or the
\* process is killed (postgres.go answers for a database, provisioning.go:194-203).
THEOREM DatabasesAreRemoved ==
    Spec => [][\A p \in Processes :
                pc[p] = "deprovision" /\ pc'[p] # pc[p] /\ Listed(p) /\ copy[p].app \in apps =>
                    pc'[p] = "persist" \/ Mishaps' > Mishaps]_vars
<1>. DEFINE Removed(p) ==
        pc[p] = "deprovision" /\ pc'[p] # pc[p] /\ Listed(p) /\ copy[p].app \in apps =>
            pc'[p] = "persist" \/ Mishaps' > Mishaps
<1>1. IInv /\ [Next]_vars => [\A p \in Processes : Removed(p)]_vars
  <2>. SUFFICES ASSUME IInv, Next, NEW p \in Processes, pc[p] = "deprovision", pc'[p] # pc[p],
                       Listed(p), copy[p].app \in apps
                PROVE  pc'[p] = "persist" \/ Mishaps' > Mishaps
    OBVIOUS
  <2>1. pc \in [Processes -> Phases] /\ budget \in Budget
    BY DEF IInv, TypeOK, Budget
  <2>2. Spend("faults") \/ Spend("crashes") => Mishaps' > Mishaps
    BY <2>1 DEF Spend, Budget, Mishaps
  <2>3. PICK q \in Processes : Step(q)
    BY DEF Next
  <2>4. q # p => pc'[p] = pc[p]
    BY <2>1, <2>3 DEF Step, Load, LoadDeprovision, Start, Provisioning, Deprovisioning,
       ProvisionStatic, ProvisionCluster, ProvisionDatabase, CreateDatabase, GrantAccess,
       EndProvision, ProvisionFails, CreateFails, DeleteCluster, DeleteDatabase,
       DeprovisionRefused, DeprovisionFails, Persist, PersistFails, Crash, Abort, Goto
  <2>5. Step(p)
    BY <2>3, <2>4
  <2>6. Deprovisioning(p) \/ Crash(p)
    BY <2>5 DEF Step, Load, LoadDeprovision, Start, Provisioning,
       ProvisionStatic, ProvisionCluster, ProvisionDatabase, CreateDatabase, GrantAccess,
       EndProvision, ProvisionFails, CreateFails, Persist, PersistFails
  <2>7. CASE DeleteDatabase(p)
    BY <2>1, <2>7 DEF DeleteDatabase, Goto
  <2>8. CASE DeleteCluster(p) \/ DeprovisionRefused(p)
    BY <2>8, ResourcesAssumption DEF DeleteCluster, DeprovisionRefused, Listed
  <2>9. CASE DeprovisionFails(p) \/ Crash(p)
    BY <2>2, <2>9 DEF DeprovisionFails, Crash
  <2>. QED
    BY <2>6, <2>7, <2>8, <2>9 DEF Deprovisioning
<1>. QED
  BY InitInv, Inductive, <1>1, PTL DEF Spec

\* A document has everything of another that a deprovision does not remove.
Retains(old, doc) ==
    \A r \in Clusters \cup Statics : old.res[r].owned => doc.res[r].owned

LEMMA AnswersRetain ==
    ASSUME NEW doc \in Document, NEW r \in Resources, NEW a, NEW n
    PROVE  /\ Retains(doc, Own(r, doc)) /\ Retains(doc, OwnCluster(r, a, doc))
           /\ Retains(doc, ShareApp(r, a, doc)) /\ Retains(doc, AddDatabase(r, a, n, doc))
<1>1. DOMAIN doc.res = Resources /\ Clusters \cup Statics \subseteq Resources
  BY DEF Document, Resources
<1>2. Retains(doc, Own(r, doc))
  BY <1>1 DEF Retains, Own, Document
<1>3. Retains(doc, OwnCluster(r, a, doc))
  BY <1>1 DEF Retains, OwnCluster, Document
<1>4. ShareApp(r, a, doc).res = Own(r, doc).res
  BY DEF ShareApp, Own, Document
<1>5. Retains(doc, AddDatabase(r, a, n, doc))
  BY <1>1 DEF Retains, AddDatabase, Document
<1>. QED
  BY <1>2, <1>3, <1>4, <1>5 DEF Retains

LEMMA DroppedRetains ==
    ASSUME NEW doc \in Document, NEW r \in Databases
    PROVE  Retains(doc, Dropped(r, doc))
<1>1. Dropped(r, doc).res = Forget(r, doc).res
  BY DEF Dropped, Forget, Document
<1>2. \A s \in Clusters \cup Statics : s \in Resources /\ s # r
  BY ResourcesAssumption DEF Resources
<1>3. \A s \in Clusters \cup Statics : Forget(r, doc).res[s] = doc.res[s]
  BY <1>2 DEF Forget, Document
<1>. QED
  BY <1>1, <1>3 DEF Retains

RetainInv == alone => \A p \in Processes : pc[p] # "idle" => Retains(file, copy[p])

LEMMA RetainStep ==
    ASSUME IInv, SoleInv, RetainInv, [Next]_vars
    PROVE  RetainInv' /\ (alone => Retains(file, file'))
<1>. USE DEF fly, local, history
<1>1. CASE UNCHANGED vars
  BY <1>1 DEF vars, RetainInv, Retains
<1>. SUFFICES ASSUME NEW p \in Processes, Step(p), alone, pc[p] # "idle" => Retains(file, copy[p])
              PROVE  (pc'[p] # "idle" => Retains(file', copy'[p])) /\ Retains(file, file')
  <2>1. ASSUME NEW p \in Processes, Step(p), alone'
        PROVE  alone /\ \A q \in Processes \ {p} : pc'[q] = "idle"
    BY <2>1, OthersIdle
  <2>. QED
    BY <1>1, <2>1 DEF Next, RetainInv
<1>2. copy \in [Processes -> Document] /\ copy[p] \in Document /\ pc \in [Processes -> Phases]
  BY DEF IInv, TypeOK
<1>3. \A a, b, c : Retains(a, a) /\ (Retains(a, b) /\ Retains(b, c) => Retains(a, c))
  BY DEF Retains
<1>4. ASSUME UNCHANGED file, pc[p] # "idle" \/ pc'[p] = "idle",
             pc'[p] = "idle" \/ Retains(copy[p], copy'[p])
      PROVE  (pc'[p] # "idle" => Retains(file', copy'[p])) /\ Retains(file, file')
  BY <1>3, <1>4
<1>5. ASSUME NEW c, Start(p, c)
      PROVE  (pc'[p] # "idle" => Retains(file', copy'[p])) /\ Retains(file, file')
  BY <1>2, <1>3, <1>5 DEF Start
<1>6. ASSUME Provisioning(p)
      PROVE  UNCHANGED file /\ pc[p] # "idle" /\ Retains(copy[p], copy'[p])
  <2>1. \A r \in Databases \cup Clusters \cup Statics : r \in Resources
    BY DEF Resources
  <2>2. CASE ProvisionStatic(p)
    BY <1>2, <2>1, <2>2, AnswersRetain DEF ProvisionStatic, Answer
  <2>3. CASE ProvisionCluster(p)
    BY <1>2, <2>1, <2>3, AnswersRetain DEF ProvisionCluster, Answer
  <2>4. CASE ProvisionDatabase(p)
    <3>1. copy' = copy \/ \E r \in Resources, a \in AppFor(copy[p].app) : copy' = [copy EXCEPT ![p] = ShareApp(r, a, copy[p])]
      BY <2>1, <2>4 DEF ProvisionDatabase, Answer
    <3>. QED
      BY <1>2, <1>3, <2>4, <3>1, AnswersRetain DEF ProvisionDatabase
  <2>5. CASE CreateDatabase(p) \/ EndProvision(p) \/ CreateFails(p)
    BY <1>3, <2>5 DEF CreateDatabase, EndProvision, CreateFails
  <2>6. CASE GrantAccess(p)
    <3>1. res[p] \in Resources
      BY DEF IInv, TypeOK
    <3>. QED
      BY <1>2, <2>6, <3>1, AnswersRetain DEF GrantAccess, Answer
  <2>7. CASE ProvisionFails(p)
    <3>1. copy' = copy \/ \E r \in Resources : \E a :
            \/ copy' = [copy EXCEPT ![p] = OwnCluster(r, a, copy[p])]
            \/ copy' = [copy EXCEPT ![p] = ShareApp(r, a, copy[p])]
      <4>1. copy' = copy \/ \E r \in todo[p] \ Statics : \E a :
              copy' = [copy EXCEPT ![p] =
                    IF r \in Clusters THEN OwnCluster(r, a, @) ELSE ShareApp(r, a, @)]
        BY <2>7 DEF ProvisionFails
      <4>2. todo[p] \subseteq Resources
        BY DEF IInv, TypeOK
      <4>. QED
        BY <4>1, <4>2
    <3>. QED
      BY <1>2, <1>3, <2>7, <3>1, AnswersRetain DEF ProvisionFails
  <2>. QED
    BY <1>6, <2>2, <2>3, <2>4, <2>5, <2>6, <2>7 DEF Provisioning
<1>7. CASE Deprovisioning(p)
  <2>1. UNCHANGED file /\ pc[p] # "idle"
    BY <1>7 DEF Deprovisioning, DeleteCluster, DeleteDatabase, DeprovisionRefused, DeprovisionFails
  <2>2. CASE DeleteDatabase(p)
    <3>1. res[p] \in Databases /\ copy' = [copy EXCEPT ![p] = Dropped(res[p], copy[p])]
      BY <2>2 DEF DeleteDatabase, Listed
    <3>. QED
      BY <1>2, <1>4, <2>1, <3>1, DroppedRetains
  <2>3. CASE DeleteCluster(p) \/ DeprovisionRefused(p) \/ DeprovisionFails(p)
    BY <1>3, <1>4, <2>1, <2>3 DEF DeleteCluster, DeprovisionRefused, DeprovisionFails
  <2>. QED
    BY <1>7, <2>2, <2>3 DEF Deprovisioning
<1>8. CASE Persist(p)
  <2>1. pc[p] # "idle" /\ file' = copy[p] /\ pc'[p] = "idle"
    BY <1>2, <1>8 DEF Persist, Goto
  <2>. QED
    BY <2>1
<1>9. CASE PersistFails(p) \/ Crash(p)
  BY <1>2, <1>3, <1>4, <1>9 DEF PersistFails, Crash, Goto
<1>10. CASE \/ \E c \in Provisions, wanted \in SUBSET Resources : Load(p, c, wanted)
            \/ \E r \in Resources : LoadDeprovision(p, r)
  BY <1>5, <1>10 DEF Load, LoadDeprovision
<1>. QED
  BY <1>4, <1>6, <1>7, <1>8, <1>9, <1>10 DEF Step

\* As long as commands do not overlap, a cluster or a static resource, once the state
\* has it, stays there whatever is run, because a provisioner that answers nothing makes the caller
\* fail before it removes the resource (provisioning.go:194, postgres.go:74) - also
\* after a deprovision that has deleted the cluster's app.
THEOREM ClustersAndStaticsStay ==
    Spec => [][alone => \A r \in Clusters \cup Statics : file.res[r].owned => file'.res[r].owned]_vars
<1>1. Init => RetainInv
  BY DEF Init, RetainInv
<1>2. IInv /\ SoleInv /\ RetainInv /\ [Next]_vars =>
        /\ RetainInv'
        /\ alone => \A r \in Clusters \cup Statics : file.res[r].owned => file'.res[r].owned
  BY RetainStep DEF Retains
<1>. QED
  BY InitInv, Inductive, SoleInit, SoleKept, <1>1, <1>2, PTL DEF Spec
=============================================================================
