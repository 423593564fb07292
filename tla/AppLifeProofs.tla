--------------------------- MODULE AppLifeProofs ---------------------------
(***************************************************************************)
(* Theorems about the life of an app, for any number of operators,         *)
(* machines, secrets, attempts and calls that go wrong.                    *)
(*                                                                         *)
(* What they rest on: ids are not used again, and a machine stays managed, *)
(* or not, as long as it is there (Later).  So what a command has read is  *)
(* never worse than out of date, and what it is about to touch is managed, *)
(* or gone (Tame).  The invariant, LifeInv, says this of every command at  *)
(* every place it can be at.                                               *)
(***************************************************************************)
EXTENDS AppLife, WellFoundedInduction, TLAPS

\* A set of numbers that is not empty has a least element.
LEMMA LeastElement ==
    ASSUME NEW S, S \subseteq Nat, S # {}
    PROVE  Min(S) \in S
<1>1. PICK x \in S : \A y \in S : ~(<<y, x>> \in OpToRel(<, Nat))
  BY NatLessThanWellFounded, WFMin
<1>2. \A y \in S : <<y, x>> \in OpToRel(<, Nat) <=> y < x
  BY DEF OpToRel
<1>3. \A y \in S : ~(y < x)
  BY <1>1, <1>2
<1>4. \A y \in S : x <= y
  BY <1>3
<1>. QED
  BY <1>4 DEF Min

\* The request of each place comes to the endpoint it is meant for.
LEMMA Routes ==
    ASSUME NEW s, NEW r
    PROVE  /\ r.at \in {"lookup", "lookup again"} => Endpoint(s, Sent(r)) = AppsShow(s)
           /\ r.at = "create app" => Endpoint(s, Sent(r)) = AppsCreate(s)
           /\ r.at = "delete app" => Endpoint(s, Sent(r)) = AppsDelete(s)
           /\ r.at = "secrets" => Endpoint(s, Sent(r)) = SecretCreate(s)
           /\ r.at \in {"list", "relist"} => Endpoint(s, Sent(r)) = MachinesList(s)
           /\ r.at = "show" => Endpoint(s, Sent(r)) = MachinesShow(s, r.id)
           /\ r.at = "create" => Endpoint(s, Sent(r)) = MachinesCreate(s, r.config)
           /\ r.at = "update" => Endpoint(s, Sent(r)) = MachinesUpdate(s, r.id,
                                    [config |-> r.config, instance |-> r.instance])
           /\ r.at = "rollback" => Endpoint(s, Sent(r)) = MachinesDelete(s, r.id)
           /\ r.at \in {"prune", "delete"} =>
                Endpoint(s, Sent(r)) = MachinesDelete(s, Min(r.todo))
           /\ r.at = "events" => Endpoint(s, Sent(r)) = MachinesListEvents(s, Min(r.todo))
           /\ r.at \in Actions => Endpoint(s, Sent(r)) = MachinesAct(s, Min(r.todo))
<1>. USE DEF Endpoint, Sent, Request
<1>1. ASSUME r.at \in {"lookup", "lookup again"}
     PROVE  Endpoint(s, Sent(r)) = AppsShow(s)
  <2>1. Sent(r) = AppsShowRequest(App)
    BY <1>1
  <2>2. Endpoint(s, AppsShowRequest(App)) = AppsShow(s)
    BY DEF AppsShowRequest
  <2>. QED
    BY ONLY <2>1, <2>2
<1>2. ASSUME r.at = "create app"
     PROVE  Endpoint(s, Sent(r)) = AppsCreate(s)
  <2>1. Sent(r) = AppsCreateRequest(App)
    BY <1>2
  <2>2. Endpoint(s, AppsCreateRequest(App)) = AppsCreate(s)
    BY DEF AppsCreateRequest
  <2>. QED
    BY ONLY <2>1, <2>2
<1>3. ASSUME r.at = "delete app"
     PROVE  Endpoint(s, Sent(r)) = AppsDelete(s)
  <2>1. Sent(r) = AppsDeleteRequest(App)
    BY <1>3
  <2>2. Endpoint(s, AppsDeleteRequest(App)) = AppsDelete(s)
    BY DEF AppsDeleteRequest
  <2>. QED
    BY ONLY <2>1, <2>2
<1>4. r.at = "secrets" => Endpoint(s, Sent(r)) = SecretCreate(s)
  BY DEF SecretCreateRequest
<1>5. ASSUME r.at \in {"list", "relist"}
     PROVE  Endpoint(s, Sent(r)) = MachinesList(s)
  <2>1. Sent(r) = MachinesListRequest(App)
    BY <1>5
  <2>2. Endpoint(s, MachinesListRequest(App)) = MachinesList(s)
    BY DEF MachinesListRequest
  <2>. QED
    BY ONLY <2>1, <2>2
<1>6. r.at = "show" => Endpoint(s, Sent(r)) = MachinesShow(s, r.id)
  BY DEF MachinesShowRequest
<1>7. r.at = "create" => Endpoint(s, Sent(r)) = MachinesCreate(s, r.config)
  BY DEF MachinesCreateRequest
<1>8. r.at = "update" => Endpoint(s, Sent(r)) = MachinesUpdate(s, r.id,
                            [config |-> r.config, instance |-> r.instance])
  BY DEF MachinesUpdateRequest
<1>9. r.at = "rollback" => Endpoint(s, Sent(r)) = MachinesDelete(s, r.id)
  BY DEF MachinesDeleteRequest
<1>10. r.at \in {"prune", "delete"} =>
        Endpoint(s, Sent(r)) = MachinesDelete(s, Min(r.todo))
  BY DEF MachinesDeleteRequest
<1>11. r.at = "events" => Endpoint(s, Sent(r)) = MachinesListEvents(s, Min(r.todo))
  BY DEF MachinesListEventsRequest
<1>12. ASSUME r.at \in Actions
      PROVE  Endpoint(s, Sent(r)) = MachinesAct(s, Min(r.todo))
  <2>. USE <1>12 DEF Actions
  <2>1. CASE r.at = "suspend"
    BY <2>1 DEF MachinesSuspendRequest
  <2>2. CASE r.at = "start"
    BY <2>2 DEF MachinesStartRequest
  <2>3. CASE r.at = "stop"
    BY <2>3 DEF MachinesStopRequest
  <2>4. CASE r.at = "restart"
    BY <2>4 DEF MachinesRestartRequest
  <2>. QED
    BY <2>1, <2>2, <2>3, <2>4
<1>. HIDE DEF Endpoint, Sent, Request
<1>. QED
  BY <1>1, <1>2, <1>3, <1>4, <1>5, <1>6, <1>7, <1>8, <1>9, <1>10, <1>11, <1>12

-----------------------------------------------------------------------------
(***************************************************************************)
(* Fly.                                                                    *)
(***************************************************************************)
Devices == [Ids -> Device \cup {Nil}]
FlyType == [app : BOOLEAN, live : Devices, used : SUBSET Ids]

\* Only an app has machines, and their ids are spent.
FlyInv(s) == \A i \in Ids : s.live[i] # Nil => s.app /\ i \in s.used

\* Of what is or was there: gone, or managed.
Tame(s, i) == i \in s.used /\ (s.live[i] = Nil \/ s.live[i].config # Nil)

\* What Fly may become: ids are not used again, and what is managed, or not, stays so.
Later(s, t) ==
    /\ s.used \subseteq t.used
    /\ \A i \in s.used :
        /\ s.live[i] = Nil => t.live[i] = Nil
        /\ Tame(s, i) => Tame(t, i)
        /\ i \in Managed(t.live) => i \in Managed(s.live)

\* A machine that is lost was managed, or the app is lost.
Loses(s, t, place) ==
    \A i \in Ids : s.live[i] # Nil /\ t.live[i] = Nil =>
        \/ t.app /\ s.live[i].config # Nil
        \/ ~t.app /\ place = "delete app"

\* A reply of Fly is a state that may follow and an answer in json.
Sound(s, reply, place) ==
    /\ reply.to \in FlyType /\ FlyInv(reply.to) /\ Later(s, reply.to)
    /\ Loses(s, reply.to, place)
    /\ reply.answer \in Answers /\ reply.answer.body = "json"

LEMMA Stays ==
    ASSUME NEW s, NEW place
    PROVE  Later(s, s) /\ Loses(s, s, place)
  BY DEF Later, Loses

LEMMA OneDevice ==
    ASSUME NEW s \in FlyType, NEW id
    PROVE  Only(s, id) \in Devices
  BY DEF Only, Devices, FlyType

LEMMA Added ==
    ASSUME NEW s \in FlyType, FlyInv(s), s.app, NEW i \in Ids \ s.used,
           NEW config \in Configs \cup {Nil}, NEW place
    PROVE  /\ With(s, i, config) \in FlyType /\ FlyInv(With(s, i, config))
           /\ Later(s, With(s, i, config)) /\ Loses(s, With(s, i, config), place)
           /\ With(s, i, config).live[i] = [config |-> config, instance |-> 1]
           /\ i \in With(s, i, config).used
<1>. DEFINE d == [config |-> config, instance |-> 1]
<1>1. d \in Device /\ d # Nil
  BY AppLifeAssumption DEF Device
<1>2. PICK t : t = With(s, i, config)
  OBVIOUS
<1>3. t.app = s.app /\ t.live = [s.live EXCEPT ![i] = d] /\ t.used = s.used \cup {i}
  BY <1>2 DEF With, FlyType
<1>4. \A j \in Ids : t.live[j] = IF j = i THEN d ELSE s.live[j]
  BY <1>3 DEF FlyType, Devices
<1>5. t \in FlyType
  <2>1. DOMAIN t = {"app", "live", "used"} /\ t = [f \in DOMAIN t |-> t[f]]
    BY <1>2 DEF With, FlyType
  <2>2. t.app \in BOOLEAN /\ t.live \in Devices /\ t.used \in SUBSET Ids
    BY <1>1, <1>3 DEF FlyType, Devices
  <2>. QED
    BY <2>1, <2>2 DEF FlyType
<1>6. FlyInv(t)
  BY <1>3, <1>4 DEF FlyInv, FlyType
<1>7. Later(s, t)
  BY <1>3, <1>4 DEF Later, Tame, Managed, FlyType
<1>8. Loses(s, t, place)
  BY <1>1, <1>4 DEF Loses
<1>. QED
  BY <1>2, <1>3, <1>4, <1>5, <1>6, <1>7, <1>8

\* A machine that is managed, or gone, is deleted.
LEMMA Removed ==
    ASSUME NEW s \in FlyType, FlyInv(s), NEW i \in Ids, NEW place,
           s.live[i] # Nil, s.live[i].config # Nil
    PROVE  LET t == [s EXCEPT !.live[i] = Nil]
           IN  t \in FlyType /\ FlyInv(t) /\ Later(s, t) /\ Loses(s, t, place)
               /\ t.live[i] = Nil
<1>. DEFINE t == [s EXCEPT !.live[i] = Nil]
<1>1. t = [app |-> s.app, live |-> [s.live EXCEPT ![i] = Nil], used |-> s.used]
  BY DEF FlyType
<1>2. \A j \in Ids : t.live[j] = IF j = i THEN Nil ELSE s.live[j]
  BY <1>1 DEF FlyType, Devices
<1>3. t \in FlyType
  BY <1>1 DEF FlyType, Devices
<1>4. FlyInv(t)
  BY <1>1, <1>2 DEF FlyInv, FlyType
<1>5. Later(s, t)
  BY <1>1, <1>2 DEF Later, Tame, Managed, FlyType
<1>6. Loses(s, t, place)
  BY <1>1, <1>2 DEF Loses, FlyInv
<1>. QED
  BY <1>2, <1>3, <1>4, <1>5, <1>6

\* A managed machine is given another configuration.
LEMMA Changed ==
    ASSUME NEW s \in FlyType, FlyInv(s), NEW i \in Ids, NEW config \in Configs, NEW place,
           s.live[i] # Nil, s.live[i].config # Nil
    PROVE  LET t == [s EXCEPT !.live[i].config = config, !.live[i].instance = @ + 1]
           IN  t \in FlyType /\ FlyInv(t) /\ Later(s, t) /\ Loses(s, t, place)
<1>1. PICK t : t = [s EXCEPT !.live[i].config = config, !.live[i].instance = @ + 1]
  OBVIOUS
<1>2. s.live[i] \in Device
  BY DEF FlyType, Devices
<1>3. PICK d : d = [s.live[i] EXCEPT !.config = config, !.instance = @ + 1]
  OBVIOUS
<1>4. d \in Device /\ d.config = config /\ d # Nil /\ config # Nil
  <2>1. d.config = config /\ d.instance = s.live[i].instance + 1
    BY <1>2, <1>3 DEF Device
  <2>2. DOMAIN d = {"config", "instance"} /\ d = [f \in DOMAIN d |-> d[f]]
    BY <1>2, <1>3 DEF Device
  <2>3. d.config \in Configs \cup {Nil} /\ d.instance \in Nat
    BY <1>2, <2>1 DEF Device
  <2>4. d \in Device
    BY <2>2, <2>3 DEF Device
  <2>. QED
    BY <2>1, <2>4, AppLifeAssumption
<1>5. t.app = s.app /\ t.used = s.used
  BY <1>1 DEF FlyType
<1>6. t.live = [s.live EXCEPT ![i] = d]
  BY <1>1, <1>3 DEF FlyType, Devices
<1>7. \A j \in Ids : t.live[j] = IF j = i THEN d ELSE s.live[j]
  BY <1>6 DEF FlyType, Devices
<1>8. t \in FlyType
  <2>1. DOMAIN t = {"app", "live", "used"} /\ t = [f \in DOMAIN t |-> t[f]]
    BY <1>1 DEF FlyType
  <2>2. t.app \in BOOLEAN /\ t.live \in Devices /\ t.used \in SUBSET Ids
    BY <1>4, <1>5, <1>6 DEF FlyType, Devices
  <2>. QED
    BY <2>1, <2>2 DEF FlyType
<1>9. FlyInv(t)
  BY <1>5, <1>7 DEF FlyInv, FlyType
<1>10. Later(s, t)
  BY <1>4, <1>5, <1>7 DEF Later, Tame, Managed, FlyType
<1>11. Loses(s, t, place)
  BY <1>4, <1>7 DEF Loses
<1>. QED
  BY <1>1, <1>8, <1>9, <1>10, <1>11

\* The app goes, and all its machines.
LEMMA AppGone ==
    ASSUME NEW s \in FlyType, FlyInv(s)
    PROVE  /\ Gone(s) \in FlyType /\ FlyInv(Gone(s))
           /\ Later(s, Gone(s)) /\ Loses(s, Gone(s), "delete app")
<1>1. PICK t : t = Gone(s)
  OBVIOUS
<1>2. t.app = FALSE /\ t.live = NoDevices /\ t.used = s.used
  BY <1>1 DEF Gone, FlyType
<1>3. \A j \in Ids : t.live[j] = Nil
  BY <1>2 DEF NoDevices
<1>4. t \in FlyType
  <2>1. DOMAIN t = {"app", "live", "used"} /\ t = [f \in DOMAIN t |-> t[f]]
    BY <1>1 DEF Gone, FlyType
  <2>2. t.app \in BOOLEAN /\ t.live \in Devices /\ t.used \in SUBSET Ids
    BY <1>2 DEF FlyType, Devices, NoDevices
  <2>. QED
    BY <2>1, <2>2 DEF FlyType
<1>5. FlyInv(t)
  BY <1>3 DEF FlyInv
<1>6. Later(s, t)
  BY <1>2, <1>3 DEF Later, Tame, Managed, FlyType
<1>7. Loses(s, t, "delete app")
  BY <1>2 DEF Loses
<1>. QED
  BY <1>1, <1>4, <1>5, <1>6, <1>7

LEMMA AppMade ==
    ASSUME NEW s \in FlyType, FlyInv(s), NEW place
    PROVE  LET t == [s EXCEPT !.app = TRUE]
           IN  t \in FlyType /\ FlyInv(t) /\ Later(s, t) /\ Loses(s, t, place)
<1>1. PICK t : t = [s EXCEPT !.app = TRUE]
  OBVIOUS
<1>2. t.app = TRUE /\ t.live = s.live /\ t.used = s.used
  BY <1>1 DEF FlyType
<1>3. t \in FlyType
  BY <1>1 DEF FlyType
<1>4. FlyInv(t)
  BY <1>2 DEF FlyInv
<1>5. Later(s, t)
  BY <1>2 DEF Later, Tame, Managed
<1>6. Loses(s, t, place)
  BY <1>2 DEF Loses
<1>. QED
  BY <1>1, <1>3, <1>4, <1>5, <1>6

-----------------------------------------------------------------------------
(***************************************************************************)
(* What each endpoint replies.                                             *)
(***************************************************************************)
LEMMA Says ==
    ASSUME NEW s \in FlyType, NEW status \in Nat, NEW value \in Devices \cup {Nil, App},
           FlyInv(s), NEW t, t \in FlyType /\ FlyInv(t) /\ Later(s, t),
           NEW place, Loses(s, t, place), NEW reply \in Reply(t, status, value)
    PROVE  /\ Sound(s, reply, place)
           /\ reply.to = t /\ reply.answer.status = status /\ reply.answer.value = value
<1>1. reply = [to |-> t, answer |-> [status |-> status, body |-> "json", value |-> value]]
  BY DEF Reply, Answer
<1>. QED
  BY <1>1 DEF Sound, Answers, Devices

LEMMA Plainly ==
    ASSUME NEW s \in FlyType, FlyInv(s), NEW place,
           NEW status \in {200, 201, 202, 404, 409, 422}, NEW reply \in Reply(s, status, Nil)
    PROVE  /\ Sound(s, reply, place)
           /\ reply.to = s /\ reply.answer.status = status
<1>1. status \in Nat
  OBVIOUS
<1>. QED
  BY <1>1, Says, Stays

LEMMA Shows ==
    ASSUME NEW s \in FlyType, FlyInv(s), NEW id, NEW place, NEW reply \in MachinesShow(s, id)
    PROVE  /\ Sound(s, reply, place) /\ reply.to = s
           /\ reply.answer.status = 200 => s.live[id] # Nil /\ reply.answer.value = Only(s, id)
<1>1. CASE s.live[id] = Nil
  BY <1>1, Says, Stays DEF MachinesShow, OnMachine
<1>2. CASE s.live[id] # Nil
  BY <1>2, Says, Stays, OneDevice DEF MachinesShow, OnMachine
<1>. QED
  BY <1>1, <1>2

LEMMA Listed ==
    ASSUME NEW s \in FlyType, FlyInv(s), NEW place, NEW reply \in MachinesList(s)
    PROVE  /\ Sound(s, reply, place) /\ reply.to = s
           /\ reply.answer.status = 200 => reply.answer.value = s.live
<1>1. CASE s.app
  BY <1>1, Says, Stays DEF MachinesList, FlyType
<1>2. CASE ~s.app
  BY <1>2, Says, Stays DEF MachinesList
<1>. QED
  BY <1>1, <1>2

LEMMA Deletes ==
    ASSUME NEW s \in FlyType, FlyInv(s), NEW id \in Ids, Tame(s, id), NEW place,
           NEW reply \in MachinesDelete(s, id)
    PROVE  Sound(s, reply, place) /\ reply.to.live[id] = Nil
<1>1. CASE s.live[id] = Nil
  BY <1>1, Says, Stays DEF MachinesDelete, OnMachine
<1>2. CASE s.live[id] # Nil
  <2>. DEFINE t == [s EXCEPT !.live[id] = Nil]
  <2>1. reply \in Reply(t, 200, Nil)
    BY <1>2 DEF MachinesDelete, OnMachine
  <2>2. /\ t \in FlyType /\ FlyInv(t) /\ Later(s, t) /\ Loses(s, t, place)
        /\ t.live[id] = Nil
    BY <1>2, Removed DEF Tame
  <2>. HIDE DEF t
  <2>. QED
    BY <2>1, <2>2, Says
<1>. QED
  BY <1>1, <1>2

LEMMA Updates ==
    ASSUME NEW s \in FlyType, FlyInv(s), NEW id \in Ids, Tame(s, id), NEW place,
           NEW config \in Configs, NEW instance,
           NEW reply \in MachinesUpdate(s, id, [config |-> config, instance |-> instance])
    PROVE  Sound(s, reply, place)
<1>. DEFINE t == [s EXCEPT !.live[id].config = config, !.live[id].instance = @ + 1]
<1>1. CASE s.live[id] = Nil
  BY <1>1, Plainly DEF MachinesUpdate, OnMachine
<1>2. CASE s.live[id] # Nil /\ s.live[id].instance # instance
  BY <1>2, Plainly DEF MachinesUpdate, OnMachine
<1>3. CASE s.live[id] # Nil /\ s.live[id].instance = instance
  <2>1. reply \in Reply(t, 200, Only(t, id))
    BY <1>3 DEF MachinesUpdate, OnMachine
  <2>2. t \in FlyType /\ FlyInv(t) /\ Later(s, t) /\ Loses(s, t, place)
    BY <1>3, Changed DEF Tame
  <2>. QED
    BY <2>1, <2>2, Says, OneDevice
<1>. QED
  BY <1>1, <1>2, <1>3

\* A machine that is made is in the answer, alone, and managed.
LEMMA Creates ==
    ASSUME NEW s \in FlyType, FlyInv(s), NEW config \in Configs, NEW place,
           NEW reply \in MachinesCreate(s, config)
    PROVE  /\ Sound(s, reply, place)
           /\ reply.answer.status = 200 =>
                /\ reply.answer.value \in Devices
                /\ \E i \in Ids : reply.answer.value[i] # Nil
                /\ \A i \in Ids : reply.answer.value[i] # Nil => Tame(reply.to, i)
<1>1. CASE ~s.app
  BY <1>1, Plainly DEF MachinesCreate
<1>2. CASE s.app /\ s.used = Ids
  BY <1>2, Plainly DEF MachinesCreate
<1>3. CASE s.app /\ s.used # Ids
  <2>1. PICK i \in Ids \ s.used :
            reply \in Reply(With(s, i, config), 200, Only(With(s, i, config), i))
    BY <1>3 DEF MachinesCreate
  <2>. DEFINE t == With(s, i, config)
  <2>2. /\ t \in FlyType /\ FlyInv(t) /\ Later(s, t) /\ Loses(s, t, place)
        /\ t.live[i] = [config |-> config, instance |-> 1] /\ i \in t.used
    BY <1>3, Added
  <2>3. t.live[i] # Nil /\ t.live[i].config # Nil
    BY <2>2, AppLifeAssumption DEF Device
  <2>. HIDE DEF t
  <2>4. /\ Sound(s, reply, place) /\ reply.to = t
        /\ reply.answer.value = Only(t, i)
    BY <2>1, <2>2, Says, OneDevice DEF t
  <2>5. \A j \in Ids : Only(t, i)[j] = IF j = i THEN t.live[i] ELSE Nil
    BY DEF Only
  <2>6. Tame(t, i)
    BY <2>2, <2>3 DEF Tame
  <2>. QED
    BY <2>2, <2>3, <2>4, <2>5, <2>6, OneDevice
<1>. QED
  BY <1>1, <1>2, <1>3

LEMMA Apps ==
    ASSUME NEW s \in FlyType, FlyInv(s), NEW place
    PROVE  /\ \A reply \in AppsCreate(s) \cup AppsShow(s) : Sound(s, reply, place)
           /\ \A reply \in AppsDelete(s) : Sound(s, reply, "delete app")
<1>1. \A reply \in AppsCreate(s) : Sound(s, reply, place)
  <2>1. CASE s.app
    BY <2>1, Plainly DEF AppsCreate
  <2>2. CASE ~s.app
    <3>. DEFINE t == [s EXCEPT !.app = TRUE]
    <3>1. ASSUME NEW reply \in AppsCreate(s)
          PROVE  reply \in Reply(t, 201, Nil)
      BY <2>2, <3>1 DEF AppsCreate
    <3>2. t \in FlyType /\ FlyInv(t) /\ Later(s, t) /\ Loses(s, t, place)
      BY AppMade
    <3>. HIDE DEF t
    <3>. QED
      BY <3>1, <3>2, Says
  <2>. QED
    BY <2>1, <2>2
<1>2. \A reply \in AppsShow(s) : Sound(s, reply, place)
  BY Says, Stays DEF AppsShow
<1>3. ASSUME NEW reply \in AppsDelete(s)
      PROVE  Sound(s, reply, "delete app")
  <2>1. CASE s.app
    <3>1. reply \in Reply(Gone(s), 202, Nil)
      BY <2>1 DEF AppsDelete
    <3>2. 202 \in Nat /\ Nil \in Devices \cup {Nil, App}
      OBVIOUS
    <3>. QED
      BY <3>1, <3>2, Says, AppGone
  <2>2. CASE ~s.app
    <3>1. reply \in Reply(s, 404, Nil)
      BY <2>2 DEF AppsDelete
    <3>2. \A there : Sound(s, reply, there)
      BY <3>1, Plainly
    <3>. QED
      BY <3>2
  <2>. QED
    BY <2>1, <2>2
<1>. QED
  BY <1>1, <1>2, <1>3

LEMMA Rest ==
    ASSUME NEW s \in FlyType, FlyInv(s), NEW id, NEW place
    PROVE  /\ \A reply \in SecretCreate(s) \cup MachinesAct(s, id) \cup MachinesListEvents(s, id) :
                Sound(s, reply, place)
<1>1. \A reply \in SecretCreate(s) : Sound(s, reply, place)
  BY Plainly DEF SecretCreate
<1>2. \A reply \in MachinesAct(s, id) : Sound(s, reply, place)
  BY Plainly DEF MachinesAct, OnMachine
<1>3. \A reply \in MachinesListEvents(s, id) : Sound(s, reply, place)
  <2>1. CASE s.live[id] = Nil
    BY <2>1, Says, Stays DEF MachinesListEvents, OnMachine
  <2>2. CASE s.live[id] # Nil
    BY <2>2, Says, Stays, OneDevice DEF MachinesListEvents, OnMachine
  <2>. QED
    BY <2>1, <2>2
<1>. QED
  BY <1>1, <1>2, <1>3

-----------------------------------------------------------------------------
(***************************************************************************)
(* What a verdict says of the answer, and the answer of what Fly did.      *)
(***************************************************************************)
LEMMA FoundMeans ==
    ASSUME NEW a, NEW decoded, 200 \in decoded, Found(ParseAs(decoded, a)) = "ok"
    PROVE  a.status = 200 /\ a.body = "json"
<1>1. Failure(ParseAs(decoded, a)) # "ok"
  BY DEF Failure
<1>2. ParseAs(decoded, a).status = 200 /\ ParseAs(decoded, a).value # Nil
  BY <1>1 DEF Found
<1>. QED
  BY <1>2 DEF ParseAs, Failed

LEMMA StatusMeans ==
    ASSUME NEW a, NEW decoded, NEW fine, 0 \notin fine, Status(ParseAs(decoded, a), fine) = "ok"
    PROVE  a.status \in fine /\ a.body # "none"
<1>1. Failure(ParseAs(decoded, a)) # "ok"
  BY DEF Failure
<1>2. ParseAs(decoded, a).status \in fine
  BY <1>1 DEF Status
<1>. QED
  BY <1>2 DEF ParseAs, Failed

LEMMA Understood ==
    ASSUME NEW r, Verdict(r) = "ok"
    PROVE  /\ r.at \in {"list", "relist", "show", "create"} =>
                r.answer.status = 200 /\ r.answer.body = "json"
           /\ r.at = "secrets" => r.answer.status = 201 /\ r.answer.body # "none"
           /\ r.at \in Actions => r.answer.status = 200 /\ r.answer.body # "none"
           /\ r.at = "delete" => r.answer.status \in {404, 200, 202} /\ r.answer.body # "none"
<1>1. ASSUME r.at \in {"list", "relist"}
      PROVE  r.answer.status = 200 /\ r.answer.body = "json"
  <2>1. ListMachines(r.answer) = "ok"
    BY <1>1 DEF Verdict
  <2>. QED
    BY <2>1, FoundMeans DEF ListMachines, ParseMachinesListResponse
<1>2. ASSUME r.at = "show"
      PROVE  r.answer.status = 200 /\ r.answer.body = "json"
  <2>1. GetMachine(r.answer) = "ok"
    BY <1>2 DEF Verdict
  <2>2. Found(ParseMachinesShowResponse(r.answer)) = "ok"
    BY <2>1 DEF GetMachine, FoundOrMissing
  <2>. QED
    BY <2>2, FoundMeans DEF ParseMachinesShowResponse
<1>3. ASSUME r.at = "create"
      PROVE  r.answer.status = 200 /\ r.answer.body = "json"
  <2>1. CreateMachine(r.answer) = "ok"
    BY <1>3 DEF Verdict
  <2>. QED
    BY <2>1, FoundMeans DEF CreateMachine, ParseMachinesCreateResponse
<1>4. ASSUME r.at = "secrets"
      PROVE  r.answer.status = 201 /\ r.answer.body # "none"
  <2>1. CreateSecret(r.answer) = "ok"
    BY <1>4 DEF Verdict
  <2>. QED
    BY <2>1, StatusMeans DEF CreateSecret, ParseSecretCreateResponse
<1>5. ASSUME r.at \in Actions
      PROVE  r.answer.status = 200 /\ r.answer.body # "none"
  <2>1. CASE r.at = "suspend"
    <3>1. SuspendMachine(r.answer) = "ok"
      BY <2>1 DEF Verdict
    <3>. QED
      BY <3>1, StatusMeans DEF SuspendMachine, ParseMachinesSuspendResponse
  <2>2. CASE r.at = "start"
    <3>1. StartMachine(r.answer) = "ok"
      BY <2>2 DEF Verdict
    <3>. QED
      BY <3>1, StatusMeans DEF StartMachine, ParseMachinesStartResponse
  <2>3. CASE r.at = "stop"
    <3>1. StopMachine(r.answer) = "ok"
      BY <2>3 DEF Verdict
    <3>. QED
      BY <3>1, StatusMeans DEF StopMachine, ParseMachinesStopResponse
  <2>4. CASE r.at = "restart"
    <3>1. RestartMachine(r.answer) = "ok"
      BY <2>4 DEF Verdict
    <3>. QED
      BY <3>1, StatusMeans DEF RestartMachine, ParseMachinesRestartResponse
  <2>. QED
    BY <1>5, <2>1, <2>2, <2>3, <2>4 DEF Actions
<1>6. ASSUME r.at = "delete"
      PROVE  r.answer.status \in {404, 200, 202} /\ r.answer.body # "none"
  <2>1. DeleteMachine(r.answer) = "ok"
    BY <1>6 DEF Verdict
  <2>. QED
    BY <2>1, StatusMeans DEF DeleteMachine, ParseMachinesDeleteResponse
<1>. QED
  BY <1>1, <1>2, <1>3, <1>4, <1>5, <1>6

LEMMA Carried ==
    ASSUME NEW answer \in Answers, answer.body = "json",
           NEW mishap \in Troubles \cup {"none"}
    PROVE  LET a == Arrives(answer, mishap)
           IN  /\ a \in Answers /\ a # Nil
               /\ a.body = "json" => mishap = "none" /\ a = answer
               /\ a.body # "none" /\ a.status \in {200, 201, 202, 404} =>
                    mishap \in Effective /\ a.status = answer.status
<1>. DEFINE a == Arrives(answer, mishap)
<1>1. CASE mishap = "none"
  <2>1. a = answer
    BY <1>1 DEF Arrives
  <2>. QED
    BY <1>1, <2>1, AppLifeAssumption DEF Effective
<1>2. CASE mishap \in {"unanswered", "garbled", "untyped"}
  <2>. DEFINE body == IF mishap = "unanswered" THEN "none"
                      ELSE IF mishap = "garbled" THEN "garbled" ELSE "other"
  <2>1. a = [answer EXCEPT !.body = body, !.value = Nil]
    BY <1>2 DEF Arrives
  <2>2. a.status = answer.status /\ a.body = body /\ a.value = Nil
    BY <2>1 DEF Answers
  <2>3. DOMAIN a = {"status", "body", "value"} /\ a = [f \in DOMAIN a |-> a[f]]
    BY <2>1 DEF Answers
  <2>4. a.status \in Nat
    BY <2>2 DEF Answers
  <2>5. a \in Answers
    BY <2>2, <2>3, <2>4 DEF Answers
  <2>. QED
    BY <1>2, <2>2, <2>5, AppLifeAssumption DEF Effective
<1>3. CASE mishap \in {"busy", "refused"}
  <2>1. a = [status |-> IF mishap = "busy" THEN 503 ELSE 403, body |-> "other", value |-> Nil]
    BY <1>3 DEF Arrives
  <2>2. a \in Answers
    BY <2>1 DEF Answers
  <2>. QED
    BY <2>1, <2>2, AppLifeAssumption
<1>. QED
  BY <1>1, <1>2, <1>3 DEF Troubles

-----------------------------------------------------------------------------
(***************************************************************************)
(* The invariant: for a command r with history h, when Fly is s.           *)
(***************************************************************************)
Ensuring == {"lookup", "create app", "lookup again", "secrets"}
Rolling == {"show", "update", "create", "settle", "prune", "rollback"}

\* Which command is where, and what it is to deploy.
Stage(r) ==
    /\ r.at \in Ensuring \cup Rolling => r.cmd = "deploy"
    /\ r.cmd = "deploy" /\ r.at \notin Over => r.config \in Configs
    /\ r.at \in {"delete", "relist", "delete app"} => r.cmd = "destroy"
    /\ r.at = "events" => r.cmd = "status"
    /\ r.at \in Actions => r.cmd \in Actions

Eachwise == {"prune", "delete", "events"} \cup Actions
Aimed(r) == r.at \in {"show", "update", "rollback"} \/ (r.at = "settle" /\ r.made)

\* What a command is about to touch are managed machines, if they are still there.
Targets(r, s) ==
    /\ r.at = "secrets" => r.todo \subseteq Secrets /\ r.todo # {}
    /\ r.at \in Eachwise => r.todo # {}
    /\ r.at \in Eachwise \cup {"show", "update", "settle"} =>
        r.todo \subseteq Ids /\ \A i \in r.todo : Tame(s, i)
    /\ Aimed(r) => r.id \in Ids /\ Tame(s, r.id)

\* What a list has shown is so, or was when the ids of h.before were all there were.
Current(value, h, s) ==
    /\ h.mine \subseteq h.before /\ h.before \subseteq s.used
    /\ \A i \in h.before :
        /\ value[i] = Nil => s.live[i] = Nil
        /\ i \in Managed(s.live) => i \in Managed(value)

\* What the answer of a call that succeeded says.
Answering(r, h, s) ==
    r.answer # Nil /\ Verdict(r) = "ok" =>
        /\ r.at \in {"list", "relist", "show", "create"} => r.answer.value \in Devices
        /\ r.at \in {"list", "relist"} =>
            /\ Current(r.answer.value, h, s)
            /\ \A i \in Managed(r.answer.value) : Tame(s, i)
        /\ r.at = "show" => r.answer.value[r.id] # Nil
        /\ r.at = "create" =>
            /\ \E i \in Ids : r.answer.value[i] # Nil
            /\ \A i \in Ids : r.answer.value[i] # Nil => Tame(s, i)
        /\ r.at = "delete" => s.live[Min(r.todo)] = Nil
        /\ r.at = "secrets" => Min(r.todo) \in h.wrote
        /\ r.at \in Actions => Min(r.todo) \in h.did

\* What is done, and what is left to do.
Progress(r, h, s) ==
    LET left == h.mine \cap Managed(s.live) IN
    /\ h.mine \subseteq s.used
    /\ r.at = "secrets" => h.wrote \cup r.todo = Secrets
    /\ r.cmd = "deploy" /\ r.at \in {"list"} \cup Rolling => h.wrote = Secrets
    /\ h.makes <= 1
    /\ r.at \in Ensuring \cup {"list"} \/ (r.at = "create" /\ r.answer = Nil) => h.makes = 0
    /\ r.at = "delete" => left \subseteq r.todo
    /\ r.at \in {"relist", "delete app"} => left = {}
    /\ r.at = "ok" /\ r.cmd = "destroy" => left = {}
    /\ r.at \in Actions => left \subseteq h.did \cup r.todo
    /\ r.at = "ok" /\ r.cmd \in Actions => left \subseteq h.did
    /\ r.at = "delete app" => h.before \subseteq s.used /\ \A i \in h.before : s.live[i] = Nil

Sane(r, h, s) ==
    Stage(r) /\ Targets(r, s) /\ Answering(r, h, s) /\ Progress(r, h, s)

LifeInv ==
    /\ LifeTypeOK
    /\ FlyInv(fly)
    /\ \A o \in Operators : Sane(run[o], past[o], fly)

LEMMA FlyTyped == LifeTypeOK => fly \in FlyType
  BY DEF LifeTypeOK, FlyType, Devices

\* What a history keeps when a call is another's, and what it notes of its own.
Same(h, k) ==
    /\ k.mine = h.mine /\ k.before = h.before /\ k.wrote = h.wrote /\ k.did = h.did
    /\ k.makes = h.makes

Counted(r, h, k, s, status, mishap) ==
    LET took == mishap \in Effective /\ status \in {200, 201, 202} IN
    /\ k.mine = h.mine
    /\ k.wrote = IF took /\ r.at = "secrets" THEN h.wrote \cup {Min(r.todo)} ELSE h.wrote
    /\ k.did = IF took /\ r.at \in Actions THEN h.did \cup {Min(r.todo)} ELSE h.did
    /\ k.makes = IF took /\ r.at = "create" THEN h.makes + 1 ELSE h.makes
    /\ k.before = IF took /\ r.at \in {"list", "relist"} THEN s.used ELSE h.before

\* A command is not disturbed by what Fly becomes.
LEMMA Patient ==
    ASSUME NEW r, NEW h, NEW k, NEW s \in FlyType, NEW t \in FlyType,
           Sane(r, h, s), Later(s, t),
           h.mine \subseteq Ids, h.before \subseteq Ids,
           Same(h, k)
    PROVE  Sane(r, k, t)
<1>. USE DEF Same
<1>1. Targets(r, t)
  BY DEF Sane, Targets, Later, Tame
<1>2. ASSUME NEW value, Current(value, h, s)
      PROVE  Current(value, k, t)
  BY <1>2 DEF Current, Later
<1>3. \A i : Tame(s, i) => Tame(t, i)
  BY DEF Later, Tame
<1>4. ASSUME r.answer # Nil, Verdict(r) = "ok", r.at = "delete"
      PROVE  t.live[Min(r.todo)] = Nil
  <2>1. s.live[Min(r.todo)] = Nil
    BY <1>4 DEF Sane, Answering
  <2>2. Min(r.todo) \in r.todo
    BY <1>4, LeastElement, AppLifeAssumption DEF Sane, Targets, Eachwise
  <2>. QED
    BY <1>4, <2>1, <2>2 DEF Sane, Targets, Later, Tame, Eachwise
<1>5. Answering(r, k, t)
  BY <1>2, <1>3, <1>4 DEF Sane, Answering
<1>6. \A i \in h.mine : i \in Managed(t.live) => i \in Managed(s.live)
  BY DEF Sane, Progress, Later
<1>7. Progress(r, k, t)
  BY <1>6 DEF Sane, Progress, Later
<1>. QED
  BY <1>1, <1>5, <1>7 DEF Sane

-----------------------------------------------------------------------------
(***************************************************************************)
(* A call.                                                                 *)
(***************************************************************************)
\* The first of what is left is one of it.
LEMMA First ==
    ASSUME NEW r, NEW h, NEW s, Sane(r, h, s), r.at \in Eachwise \cup {"secrets"}
    PROVE  Min(r.todo) \in r.todo
  BY LeastElement, AppLifeAssumption DEF Sane, Targets, Eachwise

\* Whatever the place, Fly's reply is sound.
LEMMA Replies ==
    ASSUME NEW r, NEW h, NEW s \in FlyType, FlyInv(s), Sane(r, h, s), r.at \in Calling,
           NEW reply \in Endpoint(s, Sent(r))
    PROVE  Sound(s, reply, r.at)
<1>1. CASE r.at \in {"lookup", "lookup again"}
  BY <1>1, Routes, Apps
<1>2. CASE r.at = "create app"
  BY <1>2, Routes, Apps
<1>3. CASE r.at = "delete app"
  BY <1>3, Routes, Apps
<1>4. CASE r.at = "secrets"
  BY <1>4, Routes, Rest
<1>5. CASE r.at \in {"list", "relist"}
  <2>1. reply \in MachinesList(s)
    BY <1>5, Routes
  <2>. QED
    BY <2>1, Listed
<1>6. CASE r.at = "show"
  <2>1. reply \in MachinesShow(s, r.id)
    BY <1>6, Routes
  <2>. QED
    BY <2>1, Shows
<1>7. CASE r.at = "create"
  <2>1. r.config \in Configs
    BY <1>7 DEF Sane, Stage, Over, Rolling
  <2>. QED
    BY <1>7, <2>1, Routes, Creates
<1>8. CASE r.at = "update"
  <2>1. r.config \in Configs /\ r.id \in Ids /\ Tame(s, r.id)
    BY <1>8 DEF Sane, Stage, Targets, Aimed, Over, Rolling
  <2>2. reply \in MachinesUpdate(s, r.id, [config |-> r.config, instance |-> r.instance])
    BY <1>8, Routes
  <2>. QED
    BY <2>1, <2>2, Updates
<1>9. CASE r.at = "rollback"
  <2>1. r.id \in Ids /\ Tame(s, r.id)
    BY <1>9 DEF Sane, Targets, Aimed
  <2>. QED
    BY <1>9, <2>1, Routes, Deletes
<1>10. CASE r.at \in {"prune", "delete"}
  <2>1. Min(r.todo) \in Ids /\ Tame(s, Min(r.todo))
    BY <1>10, First DEF Sane, Targets, Eachwise
  <2>. QED
    BY <1>10, <2>1, Routes, Deletes
<1>11. CASE r.at = "events"
  BY <1>11, Routes, Rest
<1>12. CASE r.at \in Actions
  BY <1>12, Routes, Rest
<1>. QED
  BY <1>1, <1>2, <1>3, <1>4, <1>5, <1>6, <1>7, <1>8, <1>9, <1>10, <1>11, <1>12
  DEF Calling, Retried

\* The command whose call it is goes on with an answer that says what is so.
LEMMA Returned ==
    ASSUME NEW r \in RunType, NEW h, NEW s \in FlyType, FlyInv(s), Sane(r, h, s),
           r.at \in Calling, r.answer = Nil, h.makes \in Nat,
           NEW reply \in Endpoint(s, Sent(r)), NEW mishap \in Troubles \cup {"none"},
           NEW t, t = IF mishap \in Effective THEN reply.to ELSE s,
           NEW q, q = [r EXCEPT !.answer = Arrives(reply.answer, mishap)],
           NEW k, Counted(r, h, k, s, reply.answer.status, mishap)
    PROVE  Sane(q, k, t)
<1>. DEFINE a == Arrives(reply.answer, mishap)
<1>. DEFINE took == mishap \in Effective /\ reply.answer.status \in {200, 201, 202}
<1>. USE DEF Counted
<1>1. Sound(s, reply, r.at)
  BY Replies
<1>2. t \in FlyType /\ Later(s, t)
  BY <1>1, Stays DEF Sound
<1>3. /\ a \in Answers /\ a # Nil
      /\ a.body = "json" => mishap = "none" /\ a = reply.answer
      /\ a.body # "none" /\ a.status \in {200, 201, 202, 404} =>
            mishap \in Effective /\ a.status = reply.answer.status
  BY <1>1, Carried DEF Sound
<1>. HIDE DEF a
<1>4. /\ q.at = r.at /\ q.todo = r.todo /\ q.cmd = r.cmd /\ q.config = r.config
      /\ q.id = r.id /\ q.made = r.made /\ q.answer = a
  BY DEF RunType, a
<1>5. Stage(q)
  BY <1>4 DEF Sane, Stage
<1>6. Targets(q, t)
  BY <1>2, <1>4 DEF Sane, Targets, Aimed, Later, Tame
<1>7. \A i \in h.mine : i \in Managed(t.live) => i \in Managed(s.live)
  BY <1>2 DEF Sane, Progress, Later
<1>8. Progress(q, k, t)
  <2>1. r.at = "secrets" => Min(r.todo) \in r.todo
    BY First
  <2>2. r.at \notin Over
    BY DEF Over, Calling, Retried, Actions
  <2>3. h.wrote \cup r.todo = Secrets /\ r.at = "secrets" => k.wrote \cup q.todo = Secrets
    BY <1>4, <2>1
  <2>4. k.makes <= 1 /\ (r.at \in Ensuring \cup {"list"} => k.makes = 0)
    <3>1. h.makes <= 1 /\ (r.at \in Ensuring \cup {"list", "create"} => h.makes = 0)
      BY DEF Sane, Progress
    <3>2. CASE r.at = "create"
      BY <3>1, <3>2 DEF Ensuring
    <3>3. CASE r.at # "create"
      BY <3>1, <3>3
    <3>. QED
      BY <3>2, <3>3
  <2>5. r.at \in {"list"} \cup Rolling => k.wrote = h.wrote
    BY DEF Rolling
  <2>6. r.at \in Actions => h.did \subseteq k.did
    OBVIOUS
  <2>7. r.at = "delete app" => k.before = h.before
    OBVIOUS
  <2>. HIDE DEF took
  <2>. QED
    BY <1>2, <1>3, <1>4, <1>7, <2>2, <2>3, <2>4, <2>5, <2>6, <2>7
    DEF Sane, Progress, Over, Later
<1>9. ASSUME Verdict(q) = "ok"
      PROVE  Answering(q, k, t)
  <2>1. CASE q.at \in {"list", "relist"}
    <3>1. a.status = 200 /\ a.body = "json"
      BY <1>4, <1>9, <2>1, Understood
    <3>2. mishap = "none" /\ a = reply.answer /\ took
      BY <1>3, <3>1 DEF Effective
    <3>3. reply \in MachinesList(s)
      BY <1>4, <2>1, Routes
    <3>4. t = s /\ a.value = s.live
      BY <3>1, <3>2, <3>3, Listed DEF Effective
    <3>5. k.before = s.used
      BY <1>4, <2>1, <3>2
    <3>6. Current(a.value, k, t)
      BY <3>4, <3>5 DEF Current, Sane, Progress
    <3>7. \A i \in Managed(a.value) : Tame(t, i)
      BY <3>4 DEF Managed, Tame, FlyInv
    <3>8. a.value \in Devices
      BY <3>4 DEF FlyType
    <3>. QED
      BY <1>4, <2>1, <3>6, <3>7, <3>8 DEF Answering, Actions
  <2>2. CASE q.at = "show"
    <3>1. a.status = 200 /\ a.body = "json"
      BY <1>4, <1>9, <2>2, Understood
    <3>2. mishap = "none" /\ a = reply.answer
      BY <1>3, <3>1
    <3>3. reply \in MachinesShow(s, r.id)
      BY <1>4, <2>2, Routes
    <3>4. s.live[r.id] # Nil /\ a.value = Only(s, r.id)
      BY <3>1, <3>2, <3>3, Shows
    <3>5. r.id \in Ids
      BY <1>4, <2>2 DEF Sane, Targets, Aimed
    <3>6. a.value \in Devices
      BY <3>4, OneDevice
    <3>7. a.value[r.id] # Nil
      BY <3>4, <3>5 DEF Only
    <3>. QED
      BY <1>4, <2>2, <3>6, <3>7 DEF Answering, Actions
  <2>3. CASE q.at = "create"
    <3>1. a.status = 200 /\ a.body = "json"
      BY <1>4, <1>9, <2>3, Understood
    <3>2. mishap = "none" /\ a = reply.answer /\ t = reply.to
      BY <1>3, <3>1 DEF Effective
    <3>3. reply \in MachinesCreate(s, r.config) /\ r.config \in Configs
      BY <1>4, <2>3, Routes DEF Sane, Stage, Over, Rolling
    <3>4. /\ a.value \in Devices
          /\ \E i \in Ids : a.value[i] # Nil
          /\ \A i \in Ids : a.value[i] # Nil => Tame(t, i)
      BY <3>1, <3>2, <3>3, Creates
    <3>. QED
      BY <1>4, <2>3, <3>4 DEF Answering, Actions
  <2>4. CASE q.at = "delete"
    <3>1. a.status \in {404, 200, 202} /\ a.body # "none"
      BY <1>4, <1>9, <2>4, Understood
    <3>2. t = reply.to
      BY <1>3, <3>1
    <3>3. Min(r.todo) \in Ids /\ Tame(s, Min(r.todo)) /\ reply \in MachinesDelete(s, Min(r.todo))
      BY <1>4, <2>4, First, Routes DEF Sane, Targets, Eachwise
    <3>4. t.live[Min(r.todo)] = Nil
      BY <3>2, <3>3, Deletes
    <3>. QED
      BY <1>4, <2>4, <3>4 DEF Answering, Actions
  <2>5. CASE q.at = "secrets"
    <3>1. a.status = 201 /\ a.body # "none"
      BY <1>4, <1>9, <2>5, Understood
    <3>2. took
      BY <1>3, <3>1
    <3>3. Min(r.todo) \in k.wrote
      BY <1>4, <2>5, <3>2
    <3>. QED
      BY <1>4, <2>5, <3>3 DEF Answering, Actions
  <2>6. CASE q.at \in Actions
    <3>1. a.status = 200 /\ a.body # "none"
      BY <1>4, <1>9, <2>6, Understood
    <3>2. took
      BY <1>3, <3>1
    <3>3. Min(r.todo) \in k.did
      BY <1>4, <2>6, <3>2
    <3>. QED
      BY <1>4, <2>6, <3>3 DEF Answering, Actions
  <2>7. CASE q.at \notin {"list", "relist", "show", "create", "delete", "secrets"} \cup Actions
    BY <2>7 DEF Answering
  <2>. QED
    BY <2>1, <2>2, <2>3, <2>4, <2>5, <2>6, <2>7
<1>. QED
  BY <1>5, <1>6, <1>8, <1>9 DEF Sane, Answering

HistoryType ==
    [wrote : SUBSET Secrets, did : SUBSET Ids, makes : Nat, before : SUBSET Ids,
     mine : SUBSET Ids, hits : Nat, refused : BOOLEAN, absent : BOOLEAN, undone : BOOLEAN]

LEMMA Typed ==
    LifeTypeOK <=>
        /\ fly \in FlyType /\ run \in [Operators -> RunType]
        /\ past \in [Operators -> HistoryType]
        /\ spent \in [started : Nat, troubles : Nat]
  BY DEF LifeTypeOK, FlyType, Devices, HistoryType

\* The history of the command is noted, and of the others only what became of the app.
LEMMA Notes ==
    ASSUME LifeInv, NEW o \in Operators, NEW to, NEW status, NEW mishap,
           NEW q \in Operators, NEW k, k = Noted(o, to, status, mishap)[q]
    PROVE  /\ q = o => Counted(run[o], past[o], k, fly, status, mishap)
           /\ q # o => Same(past[q], k)
           /\ k \in HistoryType
<1>. DEFINE r == run[o]
            took == mishap \in Effective /\ status \in {200, 201, 202}
<1>1. PICK m : m = [past[o] EXCEPT
            !.wrote = IF took /\ r.at = "secrets" THEN @ \cup {Min(r.todo)} ELSE @,
            !.did = IF took /\ r.at \in Actions THEN @ \cup {Min(r.todo)} ELSE @,
            !.makes = IF took /\ r.at = "create" THEN @ + 1 ELSE @,
            !.before = IF took /\ r.at \in {"list", "relist"} THEN fly.used ELSE @,
            !.hits = IF mishap = "none" THEN @ ELSE @ + 1,
            !.refused = @ \/ mishap \in {"refused", "untyped"}]
  OBVIOUS
<1>2. k = [(IF q = o THEN m ELSE past[q]) EXCEPT
                !.absent = @ \/ ~fly.app \/ ~to.app,
                !.undone = @ \/ (fly.app /\ ~to.app)]
  BY <1>1 DEF Noted
<1>. HIDE DEF took
<1>3. past[o] \in HistoryType /\ past[q] \in HistoryType
  BY Typed DEF LifeInv
<1>4. /\ m.wrote = IF took /\ r.at = "secrets" THEN past[o].wrote \cup {Min(r.todo)} ELSE past[o].wrote
      /\ m.did = IF took /\ r.at \in Actions THEN past[o].did \cup {Min(r.todo)} ELSE past[o].did
      /\ m.makes = IF took /\ r.at = "create" THEN past[o].makes + 1 ELSE past[o].makes
      /\ m.before = IF took /\ r.at \in {"list", "relist"} THEN fly.used ELSE past[o].before
      /\ m.mine = past[o].mine
      /\ m.hits = IF mishap = "none" THEN past[o].hits ELSE past[o].hits + 1
      /\ m.refused = (past[o].refused \/ mishap \in {"refused", "untyped"})
      /\ m.absent = past[o].absent /\ m.undone = past[o].undone
      /\ DOMAIN m = DOMAIN past[o] /\ m = [f \in DOMAIN m |-> m[f]]
  BY <1>1, <1>3 DEF HistoryType
<1>5. m \in HistoryType
  <2>1. Sane(run[o], past[o], fly) /\ fly \in FlyType
    BY Typed DEF LifeInv
  <2>2. r.at = "secrets" => Min(r.todo) \in Secrets
    BY <2>1, First DEF Sane, Targets
  <2>3. r.at \in Actions => Min(r.todo) \in Ids
    BY <2>1, First DEF Sane, Targets, Eachwise
  <2>4. m.wrote \in SUBSET Secrets /\ m.did \in SUBSET Ids /\ m.makes \in Nat
    BY <1>3, <1>4, <2>2, <2>3 DEF HistoryType
  <2>5. m.before \in SUBSET Ids /\ m.mine \in SUBSET Ids /\ m.hits \in Nat
    BY <1>3, <1>4, <2>1 DEF HistoryType, FlyType
  <2>6. m.refused \in BOOLEAN /\ m.absent \in BOOLEAN /\ m.undone \in BOOLEAN
    BY <1>3, <1>4 DEF HistoryType
  <2>. QED
    BY <1>3, <1>4, <2>4, <2>5, <2>6 DEF HistoryType
<1>6. PICK n \in HistoryType : n = IF q = o THEN m ELSE past[q]
  BY <1>3, <1>5
<1>7. /\ k.wrote = n.wrote /\ k.did = n.did /\ k.makes = n.makes /\ k.before = n.before
      /\ k.mine = n.mine /\ k \in HistoryType
  BY <1>2, <1>6 DEF HistoryType
<1>8. q # o => Same(past[q], k)
  BY <1>6, <1>7 DEF Same
<1>9. q = o => Counted(run[o], past[o], k, fly, status, mishap)
  BY <1>4, <1>6, <1>7 DEF took, Counted
<1>. QED
  BY <1>7, <1>8, <1>9

\* A call, with whatever goes wrong on its way, leaves all commands sane, and Fly
\* loses only what it is asked to remove.
LEMMA Calls ==
    ASSUME LifeInv, NEW o \in Operators, NEW mishap \in Troubles \cup {"none"},
           Deliver(o, mishap), spent' \in [started : Nat, troubles : Nat]
    PROVE  LifeInv' /\ Loses(fly, fly', run[o].at) /\ run'[o] # run[o]
<1>1. PICK reply \in Endpoint(fly, Sent(run[o])) :
        /\ fly' = IF mishap \in Effective THEN reply.to ELSE fly
        /\ run' = [run EXCEPT ![o].answer = Arrives(reply.answer, mishap)]
        /\ past' = Noted(o, fly', reply.answer.status, mishap)
  BY DEF Deliver
<1>2. /\ fly \in FlyType /\ run \in [Operators -> RunType] /\ past \in [Operators -> HistoryType]
      /\ FlyInv(fly) /\ Sane(run[o], past[o], fly) /\ run[o].at \in Calling /\ run[o].answer = Nil
  BY Typed DEF LifeInv, Deliver
<1>3. Sound(fly, reply, run[o].at)
  BY <1>1, <1>2, Replies
<1>4. /\ fly' \in FlyType /\ FlyInv(fly') /\ Later(fly, fly')
      /\ Loses(fly, fly', run[o].at)
  BY <1>1, <1>2, <1>3, Stays DEF Sound
<1>5. Arrives(reply.answer, mishap) \in Answers /\ Arrives(reply.answer, mishap) # Nil
  BY <1>3, Carried DEF Sound
<1>6. run' \in [Operators -> RunType]
  BY <1>1, <1>2, <1>5 DEF RunType
<1>7. run'[o] = [run[o] EXCEPT !.answer = Arrives(reply.answer, mishap)]
  BY <1>1, <1>2
<1>8. run'[o] # run[o]
  BY <1>2, <1>5, <1>7 DEF RunType
<1>9. past' \in [Operators -> HistoryType]
  <2>1. \A q \in Operators : past'[q] \in HistoryType
    BY <1>1, Notes
  <2>. QED
    BY <1>1, <2>1 DEF Noted
<1>10. Sane(run'[o], past'[o], fly')
  <2>1. PICK r, h, k : r = run[o] /\ h = past[o] /\ k = past'[o]
    OBVIOUS
  <2>2. Counted(r, h, k, fly, reply.answer.status, mishap)
    BY <1>1, <2>1, Notes
  <2>3. h.makes \in Nat
    BY <1>2, <2>1 DEF HistoryType
  <2>. QED
    BY <1>1, <1>2, <1>7, <2>1, <2>2, <2>3, Returned
<1>11. ASSUME NEW q \in Operators, q # o
       PROVE  Sane(run'[q], past'[q], fly')
  <2>1. run'[q] = run[q]
    BY <1>1, <1>2, <1>11
  <2>2. Sane(run[q], past[q], fly)
    BY DEF LifeInv
  <2>3. PICK h, k : h = past[q] /\ k = past'[q]
    OBVIOUS
  <2>4. Same(h, k)
    BY <1>1, <1>11, <2>3, Notes
  <2>5. h.mine \subseteq Ids /\ h.before \subseteq Ids
    BY <1>2, <2>3 DEF HistoryType
  <2>. QED
    BY <1>2, <1>4, <2>1, <2>2, <2>3, <2>4, <2>5, Patient
<1>. QED
  BY <1>4, <1>6, <1>8, <1>9, <1>10, <1>11, Typed DEF LifeInv, LifeTypeOK, FlyType, Devices, HistoryType

-----------------------------------------------------------------------------
(***************************************************************************)
(* What a command does between its calls.                                  *)
(***************************************************************************)
\* It is enough to look at the command itself.
LEMMA Alone ==
    ASSUME LifeInv, NEW o \in Operators, NEW q \in RunType, Update(o, q),
           Sane(q, past[o], fly)
    PROVE  LifeInv'
<1>1. /\ fly' = fly /\ past' = past /\ spent' = spent
      /\ run \in [Operators -> RunType] /\ run' = [run EXCEPT ![o] = q]
  BY Typed DEF LifeInv, Update
<1>2. run' \in [Operators -> RunType]
  BY <1>1
<1>3. LifeTypeOK'
  BY <1>1, <1>2 DEF LifeInv, LifeTypeOK
<1>4. \A p \in Operators : Sane(run'[p], past[p], fly)
  BY <1>1 DEF LifeInv
<1>. QED
  BY <1>1, <1>3, <1>4 DEF LifeInv

\* The next call.
LEMMA Goes ==
    ASSUME NEW r \in RunType, NEW place \in Places, NEW todo \in SUBSET (Ids \cup Secrets),
           NEW q, q = To(r, place, todo)
    PROVE  /\ q.at = place /\ q.todo = todo /\ q.answer = Nil
           /\ q.cmd = r.cmd /\ q.config = r.config /\ q.id = r.id /\ q.made = r.made
           /\ q \in RunType
<1>1. /\ q.at = place /\ q.todo = todo /\ q.answer = Nil /\ q.try = 1
      /\ q.cmd = r.cmd /\ q.config = r.config /\ q.id = r.id /\ q.made = r.made
      /\ q.instance = r.instance /\ q.ended = r.ended
      /\ DOMAIN q = DOMAIN r /\ q = [f \in DOMAIN q |-> q[f]]
  BY DEF To, RunType
<1>2. 1 \in 1 .. Tries
  BY AppLifeAssumption
<1>. QED
  BY <1>1, <1>2 DEF RunType

\* The end of a command, which promises nothing unless it is a success.
LEMMA Ends ==
    ASSUME LifeInv, NEW o \in Operators, NEW outcome \in {"ok", "failed"},
           End(o, outcome),
           outcome = "ok" =>
                LET left == past[o].mine \cap Managed(fly.live) IN
                /\ run[o].cmd = "destroy" => left = {}
                /\ run[o].cmd \in Actions => left \subseteq past[o].did
    PROVE  LifeInv'
<1>1. PICK r, h, q :
        r = run[o] /\ h = past[o] /\ q = [Resting EXCEPT !.cmd = r.cmd, !.at = outcome, !.ended = r.at]
  OBVIOUS
<1>2. r \in RunType /\ Sane(r, h, fly)
  BY <1>1, Typed DEF LifeInv
<1>3. Update(o, q)
  BY <1>1 DEF End
<1>4. /\ q.at = outcome /\ q.cmd = r.cmd /\ q.answer = Nil /\ q.todo = {} /\ q.try = 1
      /\ q.config = Nil /\ q.id = Nil /\ q.instance = 0 /\ q.made = FALSE /\ q.ended = r.at
      /\ DOMAIN q = DOMAIN Resting /\ q = [f \in DOMAIN q |-> q[f]]
  BY <1>1 DEF Resting
<1>5. q \in RunType
  <2>1. Resting \in RunType
    BY AppLifeAssumption
    DEF Resting, RunType, AllLifeCommands, Places, Over
  <2>2. outcome \in Places /\ r.at \in Places /\ r.cmd \in AllLifeCommands
    BY <1>2 DEF Places, Over, RunType
  <2>3. /\ q.try = Resting.try /\ q.answer = Resting.answer /\ q.todo = Resting.todo
        /\ q.config = Resting.config /\ q.id = Resting.id /\ q.instance = Resting.instance
        /\ q.made = Resting.made
    BY <1>4 DEF Resting
  <2>. QED
    BY <1>4, <2>1, <2>2, <2>3 DEF RunType
<1>6. Sane(q, h, fly)
  <2>. USE DEF Over, Ensuring, Rolling, Eachwise, Actions, Aimed
  <2>1. Stage(q) /\ Targets(q, fly) /\ Answering(q, h, fly)
    BY <1>4 DEF Stage, Targets, Answering
  <2>2. Progress(q, h, fly)
    BY <1>1, <1>2, <1>4 DEF Sane, Progress
  <2>. QED
    BY <2>1, <2>2 DEF Sane
<1>. QED
  BY <1>1, <1>3, <1>5, <1>6, Alone

\* The step of a command to another call keeps it sane if these three parts are.
LEMMA Steps ==
    ASSUME LifeInv, NEW o \in Operators, NEW place \in Places,
           NEW todo \in SUBSET (Ids \cup Secrets), NEW q, q = To(run[o], place, todo),
           Update(o, q), Stage(q), Targets(q, fly), Progress(q, past[o], fly)
    PROVE  LifeInv'
<1>1. run[o] \in RunType
  BY Typed DEF LifeInv
<1>2. q \in RunType /\ q.answer = Nil
  BY <1>1, Goes
<1>3. Sane(q, past[o], fly)
  BY <1>2 DEF Sane, Answering
<1>. QED
  BY <1>2, <1>3, Alone

LEMMA Ensures ==
    ASSUME LifeInv, NEW o \in Operators, Ensure(o)
    PROVE  LifeInv'
<1>1. PICK r, h : r = run[o] /\ h = past[o]
  OBVIOUS
<1>2. r \in RunType /\ h \in HistoryType /\ Sane(r, h, fly)
  BY <1>1, Typed DEF LifeInv
<1>. USE DEF Over, Ensuring, Rolling, Eachwise, Actions, Aimed
<1>3. CASE AppFound(o)
  <2>1. PICK q : q = To(r, AfterEnsure, Secrets) /\ Update(o, q)
    BY <1>1, <1>3 DEF AppFound
  <2>2. r.at \in {"lookup", "lookup again"}
    BY <1>1, <1>3 DEF AppFound, Answered
  <2>3. AfterEnsure \in Places
    BY DEF AfterEnsure, Places, Calling, Retried
  <2>4. /\ q.at = AfterEnsure /\ q.todo = Secrets /\ q.answer = Nil
        /\ q.cmd = r.cmd /\ q.config = r.config
    BY <1>2, <2>1, <2>3, Goes
  <2>5. (q.at = "list" /\ Secrets = {}) \/ (q.at = "secrets" /\ Secrets # {})
    <3>1. CASE Secrets = {}
      <4>1. AfterEnsure = "list"
        BY <3>1 DEF AfterEnsure
      <4>. QED
        BY <2>4, <3>1, <4>1
    <3>2. CASE Secrets # {}
      BY <2>4, <3>2 DEF AfterEnsure
    <3>. QED
      BY <3>1, <3>2
  <2>6. Stage(q)
    BY <1>2, <2>2, <2>4, <2>5 DEF Sane, Stage
  <2>7. Targets(q, fly)
    BY <2>4, <2>5 DEF Targets
  <2>8. h.wrote \subseteq Secrets
    BY <1>2 DEF HistoryType
  <2>9. Progress(q, h, fly)
    BY <1>2, <2>2, <2>4, <2>5, <2>8 DEF Sane, Progress
  <2>. QED
    BY <1>1, <2>1, <2>3, <2>6, <2>7, <2>9, Steps
<1>4. CASE AppMissing(o)
  <2>1. PICK place, todo, q :
            place = "create app" /\ todo = {} /\ q = To(r, place, todo) /\ Update(o, q)
    BY <1>1, <1>4 DEF AppMissing
  <2>2. r.at = "lookup"
    BY <1>1, <1>4 DEF AppMissing, Answered
  <2>3. place \in Places /\ todo \in SUBSET (Ids \cup Secrets)
    BY <2>1 DEF Places, Calling
  <2>4. q.at = place /\ q.answer = Nil /\ q.cmd = r.cmd /\ q.config = r.config
    <3>1. q = To(r, place, todo)
      BY <2>1
    <3>. QED
      BY ONLY <1>2, <2>3, <3>1, Goes
  <2>5. Stage(q) /\ Targets(q, fly) /\ Progress(q, h, fly)
    BY <1>2, <2>1, <2>2, <2>4 DEF Sane, Stage, Targets, Progress
  <2>. QED
    BY <1>1, <2>1, <2>3, <2>5, Steps
<1>5. CASE AppCreated(o)
  <2>1. PICK place, todo, q :
            place = "lookup again" /\ todo = {} /\ q = To(r, place, todo) /\ Update(o, q)
    BY <1>1, <1>5 DEF AppCreated
  <2>2. r.at = "create app"
    BY <1>1, <1>5 DEF AppCreated, Answered, GivesUp
  <2>3. place \in Places /\ todo \in SUBSET (Ids \cup Secrets)
    BY <2>1 DEF Places, Calling, Retried
  <2>4. q.at = place /\ q.answer = Nil /\ q.cmd = r.cmd /\ q.config = r.config
    <3>1. q = To(r, place, todo)
      BY <2>1
    <3>. QED
      BY ONLY <1>2, <2>3, <3>1, Goes
  <2>5. Stage(q) /\ Targets(q, fly) /\ Progress(q, h, fly)
    BY <1>2, <2>1, <2>2, <2>4 DEF Sane, Stage, Targets, Progress
  <2>. QED
    BY <1>1, <2>1, <2>3, <2>5, Steps
<1>6. CASE SecretSet(o)
  <2>. DEFINE place == IF Left(o) = {} THEN "list" ELSE "secrets"
  <2>1. PICK q : q = To(r, place, Left(o)) /\ Update(o, q)
    BY <1>1, <1>6 DEF SecretSet
  <2>2. r.at = "secrets" /\ r.answer # Nil /\ Verdict(r) = "ok"
    BY <1>1, <1>6 DEF SecretSet, Answered
  <2>3. r.todo \subseteq Secrets /\ Min(r.todo) \in h.wrote
    BY <1>2, <2>2 DEF Sane, Targets, Answering
  <2>4. Left(o) = r.todo \ {Min(r.todo)}
    BY <1>1 DEF Left
  <2>5. place \in Places
    BY DEF Places, Calling, Retried
  <2>6. /\ q.at = place /\ q.todo = Left(o) /\ q.answer = Nil
        /\ q.cmd = r.cmd /\ q.config = r.config
    BY <1>2, <2>1, <2>3, <2>4, <2>5, Goes
  <2>7. h.wrote \cup Left(o) = Secrets
    BY <1>2, <2>2, <2>3, <2>4 DEF Sane, Progress
  <2>8. Stage(q) /\ Targets(q, fly)
    BY <1>2, <2>2, <2>3, <2>4, <2>6 DEF Sane, Stage, Targets
  <2>9. Progress(q, h, fly)
    BY <1>2, <2>2, <2>6, <2>7 DEF Sane, Progress
  <2>. QED
    BY <1>1, <2>1, <2>3, <2>4, <2>5, <2>8, <2>9, Steps
<1>. QED
  BY <1>3, <1>4, <1>5, <1>6 DEF Ensure

LEMMA Failing ==
    ASSUME LifeInv, NEW o \in Operators, End(o, "failed")
    PROVE  LifeInv'
<1>1. PICK outcome \in {"ok", "failed"} : outcome = "failed"
  OBVIOUS
<1>. QED
  BY <1>1, Ends

\* With a success goes a promise.
Promise(r, h, s) ==
    LET left == h.mine \cap Managed(s.live) IN
    /\ r.cmd = "destroy" => left = {}
    /\ r.cmd \in Actions => left \subseteq h.did

LEMMA Succeeding ==
    ASSUME LifeInv, NEW o \in Operators, End(o, "ok"), Promise(run[o], past[o], fly)
    PROVE  LifeInv'
<1>1. PICK outcome \in {"ok", "failed"} : outcome = "ok"
  OBVIOUS
<1>. QED
  BY <1>1, Ends DEF Promise

LEMMA Prunes ==
    ASSUME LifeInv, NEW o \in Operators, NEW todo \in SUBSET Ids,
           run[o].cmd = "deploy", run[o].config \in Configs, past[o].wrote = Secrets,
           \A i \in todo : Tame(fly, i), ThenPrune(o, todo)
    PROVE  LifeInv'
<1>1. PICK r, h : r = run[o] /\ h = past[o]
  OBVIOUS
<1>2. r \in RunType /\ Sane(r, h, fly)
  BY <1>1, Typed DEF LifeInv
<1>. USE DEF Over, Ensuring, Rolling, Eachwise, Actions, Aimed
<1>3. CASE todo = {}
  BY <1>3, Succeeding DEF ThenPrune, Promise
<1>4. CASE todo # {}
  <2>1. PICK place, q : place = "prune" /\ q = To(r, place, todo) /\ Update(o, q)
    BY <1>1, <1>4 DEF ThenPrune
  <2>2. place \in Places /\ todo \in SUBSET (Ids \cup Secrets)
    BY <2>1 DEF Places, Calling, Retried
  <2>3. /\ q.at = place /\ q.todo = todo /\ q.answer = Nil /\ q.cmd = r.cmd
        /\ q.config = r.config
    <3>1. q = To(r, place, todo)
      BY <2>1
    <3>. QED
      BY ONLY <1>2, <2>2, <3>1, Goes
  <2>4. Stage(q)
    BY <1>1, <1>2, <2>1, <2>3 DEF Stage
  <2>5. Targets(q, fly)
    BY <1>4, <2>1, <2>3 DEF Targets
  <2>6. Progress(q, h, fly)
    BY <1>1, <1>2, <2>1, <2>3 DEF Sane, Progress
  <2>. QED
    BY <1>1, <2>1, <2>2, <2>4, <2>5, <2>6, Steps
<1>. QED
  BY <1>3, <1>4

LEMMA Diffs ==
    ASSUME LifeInv, NEW o \in Operators, Diffed(o)
    PROVE  LifeInv'
<1>1. PICK r, h : r = run[o] /\ h = past[o]
  OBVIOUS
<1>2. r \in RunType /\ Sane(r, h, fly)
  BY <1>1, Typed DEF LifeInv
<1>3. r.cmd = "deploy" /\ r.at = "list" /\ r.answer # Nil /\ Verdict(r) = "ok"
  BY <1>1 DEF Diffed, Answered
<1>. DEFINE live == r.answer.value
            found == Managed(live)
            first == Min(found)
<1>4. found \subseteq Ids /\ \A i \in found : Tame(fly, i)
  BY <1>2, <1>3 DEF Sane, Answering, Managed
<1>5. r.config \in Configs /\ h.wrote = Secrets /\ h.makes = 0
  BY <1>2, <1>3 DEF Sane, Stage, Progress, Over
<1>6. found # {} => first \in found
  BY <1>4, LeastElement, AppLifeAssumption
<1>7. \/ found = {} /\ Update(o, To(r, "create", {}))
      \/ found # {} /\ ThenPrune(o, found \ {first})
      \/ found # {} /\ Update(o, [To(r, "show", found \ {first}) EXCEPT !.id = first])
  BY <1>1 DEF Diffed
<1>. HIDE DEF found, first
<1>. USE DEF Over, Ensuring, Rolling, Eachwise, Actions, Aimed
<1>8. CASE found = {} /\ Update(o, To(r, "create", {}))
  <2>1. PICK place, todo, q :
            place = "create" /\ todo = {} /\ q = To(r, place, todo) /\ Update(o, q)
    BY <1>8
  <2>2. place \in Places /\ todo \in SUBSET (Ids \cup Secrets)
    BY <2>1 DEF Places, Calling
  <2>3. q.at = place /\ q.answer = Nil /\ q.cmd = r.cmd /\ q.config = r.config
    <3>1. q = To(r, place, todo)
      BY <2>1
    <3>. QED
      BY ONLY <1>2, <2>2, <3>1, Goes
  <2>4. Stage(q) /\ Targets(q, fly) /\ Progress(q, h, fly)
    BY <1>2, <1>3, <1>5, <2>1, <2>3 DEF Sane, Stage, Targets, Progress
  <2>. QED
    BY <1>1, <2>1, <2>2, <2>4, Steps
<1>9. CASE found # {} /\ ThenPrune(o, found \ {first})
  BY <1>1, <1>3, <1>4, <1>5, <1>9, Prunes
<1>10. CASE found # {} /\ Update(o, [To(r, "show", found \ {first}) EXCEPT !.id = first])
  <2>1. PICK place, todo, p, q :
            /\ place = "show" /\ todo = found \ {first} /\ p = To(r, place, todo)
            /\ q = [p EXCEPT !.id = first] /\ Update(o, q)
    BY <1>10
  <2>2. place \in Places /\ todo \in SUBSET (Ids \cup Secrets)
    BY <1>4, <2>1 DEF Places, Calling, Retried
  <2>3. /\ p.at = place /\ p.todo = todo /\ p.answer = Nil /\ p.cmd = r.cmd
        /\ p.config = r.config /\ p \in RunType
    <3>1. p = To(r, place, todo)
      BY <2>1
    <3>. QED
      BY ONLY <1>2, <2>2, <3>1, Goes
  <2>4. first \in Ids /\ Tame(fly, first)
    BY <1>4, <1>6, <1>10
  <2>5. /\ q.at = place /\ q.todo = todo /\ q.answer = Nil /\ q.cmd = r.cmd
        /\ q.config = r.config /\ q.id = first /\ q \in RunType
    BY <2>1, <2>3, <2>4 DEF RunType
  <2>6. Stage(q)
    BY <1>3, <1>5, <2>1, <2>5 DEF Stage
  <2>7. Targets(q, fly)
    BY <1>4, <2>1, <2>4, <2>5 DEF Targets
  <2>8. Answering(q, h, fly)
    BY <2>5 DEF Answering
  <2>9. Progress(q, h, fly)
    BY <1>2, <1>5, <2>1, <2>5 DEF Sane, Progress
  <2>. QED
    BY <1>1, <2>1, <2>5, <2>6, <2>7, <2>8, <2>9, Alone DEF Sane
<1>. QED
  BY <1>7, <1>8, <1>9, <1>10

LEMMA ShowsOn ==
    ASSUME LifeInv, NEW o \in Operators, Shown(o)
    PROVE  LifeInv'
<1>1. PICK r, h : r = run[o] /\ h = past[o]
  OBVIOUS
<1>2. r \in RunType /\ h \in HistoryType /\ Sane(r, h, fly)
  BY <1>1, Typed DEF LifeInv
<1>. USE DEF Over, Ensuring, Rolling, Eachwise, Actions, Aimed
<1>3. r.at = "show" /\ r.answer # Nil /\ Verdict(r) = "ok"
  BY <1>1 DEF Shown, Answered
<1>4. r.id \in Ids /\ r.answer.value \in Devices /\ r.answer.value[r.id] # Nil
  BY <1>2, <1>3 DEF Sane, Targets, Answering
<1>5. r.answer.value[r.id].instance \in Nat
  BY <1>4 DEF Devices, Device
<1>6. PICK place, todo, p, q :
        /\ place = "update" /\ todo = r.todo /\ p = To(r, place, todo)
        /\ q = [p EXCEPT !.instance = r.answer.value[r.id].instance] /\ Update(o, q)
  BY <1>1 DEF Shown
<1>7. place \in Places /\ todo \in SUBSET (Ids \cup Secrets)
  BY <1>2, <1>6 DEF Places, Calling, RunType
<1>8. /\ p.at = place /\ p.todo = todo /\ p.answer = Nil /\ p.cmd = r.cmd
      /\ p.config = r.config /\ p.id = r.id /\ p \in RunType
  <2>1. p = To(r, place, todo)
    BY <1>6
  <2>. QED
    BY ONLY <1>2, <1>7, <2>1, Goes
<1>9. /\ q.at = place /\ q.todo = todo /\ q.answer = Nil /\ q.cmd = r.cmd
      /\ q.config = r.config /\ q.id = r.id /\ q \in RunType
  BY <1>5, <1>6, <1>8 DEF RunType
<1>10. Stage(q) /\ Targets(q, fly)
  BY <1>2, <1>3, <1>6, <1>9 DEF Sane, Stage, Targets
<1>11. Answering(q, h, fly) /\ Progress(q, h, fly)
  BY <1>2, <1>3, <1>6, <1>9 DEF Sane, Answering, Progress
<1>. QED
  BY <1>1, <1>6, <1>9, <1>10, <1>11, Alone DEF Sane

LEMMA UpdatesOn ==
    ASSUME LifeInv, NEW o \in Operators, Updated(o)
    PROVE  LifeInv'
<1>1. PICK r, h : r = run[o] /\ h = past[o]
  OBVIOUS
<1>2. r \in RunType /\ h \in HistoryType /\ Sane(r, h, fly)
  BY <1>1, Typed DEF LifeInv
<1>. USE DEF Over, Ensuring, Rolling, Eachwise, Actions, Aimed
<1>3. r.at = "update" /\ r.answer # Nil /\ Verdict(r) = "ok"
  BY <1>1 DEF Updated, Answered
<1>4. PICK place, todo, q :
        place = "settle" /\ todo = r.todo /\ q = To(r, place, todo) /\ Update(o, q)
  BY <1>1 DEF Updated
<1>5. place \in Places /\ todo \in SUBSET (Ids \cup Secrets)
  BY <1>2, <1>4 DEF Places, Calling, Retried, RunType
<1>6. /\ q.at = place /\ q.todo = todo /\ q.answer = Nil /\ q.cmd = r.cmd
      /\ q.config = r.config /\ q.id = r.id /\ q.made = r.made
  <2>1. q = To(r, place, todo)
    BY <1>4
  <2>. QED
    BY ONLY <1>2, <1>5, <2>1, Goes
<1>7. Stage(q) /\ Targets(q, fly)
  BY <1>2, <1>3, <1>4, <1>6 DEF Sane, Stage, Targets
<1>8. Progress(q, h, fly)
  BY <1>2, <1>3, <1>4, <1>6 DEF Sane, Progress
<1>. QED
  BY <1>1, <1>4, <1>5, <1>7, <1>8, Steps

LEMMA CreatesOn ==
    ASSUME LifeInv, NEW o \in Operators, Created(o)
    PROVE  LifeInv'
<1>1. PICK r, h : r = run[o] /\ h = past[o]
  OBVIOUS
<1>2. r \in RunType /\ h \in HistoryType /\ Sane(r, h, fly)
  BY <1>1, Typed DEF LifeInv
<1>. USE DEF Over, Ensuring, Rolling, Eachwise, Actions, Aimed
<1>3. r.at = "create" /\ r.answer # Nil /\ Verdict(r) = "ok"
  BY <1>1 DEF Created, Answered
<1>. DEFINE value == r.answer.value
            id == CHOOSE i \in Ids : value[i] # Nil
<1>4. id \in Ids /\ Tame(fly, id)
  BY <1>2, <1>3 DEF Sane, Answering
<1>. HIDE DEF id
<1>5. PICK place, todo, p, q :
        /\ place = "settle" /\ todo = {} /\ p = To(r, place, todo)
        /\ q = [p EXCEPT !.made = TRUE, !.id = id] /\ Update(o, q)
  BY <1>1 DEF Created, id
<1>6. place \in Places /\ todo \in SUBSET (Ids \cup Secrets)
  BY <1>5 DEF Places
<1>7. /\ p.at = place /\ p.todo = todo /\ p.answer = Nil /\ p.cmd = r.cmd
      /\ p.config = r.config /\ p \in RunType
  <2>1. p = To(r, place, todo)
    BY <1>5
  <2>. QED
    BY ONLY <1>2, <1>6, <2>1, Goes
<1>8. /\ q.at = place /\ q.todo = todo /\ q.answer = Nil /\ q.cmd = r.cmd
      /\ q.config = r.config /\ q.id = id /\ q \in RunType
  BY <1>4, <1>5, <1>7 DEF RunType
<1>9. Stage(q) /\ Targets(q, fly)
  BY <1>2, <1>3, <1>4, <1>5, <1>8 DEF Sane, Stage, Targets
<1>10. Answering(q, h, fly) /\ Progress(q, h, fly)
  BY <1>2, <1>3, <1>5, <1>8 DEF Sane, Answering, Progress
<1>. QED
  BY <1>1, <1>5, <1>8, <1>9, <1>10, Alone DEF Sane

LEMMA SettlesOn ==
    ASSUME LifeInv, NEW o \in Operators, Settled(o)
    PROVE  LifeInv'
<1>1. PICK r, h : r = run[o] /\ h = past[o]
  OBVIOUS
<1>2. r \in RunType /\ h \in HistoryType /\ Sane(r, h, fly)
  BY <1>1, Typed DEF LifeInv
<1>. USE DEF Over, Ensuring, Rolling, Eachwise, Actions, Aimed
<1>3. r.at = "settle"
  BY <1>1 DEF Settled
<1>4. /\ r.cmd = "deploy" /\ r.config \in Configs /\ h.wrote = Secrets
      /\ r.todo \in SUBSET Ids /\ \A i \in r.todo : Tame(fly, i)
  BY <1>2, <1>3 DEF Sane, Stage, Targets, Progress
<1>. QED
  BY <1>1, <1>4, Prunes DEF Settled

LEMMA UnsettlesOn ==
    ASSUME LifeInv, NEW o \in Operators, Unsettled(o)
    PROVE  LifeInv'
<1>1. PICK r, h : r = run[o] /\ h = past[o]
  OBVIOUS
<1>2. r \in RunType /\ h \in HistoryType /\ Sane(r, h, fly)
  BY <1>1, Typed DEF LifeInv
<1>. USE DEF Over, Ensuring, Rolling, Eachwise, Actions, Aimed
<1>3. r.at = "settle"
  BY <1>1 DEF Unsettled
<1>4. CASE ~r.made
  BY <1>1, <1>4, Failing DEF Unsettled
<1>5. CASE r.made
  <2>1. PICK place, todo, q :
          place = "rollback" /\ todo = {} /\ q = To(r, place, todo) /\ Update(o, q)
    BY <1>1, <1>5 DEF Unsettled
  <2>2. place \in Places /\ todo \in SUBSET (Ids \cup Secrets)
    BY <2>1 DEF Places, Calling, Retried
  <2>3. /\ q.at = place /\ q.todo = todo /\ q.answer = Nil /\ q.cmd = r.cmd
        /\ q.config = r.config /\ q.id = r.id
    <3>1. q = To(r, place, todo)
      BY <2>1
    <3>. QED
      BY ONLY <1>2, <2>2, <3>1, Goes
  <2>4. Stage(q) /\ Targets(q, fly)
    BY <1>2, <1>3, <1>5, <2>1, <2>3 DEF Sane, Stage, Targets
  <2>5. Progress(q, h, fly)
    BY <1>2, <1>3, <2>1, <2>3 DEF Sane, Progress
  <2>. QED
    BY <1>1, <2>1, <2>2, <2>4, <2>5, Steps
<1>. QED
  BY <1>4, <1>5

LEMMA PrunesOn ==
    ASSUME LifeInv, NEW o \in Operators, Pruned(o)
    PROVE  LifeInv'
<1>1. PICK r, h : r = run[o] /\ h = past[o]
  OBVIOUS
<1>2. r \in RunType /\ h \in HistoryType /\ Sane(r, h, fly)
  BY <1>1, Typed DEF LifeInv
<1>. USE DEF Over, Ensuring, Rolling, Eachwise, Actions, Aimed
<1>3. r.at = "prune"
  BY <1>1 DEF Pruned, Answered
<1>4. /\ r.cmd = "deploy" /\ r.config \in Configs /\ h.wrote = Secrets
      /\ r.todo \in SUBSET Ids /\ \A i \in r.todo : Tame(fly, i)
  BY <1>2, <1>3 DEF Sane, Stage, Targets, Progress
<1>5. Left(o) \subseteq r.todo
  BY <1>1 DEF Left
<1>. QED
  BY <1>1, <1>4, <1>5, Prunes DEF Pruned

LEMMA Rollouts ==
    ASSUME LifeInv, NEW o \in Operators, Rollout(o)
    PROVE  LifeInv'
<1>1. CASE RolloutFails(o) \/ RolledBack(o)
  BY <1>1, Failing DEF RolloutFails, RolledBack
<1>. QED
  BY <1>1, Diffs, ShowsOn, UpdatesOn, CreatesOn, SettlesOn, UnsettlesOn, PrunesOn DEF Rollout

\* What the machines of a list are, to the commands that act on them.
LEMMA Finds ==
    ASSUME LifeInv, NEW o \in Operators, Answered(o, "list", "ok"),
           NEW found, found = Managed(run[o].answer.value)
    PROVE  /\ found \subseteq Ids /\ \A i \in found : Tame(fly, i)
           /\ past[o].mine \cap Managed(fly.live) \subseteq found
<1>1. PICK r, h : r = run[o] /\ h = past[o]
  OBVIOUS
<1>2. Sane(r, h, fly) /\ r.at = "list" /\ r.answer # Nil /\ Verdict(r) = "ok"
  BY <1>1 DEF LifeInv, Answered
<1>3. /\ Current(r.answer.value, h, fly)
      /\ \A i \in Managed(r.answer.value) : Tame(fly, i)
  BY <1>2 DEF Sane, Answering
<1>. QED
  BY <1>1, <1>3 DEF Current, Managed

LEMMA DeletesNext ==
    ASSUME LifeInv, NEW o \in Operators, NEW place, NEW todo \in SUBSET Ids,
           place = IF todo = {} THEN "relist" ELSE "delete",
           run[o].cmd = "destroy", Update(o, To(run[o], place, todo)),
           \A i \in todo : Tame(fly, i), past[o].mine \cap Managed(fly.live) \subseteq todo
    PROVE  LifeInv'
<1>1. PICK r, h : r = run[o] /\ h = past[o]
  OBVIOUS
<1>2. r \in RunType /\ h \in HistoryType /\ Sane(r, h, fly)
  BY <1>1, Typed DEF LifeInv
<1>. USE DEF Over, Ensuring, Rolling, Eachwise, Actions, Aimed
<1>3. PICK q : q = To(r, place, todo) /\ Update(o, q)
  BY <1>1
<1>4. place \in Places /\ todo \in SUBSET (Ids \cup Secrets)
  BY DEF Places, Calling, Retried
<1>5. /\ q.at = place /\ q.todo = todo /\ q.answer = Nil /\ q.cmd = r.cmd
      /\ q.config = r.config
  BY ONLY <1>2, <1>3, <1>4, Goes
<1>6. q.at \in {"relist", "delete"} /\ (q.at = "relist" <=> todo = {})
  BY <1>5
<1>7. Stage(q)
  BY <1>1, <1>2, <1>5, <1>6 DEF Sane, Stage, AllLifeCommands
<1>8. Targets(q, fly)
  BY <1>5, <1>6 DEF Targets
<1>9. Progress(q, h, fly)
  BY <1>1, <1>2, <1>5, <1>6 DEF Sane, Progress
<1>. QED
  BY <1>1, <1>3, <1>4, <1>7, <1>8, <1>9, Steps

LEMMA DeletesOn ==
    ASSUME LifeInv, NEW o \in Operators, ToDelete(o) \/ Deleted(o)
    PROVE  LifeInv'
<1>1. PICK r, h : r = run[o] /\ h = past[o]
  OBVIOUS
<1>2. r \in RunType /\ h \in HistoryType /\ Sane(r, h, fly)
  BY <1>1, Typed DEF LifeInv
<1>. USE DEF Over, Ensuring, Rolling, Eachwise, Actions, Aimed
<1>3. CASE ToDelete(o)
  <2>1. PICK found, place :
            /\ found = Managed(r.answer.value)
            /\ place = (IF found = {} THEN "relist" ELSE "delete")
            /\ Update(o, To(r, place, found))
    BY <1>1, <1>3 DEF ToDelete
  <2>2. Answered(o, "list", "ok") /\ run[o].cmd = "destroy"
    BY <1>3 DEF ToDelete
  <2>3. /\ found \subseteq Ids /\ \A i \in found : Tame(fly, i)
        /\ past[o].mine \cap Managed(fly.live) \subseteq found
    BY <1>1, <2>1, <2>2, Finds
  <2>. QED
    BY <1>1, <2>1, <2>2, <2>3, DeletesNext
<1>4. CASE Deleted(o)
  <2>1. r.at = "delete" /\ r.answer # Nil /\ Verdict(r) = "ok"
    BY <1>1, <1>4 DEF Deleted, Answered
  <2>2. /\ r.cmd = "destroy" /\ r.todo \subseteq Ids /\ fly.live[Min(r.todo)] = Nil
        /\ \A i \in r.todo : Tame(fly, i)
        /\ h.mine \cap Managed(fly.live) \subseteq r.todo
    BY <1>2, <2>1 DEF Sane, Stage, Targets, Answering, Progress
  <2>3. PICK todo, place :
            /\ todo = r.todo \ {Min(r.todo)}
            /\ place = (IF todo = {} THEN "relist" ELSE "delete")
            /\ Update(o, To(r, place, todo))
    BY <1>1, <1>4 DEF Deleted, Left
  <2>4. h.mine \cap Managed(fly.live) \subseteq todo
    BY <2>2, <2>3 DEF Managed
  <2>5. todo \in SUBSET Ids /\ \A i \in todo : Tame(fly, i)
    BY <2>2, <2>3
  <2>. QED
    BY <1>1, <2>2, <2>3, <2>4, <2>5, DeletesNext
<1>. QED
  BY <1>3, <1>4

\* The events of what is left are asked for next, or it is acted on.
LEMMA EachNext ==
    ASSUME LifeInv, NEW o \in Operators, NEW place, NEW todo \in SUBSET Ids, todo # {},
           (place = "events" /\ run[o].cmd = "status") \/ (place \in Actions /\ run[o].cmd \in Actions),
           Update(o, To(run[o], place, todo)), \A i \in todo : Tame(fly, i),
           place \in Actions => past[o].mine \cap Managed(fly.live) \subseteq past[o].did \cup todo
    PROVE  LifeInv'
<1>1. PICK r, h : r = run[o] /\ h = past[o]
  OBVIOUS
<1>2. r \in RunType /\ h \in HistoryType /\ Sane(r, h, fly)
  BY <1>1, Typed DEF LifeInv
<1>. USE DEF Over, Ensuring, Rolling, Eachwise, Actions, Aimed
<1>3. PICK q : q = To(r, place, todo) /\ Update(o, q)
  BY <1>1
<1>4. place \in Places /\ todo \in SUBSET (Ids \cup Secrets)
  BY DEF Places, Calling, Retried
<1>5. /\ q.at = place /\ q.todo = todo /\ q.answer = Nil /\ q.cmd = r.cmd
      /\ q.config = r.config
  BY ONLY <1>2, <1>3, <1>4, Goes
<1>6. Stage(q)
  BY <1>1, <1>5 DEF Stage
<1>7. Targets(q, fly)
  BY <1>5 DEF Targets
<1>8. Progress(q, h, fly)
  BY <1>1, <1>2, <1>5 DEF Sane, Progress
<1>. QED
  BY <1>1, <1>3, <1>4, <1>6, <1>7, <1>8, Steps

LEMMA ReportsOn ==
    ASSUME LifeInv, NEW o \in Operators, ToReport(o) \/ Reported(o)
    PROVE  LifeInv'
<1>1. PICK r, h : r = run[o] /\ h = past[o]
  OBVIOUS
<1>2. r \in RunType /\ h \in HistoryType /\ Sane(r, h, fly)
  BY <1>1, Typed DEF LifeInv
<1>3. r.cmd = "status"
  BY <1>1, <1>2 DEF ToReport, Reported, Answered, Sane, Stage
<1>4. CASE End(o, "ok")
  BY <1>1, <1>3, <1>4, Succeeding DEF Promise, Actions
<1>5. ASSUME NEW todo \in SUBSET Ids, todo # {}, \A i \in todo : Tame(fly, i),
             Update(o, To(r, "events", todo))
      PROVE  LifeInv'
  <2>1. PICK place : place = "events"
    OBVIOUS
  <2>2. place \notin Actions
    BY <2>1 DEF Actions
  <2>. QED
    BY <1>1, <1>3, <1>5, <2>1, <2>2, EachNext
<1>6. CASE ToReport(o)
  <2>1. PICK found : /\ found = Managed(r.answer.value)
                     /\ IF found = {} THEN End(o, "ok") ELSE Update(o, To(r, "events", found))
    BY <1>1, <1>6 DEF ToReport
  <2>2. found \subseteq Ids /\ \A i \in found : Tame(fly, i)
    BY <1>1, <1>6, <2>1, Finds DEF ToReport
  <2>. QED
    BY <1>4, <1>5, <2>1, <2>2
<1>7. CASE Reported(o)
  <2>1. r.at = "events"
    BY <1>1, <1>7 DEF Reported, Answered
  <2>2. r.todo \subseteq Ids /\ \A i \in r.todo : Tame(fly, i)
    BY <1>2, <2>1 DEF Sane, Targets, Eachwise
  <2>3. Left(o) \subseteq r.todo
    BY <1>1 DEF Left
  <2>. QED
    BY <1>1, <1>4, <1>5, <1>7, <2>2, <2>3 DEF Reported
<1>. QED
  BY <1>6, <1>7

LEMMA ActsOn ==
    ASSUME LifeInv, NEW o \in Operators, ToActOn(o) \/ ActedOn(o)
    PROVE  LifeInv'
<1>1. PICK r, h : r = run[o] /\ h = past[o]
  OBVIOUS
<1>2. r \in RunType /\ h \in HistoryType /\ Sane(r, h, fly)
  BY <1>1, Typed DEF LifeInv
<1>3. CASE ToActOn(o)
  <2>1. PICK found :
            /\ found = Managed(r.answer.value)
            /\ IF found = {} THEN End(o, "failed") ELSE Update(o, To(r, r.cmd, found))
    BY <1>1, <1>3 DEF ToActOn
  <2>2. r.cmd \in Actions /\ Answered(o, "list", "ok")
    BY <1>1, <1>3 DEF ToActOn
  <2>3. /\ found \in SUBSET Ids /\ \A i \in found : Tame(fly, i)
        /\ h.mine \cap Managed(fly.live) \subseteq found
    BY <1>1, <2>1, <2>2, Finds
  <2>4. CASE found = {}
    BY <2>1, <2>4, Failing
  <2>5. CASE found # {}
    <3>1. PICK place : place = r.cmd /\ Update(o, To(run[o], place, found))
      BY <1>1, <2>1, <2>5
    <3>2. /\ place \in Actions /\ run[o].cmd \in Actions
          /\ past[o].mine \cap Managed(fly.live) \subseteq past[o].did \cup found
      BY <1>1, <2>2, <2>3, <3>1
    <3>. QED
      BY <2>3, <2>5, <3>1, <3>2, EachNext
  <2>. QED
    BY <2>4, <2>5
<1>4. CASE ActedOn(o)
  <2>1. r.at \in Actions /\ r.answer # Nil /\ Verdict(r) = "ok"
    BY <1>1, <1>4 DEF ActedOn, Answered
  <2>2. /\ r.cmd \in Actions /\ r.todo \subseteq Ids /\ Min(r.todo) \in h.did
        /\ \A i \in r.todo : Tame(fly, i)
        /\ h.mine \cap Managed(fly.live) \subseteq h.did \cup r.todo
    BY <1>2, <2>1 DEF Sane, Stage, Targets, Answering, Progress, Eachwise
  <2>3. PICK todo, place :
            /\ todo = r.todo \ {Min(r.todo)} /\ place = r.at
            /\ IF todo = {} THEN End(o, "ok") ELSE Update(o, To(r, place, todo))
    BY <1>1, <1>4 DEF ActedOn, Left
  <2>4. h.mine \cap Managed(fly.live) \subseteq h.did \cup todo
    BY <2>2, <2>3
  <2>5. CASE todo = {}
    <3>1. r.cmd # "destroy"
      BY <2>2 DEF Actions
    <3>2. Promise(r, h, fly)
      BY <2>4, <2>5, <3>1 DEF Promise
    <3>. QED
      BY <1>1, <2>3, <2>5, <3>2, Succeeding
  <2>6. CASE todo # {}
    <3>1. todo \in SUBSET Ids /\ \A i \in todo : Tame(fly, i)
      BY <2>2, <2>3
    <3>. QED
      BY <1>1, <2>1, <2>2, <2>3, <2>4, <2>6, <3>1, EachNext
  <2>. QED
    BY <2>5, <2>6
<1>. QED
  BY <1>3, <1>4

\* destroy, after its machines are gone.
LEMMA AppGoesOn ==
    ASSUME LifeInv, NEW o \in Operators, Relisted(o) \/ NotRelisted(o) \/ AppDeleted(o)
    PROVE  LifeInv'
<1>1. PICK r, h : r = run[o] /\ h = past[o]
  OBVIOUS
<1>2. r \in RunType /\ h \in HistoryType /\ Sane(r, h, fly)
  BY <1>1, Typed DEF LifeInv
<1>. USE DEF Over, Ensuring, Rolling, Eachwise, Actions, Aimed
<1>3. r.at \in {"relist", "delete app"}
  BY <1>1 DEF Relisted, NotRelisted, AppDeleted, Answered, GivesUp
<1>4. r.cmd = "destroy" /\ h.mine \cap Managed(fly.live) = {}
  BY <1>2, <1>3 DEF Sane, Stage, Progress
<1>5. CASE End(o, "ok")
  BY <1>1, <1>4, <1>5, Succeeding DEF Promise
<1>6. CASE Answered(o, "relist", "ok") /\ r.answer.value = NoDevices
           /\ Update(o, To(r, "delete app", {}))
  <2>1. Current(r.answer.value, h, fly)
    BY <1>1, <1>2, <1>6 DEF Answered, Sane, Answering
  <2>2. h.before \subseteq fly.used /\ \A i \in h.before : fly.live[i] = Nil
    BY <1>2, <1>6, <2>1 DEF Current, NoDevices, HistoryType
  <2>3. PICK place, todo, q :
            place = "delete app" /\ todo = {} /\ q = To(r, place, todo) /\ Update(o, q)
    BY <1>6
  <2>4. place \in Places /\ todo \in SUBSET (Ids \cup Secrets)
    BY <2>3 DEF Places, Calling, Retried
  <2>5. /\ q.at = place /\ q.todo = todo /\ q.answer = Nil /\ q.cmd = r.cmd
        /\ q.config = r.config
    <3>1. q = To(r, place, todo)
      BY <2>3
    <3>. QED
      BY ONLY <1>2, <2>4, <3>1, Goes
  <2>6. Stage(q) /\ Targets(q, fly)
    BY <1>4, <2>3, <2>5 DEF Stage, Targets
  <2>7. Progress(q, h, fly)
    BY <1>2, <1>4, <2>2, <2>3, <2>5 DEF Sane, Progress
  <2>. QED
    BY <1>1, <2>3, <2>4, <2>6, <2>7, Steps
<1>. QED
  BY <1>1, <1>5, <1>6 DEF Relisted, NotRelisted, AppDeleted

LEMMA OthersDo ==
    ASSUME LifeInv, NEW o \in Operators, Others(o)
    PROVE  LifeInv'
<1>1. CASE Fails(o)
  BY <1>1, Failing DEF Fails
<1>. QED
  BY <1>1, DeletesOn, ReportsOn, ActsOn, AppGoesOn DEF Others

\* Another attempt asks again, and forgets the answer.
LEMMA TriesOn ==
    ASSUME LifeInv, NEW o \in Operators, TryAgain(o)
    PROVE  LifeInv'
<1>1. PICK r, h, q :
        r = run[o] /\ h = past[o] /\ q = [r EXCEPT !.answer = Nil, !.try = @ + 1]
  OBVIOUS
<1>2. r \in RunType /\ Sane(r, h, fly)
  BY <1>1, Typed DEF LifeInv
<1>3. r.at \in Retried /\ r.try < Tries /\ Update(o, q)
  BY <1>1 DEF TryAgain, Again
<1>4. /\ q.at = r.at /\ q.todo = r.todo /\ q.answer = Nil /\ q.cmd = r.cmd
      /\ q.config = r.config /\ q.id = r.id /\ q.made = r.made
  BY <1>1, <1>2 DEF RunType
<1>5. q \in RunType
  <2>1. r.try + 1 \in 1 .. Tries
    BY <1>2, <1>3, AppLifeAssumption DEF RunType
  <2>. QED
    BY <1>1, <1>2, <2>1 DEF RunType
<1>6. Stage(q) /\ Targets(q, fly) /\ Answering(q, h, fly)
  BY <1>2, <1>4 DEF Sane, Stage, Targets, Aimed, Answering
<1>7. Progress(q, h, fly)
  <2>1. r.at # "create"
    BY <1>3 DEF Retried
  <2>. QED
    BY <1>2, <1>4, <2>1 DEF Sane, Progress
<1>. QED
  BY <1>1, <1>3, <1>5, <1>6, <1>7, Alone DEF Sane

-----------------------------------------------------------------------------
(***************************************************************************)
(* The steps that are nobody's call.                                       *)
(***************************************************************************)
LEMMA Fresh ==
    ASSUME NEW s \in FlyType, FlyInv(s)
    PROVE  LET h == Unknown(s) IN
           /\ h \in HistoryType
           /\ h.wrote = {} /\ h.did = {} /\ h.makes = 0 /\ h.before = {}
           /\ h.mine \subseteq s.used
<1>1. s.app \in BOOLEAN /\ Managed(s.live) \subseteq Ids /\ Managed(s.live) \subseteq s.used
  BY DEF FlyType, Managed, FlyInv
<1>. QED
  BY <1>1 DEF Unknown, HistoryType

LEMMA RestingTyped == Resting \in RunType
  BY AppLifeAssumption DEF Resting, RunType, AllLifeCommands, Places, Over

\* A command begins, or there is none any more.
LEMMA Turns ==
    ASSUME LifeInv, NEW o \in Operators, NEW q \in RunType, q.answer = Nil,
           q.at \in {"idle", "lookup", "list"}, q.at = "lookup" => q.cmd = "deploy",
           q.at = "list" => q.cmd # "deploy",
           q.at # "idle" /\ q.cmd = "deploy" => q.config \in Configs,
           fly' = fly, run' = [run EXCEPT ![o] = q],
           past' = [past EXCEPT ![o] = Unknown(fly)],
           spent' \in [started : Nat, troubles : Nat]
    PROVE  LifeInv'
<1>1. /\ fly \in FlyType /\ FlyInv(fly) /\ run \in [Operators -> RunType]
      /\ past \in [Operators -> HistoryType]
  BY Typed DEF LifeInv
<1>2. PICK h : h = Unknown(fly)
  OBVIOUS
<1>3. /\ h \in HistoryType
      /\ h.wrote = {} /\ h.did = {} /\ h.makes = 0 /\ h.before = {}
      /\ h.mine \subseteq fly.used
  BY <1>1, <1>2, Fresh
<1>4. run' \in [Operators -> RunType] /\ past' \in [Operators -> HistoryType]
  BY <1>1, <1>2, <1>3
<1>5. LifeTypeOK'
  BY <1>1, <1>4 DEF LifeTypeOK, FlyType, Devices, HistoryType
<1>6. Sane(q, h, fly)
  <2>. USE DEF Over, Ensuring, Rolling, Eachwise, Actions, Aimed
  <2>1. Stage(q)
    BY DEF Stage
  <2>2. Targets(q, fly) /\ Answering(q, h, fly)
    BY DEF Targets, Answering
  <2>3. Progress(q, h, fly)
    <3>1. PICK place : place = q.at
      OBVIOUS
    <3>2. CASE place = "list"
      BY <1>3, <3>1, <3>2 DEF Progress
    <3>3. CASE place = "lookup"
      BY <1>3, <3>1, <3>3 DEF Progress
    <3>4. CASE place = "idle"
      BY <1>3, <3>1, <3>4 DEF Progress
    <3>. QED
      BY <3>1, <3>2, <3>3, <3>4
  <2>. QED
    BY <2>1, <2>2, <2>3 DEF Sane
<1>7. \A p \in Operators : Sane(run'[p], past'[p], fly)
  BY <1>1, <1>2, <1>6 DEF LifeInv
<1>. QED
  BY <1>1, <1>5, <1>7 DEF LifeInv

LEMMA Starts ==
    ASSUME LifeInv, NEW o \in Operators, NEW c \in Commands, StartCommand(o, c)
    PROVE  LifeInv'
<1>0. PICK config \in Configs \cup {Nil} :
        /\ c = "deploy" => config \in Configs
        /\ run' = [run EXCEPT ![o] = [Resting EXCEPT !.cmd = c, !.config = config,
                    !.at = IF c = "deploy" THEN "lookup" ELSE "list"]]
  BY DEF StartCommand
<1>1. PICK q :
        /\ q = [Resting EXCEPT !.cmd = c, !.config = config,
                    !.at = IF c = "deploy" THEN "lookup" ELSE "list"]
        /\ run' = [run EXCEPT ![o] = q]
  BY <1>0
<1>2. /\ q.cmd = c /\ q.config = config /\ q.answer = Nil
      /\ q.at = IF c = "deploy" THEN "lookup" ELSE "list"
  BY <1>1 DEF Resting
<1>3. q \in RunType
  <2>1. c \in AllLifeCommands /\ "lookup" \in Places /\ "list" \in Places
    BY AppLifeAssumption DEF Places, Calling, Retried
  <2>. QED
    BY <1>1, <2>1, RestingTyped DEF RunType
<1>4. spent' \in [started : Nat, troubles : Nat]
  BY DEF StartCommand, Pay, LifeInv, LifeTypeOK
<1>5. fly' = fly /\ past' = [past EXCEPT ![o] = Unknown(fly)]
  BY DEF StartCommand
<1>6. /\ q.at \in {"idle", "lookup", "list"}
      /\ q.at = "lookup" => q.cmd = "deploy"
      /\ q.at = "list" => q.cmd # "deploy"
      /\ q.at # "idle" /\ q.cmd = "deploy" => q.config \in Configs
  BY <1>0, <1>2
<1>. QED
  BY <1>1, <1>2, <1>3, <1>4, <1>5, <1>6, Turns

LEMMA Kills ==
    ASSUME LifeInv, NEW o \in Operators, Killed(o)
    PROVE  LifeInv'
<1>1. PICK q : q = Resting /\ run' = [run EXCEPT ![o] = q]
  BY DEF Killed
<1>2. q \in RunType /\ q.answer = Nil /\ q.at = "idle"
  BY <1>1, RestingTyped DEF Resting
<1>3. spent' \in [started : Nat, troubles : Nat]
  BY DEF Killed, Pay, LifeInv, LifeTypeOK
<1>. QED
  BY <1>1, <1>2, <1>3, Turns DEF Killed

\* What other people do to the machines of the app.
LEMMA Meddles ==
    ASSUME LifeInv, Outside
    PROVE  LifeInv'
<1>1. fly \in FlyType /\ FlyInv(fly) /\ fly.app /\ run' = run /\ past' = past
  BY Typed DEF LifeInv, Outside
<1>2. fly' \in FlyType /\ FlyInv(fly') /\ Later(fly, fly')
  <2>1. CASE \E i \in Ids \ fly.used : fly' = With(fly, i, Nil)
    BY <1>1, <2>1, Added
  <2>2. CASE \E i \in Ids : fly.live[i] # Nil /\ fly' = [fly EXCEPT !.live[i] = Nil]
    <3>1. PICK i \in Ids : fly' = [fly EXCEPT !.live[i] = Nil]
      BY <2>2
    <3>2. fly' = [app |-> fly.app, live |-> [fly.live EXCEPT ![i] = Nil], used |-> fly.used]
      BY <1>1, <3>1 DEF FlyType
    <3>3. \A j \in Ids : fly'.live[j] = IF j = i THEN Nil ELSE fly.live[j]
      BY <1>1, <3>2 DEF FlyType, Devices
    <3>4. fly' \in FlyType
      BY <1>1, <3>2 DEF FlyType, Devices
    <3>5. FlyInv(fly')
      BY <1>1, <3>2, <3>3 DEF FlyInv
    <3>6. Later(fly, fly')
      BY <1>1, <3>2, <3>3 DEF Later, Tame, Managed, FlyType
    <3>. QED
      BY <3>4, <3>5, <3>6
  <2>. QED
    BY <2>1, <2>2 DEF Outside
<1>3. spent' \in [started : Nat, troubles : Nat]
  BY DEF Outside, Pay, LifeInv, LifeTypeOK
<1>4. LifeTypeOK'
  BY <1>1, <1>2, <1>3 DEF LifeInv, LifeTypeOK, FlyType, Devices
<1>5. ASSUME NEW q \in Operators
      PROVE  Sane(run[q], past[q], fly')
  <2>1. PICK h : h = past[q]
    OBVIOUS
  <2>2. Sane(run[q], h, fly) /\ h \in HistoryType
    BY <2>1, Typed DEF LifeInv
  <2>3. h.mine \subseteq Ids /\ h.before \subseteq Ids /\ Same(h, h)
    BY <2>2 DEF HistoryType, Same
  <2>. QED
    BY <1>1, <1>2, <2>1, <2>2, <2>3, Patient
<1>. QED
  BY <1>1, <1>2, <1>4, <1>5 DEF LifeInv

LEMMA Begins ==
    ASSUME LifeInit
    PROVE  LifeInv
<1>1. fly \in FlyType /\ FlyInv(fly)
  <2>1. CASE fly = [app |-> FALSE, live |-> NoDevices, used |-> {}]
    BY <2>1 DEF FlyType, Devices, NoDevices, FlyInv
  <2>2. CASE \E live \in [Ids -> [config : Configs \cup {Nil}, instance : {1}] \cup {Nil}] :
                fly = [app |-> TRUE, live |-> live, used |-> {i \in Ids : live[i] # Nil}]
    <3>1. PICK live \in [Ids -> [config : Configs \cup {Nil}, instance : {1}] \cup {Nil}] :
                fly = [app |-> TRUE, live |-> live, used |-> {i \in Ids : live[i] # Nil}]
      BY <2>2
    <3>2. [config : Configs \cup {Nil}, instance : {1}] \subseteq Device
      BY DEF Device
    <3>3. live \in Devices
      BY <3>2 DEF Devices
    <3>. QED
      BY <3>1, <3>3 DEF FlyType, FlyInv
  <2>. QED
    BY <2>1, <2>2 DEF LifeInit, InitialFly
<1>2. \A o \in Operators : run[o] = Resting /\ past[o] = Unknown(fly)
  BY DEF LifeInit
<1>3. LifeTypeOK
  <2>1. \A o \in Operators : run[o] \in RunType /\ past[o] \in HistoryType
    BY <1>1, <1>2, Fresh, RestingTyped
  <2>2. run \in [Operators -> RunType] /\ past \in [Operators -> HistoryType]
    BY <2>1 DEF LifeInit
  <2>3. spent \in [started : Nat, troubles : Nat]
    BY DEF LifeInit
  <2>. QED
    BY <1>1, <2>2, <2>3, Typed
<1>4. ASSUME NEW o \in Operators
      PROVE  Sane(run[o], past[o], fly)
  <2>1. PICK r, h : r = run[o] /\ h = past[o]
    OBVIOUS
  <2>2. r.at = "idle" /\ r.cmd = "deploy" /\ r.answer = Nil
    BY <1>2, <2>1 DEF Resting
  <2>3. h.wrote = {} /\ h.makes = 0 /\ h.mine \subseteq fly.used
    BY <1>1, <1>2, <2>1, Fresh
  <2>. USE DEF Over, Ensuring, Rolling, Eachwise, Actions, Aimed
  <2>4. Stage(r) /\ Targets(r, fly) /\ Answering(r, h, fly)
    BY <2>2 DEF Stage, Targets, Answering
  <2>5. Progress(r, h, fly)
    BY <2>2, <2>3 DEF Progress
  <2>. QED
    BY <2>1, <2>4, <2>5 DEF Sane
<1>. QED
  BY <1>1, <1>3, <1>4 DEF LifeInv

LEMMA Delivers ==
    ASSUME LifeInv, NEW o \in Operators, Served(o) \/ GoesWrong(o)
    PROVE  LifeInv' /\ Loses(fly, fly', run[o].at) /\ run'[o] # run[o]
<1>1. PICK mishap \in Troubles \cup {"none"} : Deliver(o, mishap)
  BY DEF Served, GoesWrong
<1>2. spent' \in [started : Nat, troubles : Nat]
  BY DEF Served, GoesWrong, Pay, LifeInv, LifeTypeOK
<1>. QED
  BY <1>1, <1>2, Calls

LEMMA Keeps ==
    ASSUME LifeInv, [LifeNext]_lifeVars
    PROVE  LifeInv'
<1>1. ASSUME NEW o \in Operators, Runs(o)
      PROVE  LifeInv'
  BY <1>1, Delivers, TriesOn, Ensures, Rollouts, OthersDo DEF Runs
<1>2. ASSUME NEW o \in Operators, GoesWrong(o)
      PROVE  LifeInv'
  BY <1>2, Delivers
<1>3. CASE UNCHANGED lifeVars
  <2>1. fly' = fly /\ run' = run /\ past' = past /\ spent' = spent
    BY <1>3 DEF lifeVars
  <2>2. LifeTypeOK' /\ FlyInv(fly') /\ \A o \in Operators : Sane(run'[o], past'[o], fly')
    BY <2>1 DEF LifeInv, LifeTypeOK
  <2>. QED
    BY <2>2 DEF LifeInv
<1>. QED
  BY <1>1, <1>2, <1>3, Starts, Kills, Meddles DEF LifeNext

-----------------------------------------------------------------------------
(***************************************************************************)
(* The theorems.                                                           *)
(***************************************************************************)
\* Every command, after any calls that failed, were lost or were answered garbled, is
\* sane: it is about to touch only machines that are managed or gone, what it has read
\* is still so for the ids that were there when it read it, and its history says what
\* it has done (machine_commands.go, deployer.go).
THEOREM AlwaysSane == LifeSpec => []LifeInv
<1>1. LifeInit => LifeInv
  BY Begins
<1>2. LifeInv /\ [LifeNext]_lifeVars => LifeInv'
  BY Keeps
<1>. QED
  BY <1>1, <1>2, PTL DEF LifeSpec

\* Fly and the commands are well-formed, and no call is tried more often than
\* RetryPolicy.MaxAttempts (deployer.go, retryValue).
THEOREM LifeTypes == LifeSpec => []LifeTypeOK
<1>1. LifeInv => LifeTypeOK
  BY DEF LifeInv
<1>. QED
  BY <1>1, AlwaysSane, PTL

\* No deploy comes to its machines before it has set every secret itself
\* (machine_commands.go:207-214).
THEOREM SecretsAreFirst == LifeSpec => []SecretsFirst
<1>1. LifeInv => SecretsFirst
  BY DEF LifeInv, Sane, Progress, SecretsFirst, Rolling
<1>. QED
  BY <1>1, AlwaysSane, PTL

\* No deploy makes a second machine for a plan that has one (deployer.go:286-303).
THEOREM MadeOnce == LifeSpec => []NothingMadeTwice
<1>1. LifeInv => NothingMadeTwice
  BY DEF LifeInv, Sane, Progress, NothingMadeTwice
<1>. QED
  BY <1>1, AlwaysSane, PTL

\* A destroy that reports success has left no managed machine of those it began with,
\* and a lifecycle command has acted on each that is left, however many operators and
\* machines there are (machine_commands.go:663-686, 825-834).
THEOREM SuccessesAreReal == LifeSpec => []SuccessIsReal
<1>1. LifeInv => SuccessIsReal
  BY DEF LifeInv, Sane, Progress, SuccessIsReal
<1>. QED
  BY <1>1, AlwaysSane, PTL

\* Nothing disappears that was not meant to: only managed machines are deleted, and an
\* app goes only with machines that were made after it was seen empty
\* (machine_commands.go:669-686).
THEOREM LossesMeant == LifeSpec => LossesAreMeant
<1>. DEFINE Meant == \A i \in Ids :
        fly.live[i] # Nil /\ fly'.live[i] = Nil =>
            \/ run' = run
            \/ fly'.app /\ fly.live[i].config # Nil
            \/ ~fly'.app /\ \E o \in Operators :
                run[o].at = "delete app" /\ run'[o] # run[o] /\ i \notin past[o].before
<1>1. ASSUME LifeInv, NEW o \in Operators, Served(o) \/ GoesWrong(o)
      PROVE  Meant
  <2>1. Loses(fly, fly', run[o].at) /\ run'[o] # run[o]
    BY <1>1, Delivers
  <2>2. run[o].at = "delete app" => \A i \in past[o].before : fly.live[i] = Nil
    BY <1>1 DEF LifeInv, Sane, Progress
  <2>. QED
    BY <2>1, <2>2 DEF Loses
<1>2. ASSUME NEW o \in Operators, TryAgain(o) \/ Ensure(o) \/ Rollout(o) \/ Others(o)
      PROVE  fly' = fly
  <2>. USE DEF Update, End, ThenPrune
  <2>1. CASE TryAgain(o)
    BY <2>1 DEF TryAgain
  <2>2. CASE Ensure(o)
    BY <2>2 DEF Ensure, AppFound, AppMissing, AppCreated, SecretSet
  <2>3. CASE Rollout(o)
    BY <2>3 DEF Rollout, Diffed, Shown, Updated, Created, Settled, Unsettled, Pruned,
                RolloutFails, RolledBack
  <2>4. CASE Others(o)
    BY <2>4 DEF Others, ToDelete, ToReport, ToActOn, Deleted, Reported, ActedOn, Relisted,
                NotRelisted, AppDeleted, Fails
  <2>. QED
    BY <1>2, <2>1, <2>2, <2>3, <2>4
<1>3. fly' = fly => Meant
  OBVIOUS
<1>4. run' = run => Meant
  OBVIOUS
<1>5. LifeInv /\ [LifeNext]_lifeVars => [Meant]_lifeVars
  BY <1>1, <1>2, <1>3, <1>4
  DEF LifeNext, Runs, StartCommand, Killed, Outside
<1>. QED
  BY <1>5, AlwaysSane, PTL DEF LifeSpec, LossesAreMeant

-----------------------------------------------------------------------------
(***************************************************************************)
(* What a failure can be laid to: for a command r with history h, when Fly *)
(* is s.  An attempt comes after as many that went wrong; what Fly itself  *)
(* answers is no error, unless the app is not there; and after an app was  *)
(* made or found made by somebody else it is there until it is undone.     *)
(***************************************************************************)
\* The app is there, after the call that was to make it.
Made(r) == Verdict(r) = "ok" \/ Conflict(r.answer)

Laid(r, h, s) ==
    /\ r.at \in Retried /\ Verdict(r) = "transient" => h.hits >= r.try
    /\ Verdict(r) = "error" =>
        /\ r.at \in {"lookup", "lookup again", "delete", "delete app"} => h.refused
        /\ r.at = "list" => h.refused \/ h.absent
    /\ r.at = "lookup again" /\ Verdict(r) = "missing" => h.undone
    /\ r.at = "create app" => IF Made(r) THEN s.app \/ h.undone ELSE h.hits > 0

Excused(r, h) ==
    /\ r.ended = "lookup" => h.refused \/ h.hits >= Tries
    /\ r.ended = "create app" => h.hits > 0
    /\ r.ended = "lookup again" => h.refused \/ h.hits >= Tries \/ h.undone
    /\ r.cmd = "destroy" => h.refused \/ h.hits >= Tries \/ h.absent

Blame(r, h, s) ==
    /\ r.at \in Retried /\ r.answer = Nil => h.hits + 1 >= r.try
    /\ r.answer # Nil => Laid(r, h, s)
    /\ r.at = "lookup again" => s.app \/ h.undone
    /\ r.at = "failed" => Excused(r, h)

BlameInv == \A o \in Operators : Blame(run[o], past[o], fly)

\* What is parsed of an answer in json that a mishap may have befallen.
LEMMA Befallen ==
    ASSUME NEW answer \in Answers, answer.body = "json", ~Retryable(answer.status),
           NEW mishap \in Troubles \cup {"none"}, NEW decoded,
           NEW rsp, rsp = ParseAs(decoded, Arrives(answer, mishap))
    PROVE  /\ Retryable(rsp.status) => mishap # "none"
           /\ ~Retryable(rsp.status) =>
                \/ mishap \in {"refused", "untyped"}
                \/ /\ rsp.status = answer.status /\ mishap \in Effective
                   /\ answer.status = 200 /\ 200 \in decoded => rsp.value = answer.value
<1>1. answer.status \in Nat /\ answer = [f \in DOMAIN answer |-> answer[f]]
  BY DEF Answers
<1>2. CASE mishap = "none"
  BY <1>2 DEF Arrives, ParseAs, Failed, Effective
<1>3. CASE mishap = "unanswered"
  <2>1. Arrives(answer, mishap).body = "none"
    BY <1>3 DEF Arrives, Answers
  <2>2. rsp = Failed
    BY <2>1 DEF ParseAs
  <2>. QED
    BY <1>3, <2>2 DEF Failed, Retryable
<1>4. CASE mishap = "garbled"
  <2>1. /\ Arrives(answer, mishap).body = "garbled"
        /\ Arrives(answer, mishap).status = answer.status
    BY <1>4 DEF Arrives, Answers
  <2>2. CASE answer.status \in decoded
    <3>1. rsp = Failed
      BY <2>1, <2>2 DEF ParseAs
    <3>. QED
      BY <1>4, <3>1 DEF Failed, Retryable
  <2>3. CASE answer.status \notin decoded
    <3>1. rsp.status = answer.status
      BY <2>1, <2>3 DEF ParseAs
    <3>. QED
      BY <1>4, <2>3, <3>1 DEF Effective
  <2>. QED
    BY <2>2, <2>3
<1>5. CASE mishap = "untyped"
  BY <1>5
<1>6. CASE mishap = "busy"
  <2>1. Arrives(answer, mishap) = [status |-> 503, body |-> "other", value |-> Nil]
    BY <1>6 DEF Arrives
  <2>2. rsp.status = 503
    BY <2>1 DEF ParseAs
  <2>. QED
    BY <1>6, <2>2 DEF Retryable
<1>7. CASE mishap = "refused"
  BY <1>7
<1>. QED
  BY <1>2, <1>3, <1>4, <1>5, <1>6, <1>7 DEF Troubles

\* The calls whose failures are laid to something.
Blamed == Retried \cup {"create app"}

\* What a reply is.
LEMMA Replying ==
    ASSUME NEW t, NEW status, NEW value, NEW reply \in Reply(t, status, value)
    PROVE  reply.to = t /\ reply.answer.status = status /\ reply.answer.value = value
  BY DEF Reply, Answer

\* Fly itself does not answer that it is busy.
LEMMA Ready ==
    ASSUME NEW s, NEW r, r.at \in Blamed, NEW reply \in Endpoint(s, Sent(r))
    PROVE  ~Retryable(reply.answer.status)
<1>0. ~Retryable(200) /\ ~Retryable(201) /\ ~Retryable(202) /\ ~Retryable(404) /\ ~Retryable(409)
  BY DEF Retryable
<1>1. ASSUME NEW t, NEW status, NEW value, reply \in Reply(t, status, value), ~Retryable(status)
      PROVE  ~Retryable(reply.answer.status)
  BY <1>1, Replying
<1>2. CASE r.at \in {"lookup", "lookup again"}
  <2>1. reply \in AppsShow(s)
    BY <1>2, Routes
  <2>2. CASE s.app
    BY <1>0, <1>1, <2>1, <2>2 DEF AppsShow
  <2>3. CASE ~(s.app)
    BY <1>0, <1>1, <2>1, <2>3 DEF AppsShow
  <2>. QED
    BY <2>2, <2>3
<1>3. CASE r.at \in {"list", "relist"}
  <2>1. reply \in MachinesList(s)
    BY <1>3, Routes
  <2>2. CASE s.app
    BY <1>0, <1>1, <2>1, <2>2 DEF MachinesList
  <2>3. CASE ~(s.app)
    BY <1>0, <1>1, <2>1, <2>3 DEF MachinesList
  <2>. QED
    BY <2>2, <2>3
<1>4. CASE r.at = "show"
  <2>1. reply \in MachinesShow(s, r.id)
    BY <1>4, Routes
  <2>2. CASE s.live[r.id] = Nil
    BY <1>0, <1>1, <2>1, <2>2 DEF MachinesShow, OnMachine
  <2>3. CASE ~(s.live[r.id] = Nil)
    BY <1>0, <1>1, <2>1, <2>3 DEF MachinesShow, OnMachine
  <2>. QED
    BY <2>2, <2>3
<1>5. CASE r.at \in {"prune", "delete"}
  <2>1. reply \in MachinesDelete(s, Min(r.todo))
    BY <1>5, Routes
  <2>2. CASE s.live[Min(r.todo)] = Nil
    BY <1>0, <1>1, <2>1, <2>2 DEF MachinesDelete, OnMachine
  <2>3. CASE ~(s.live[Min(r.todo)] = Nil)
    BY <1>0, <1>1, <2>1, <2>3 DEF MachinesDelete, OnMachine
  <2>. QED
    BY <2>2, <2>3
<1>6. CASE r.at = "rollback"
  <2>1. reply \in MachinesDelete(s, r.id)
    BY <1>6, Routes
  <2>2. CASE s.live[r.id] = Nil
    BY <1>0, <1>1, <2>1, <2>2 DEF MachinesDelete, OnMachine
  <2>3. CASE ~(s.live[r.id] = Nil)
    BY <1>0, <1>1, <2>1, <2>3 DEF MachinesDelete, OnMachine
  <2>. QED
    BY <2>2, <2>3
<1>7. CASE r.at = "delete app"
  <2>1. reply \in AppsDelete(s)
    BY <1>7, Routes
  <2>2. CASE s.app
    BY <1>0, <1>1, <2>1, <2>2 DEF AppsDelete
  <2>3. CASE ~(s.app)
    BY <1>0, <1>1, <2>1, <2>3 DEF AppsDelete
  <2>. QED
    BY <2>2, <2>3
<1>8. CASE r.at = "events"
  <2>1. reply \in MachinesListEvents(s, Min(r.todo))
    BY <1>8, Routes
  <2>2. CASE s.live[Min(r.todo)] = Nil
    BY <1>0, <1>1, <2>1, <2>2 DEF MachinesListEvents, OnMachine
  <2>3. CASE ~(s.live[Min(r.todo)] = Nil)
    BY <1>0, <1>1, <2>1, <2>3 DEF MachinesListEvents, OnMachine
  <2>. QED
    BY <2>2, <2>3
<1>9. CASE r.at = "create app"
  <2>1. reply \in AppsCreate(s)
    BY <1>9, Routes
  <2>2. CASE s.app
    BY <1>0, <1>1, <2>1, <2>2 DEF AppsCreate
  <2>3. CASE ~(s.app)
    BY <1>0, <1>1, <2>1, <2>3 DEF AppsCreate
  <2>. QED
    BY <2>2, <2>3
<1>. QED
  BY <1>2, <1>3, <1>4, <1>5, <1>6, <1>7, <1>8, <1>9 DEF Blamed, Retried

\* What the history notes of a mishap, and of the app.
Noticed(h, k, s, t, mishap) ==
    /\ k.hits = IF mishap = "none" THEN h.hits ELSE h.hits + 1
    /\ k.refused = (h.refused \/ mishap \in {"refused", "untyped"})
    /\ k.absent = (h.absent \/ ~s.app \/ ~t.app)
    /\ k.undone = (h.undone \/ (s.app /\ ~t.app))

\* The blame for the answer of a call.
LEMMA Lays ==
    ASSUME NEW r \in RunType, NEW h \in HistoryType, NEW s \in FlyType, FlyInv(s),
           Sane(r, h, s), Blame(r, h, s),
           r.at \in Calling, r.answer = Nil,
           NEW reply \in Endpoint(s, Sent(r)), NEW mishap \in Troubles \cup {"none"},
           NEW t, t = IF mishap \in Effective THEN reply.to ELSE s,
           NEW q, q = [r EXCEPT !.answer = Arrives(reply.answer, mishap)],
           NEW k, Noticed(h, k, s, t, mishap)
    PROVE  Blame(q, k, t)
<1>. DEFINE a == Arrives(reply.answer, mishap)
<1>1. Sound(s, reply, r.at) /\ reply.answer \in Answers /\ reply.answer.body = "json"
  BY Replies DEF Sound
<1>2. /\ q.at = r.at /\ q.try = r.try /\ q.answer = a /\ q.cmd = r.cmd /\ q.ended = r.ended
      /\ r.try \in Nat
  BY AppLifeAssumption DEF RunType
<1>3. h.hits \in Nat /\ k.hits \in Nat /\ k.hits >= h.hits
  BY DEF Noticed, HistoryType
<1>4. mishap # "none" => k.hits = h.hits + 1
  BY DEF Noticed
<1>5. mishap \in {"refused", "untyped"} => k.refused
  BY DEF Noticed
<1>6. s.app \/ h.undone => t.app \/ k.undone
  BY DEF Noticed
<1>7. q.at # "failed" /\ a # Nil
  BY <1>1, <1>2, Carried DEF Calling, Retried, Actions
<1>8. ASSUME NEW decoded, NEW rsp, rsp = ParseAs(decoded, a), r.at \in Blamed
      PROVE  /\ Retryable(rsp.status) => mishap # "none"
             /\ ~Retryable(rsp.status) =>
                    \/ mishap \in {"refused", "untyped"}
                    \/ /\ rsp.status = reply.answer.status /\ mishap \in Effective
                       /\ reply.answer.status = 200 /\ 200 \in decoded =>
                            rsp.value = reply.answer.value
  <2>1. ~Retryable(reply.answer.status)
    BY <1>8, Ready
  <2>. QED
    BY <1>1, <1>8, <2>1, Befallen
<1>. HIDE DEF a
<1>9. \A rsp : /\ Failure(rsp) = "transient" <=> Retryable(rsp.status)
               /\ Failure(rsp) = "error" <=> ~Retryable(rsp.status)
  BY DEF Failure
<1>10. CASE r.at \in {"lookup", "lookup again"}
  <2>1. PICK rsp : rsp = ParseAs({200}, a)
    OBVIOUS
  <2>2. Verdict(q) = FoundOrMissing(rsp)
    BY <1>2, <1>10, <2>1 DEF Verdict, LookupApp, ParseAppsShowResponse
  <2>3. reply \in AppsShow(s)
    BY <1>10, Routes
  <2>4. IF s.app THEN reply.answer.status = 200 /\ reply.answer.value = App
        ELSE reply.answer.status = 404
    BY <2>3, Replying DEF AppsShow
  <2>5. Verdict(q) = "transient" => mishap # "none"
    BY <1>8, <1>9, <1>10, <2>1, <2>2 DEF FoundOrMissing, Found, Retried, Blamed
  <2>6. Verdict(q) = "error" => mishap \in {"refused", "untyped"}
    <3>1. ASSUME Verdict(q) = "error", mishap \notin {"refused", "untyped"}
          PROVE  FALSE
      <4>1. ~Retryable(rsp.status) /\ rsp.status # 404 /\ ~(rsp.status = 200 /\ rsp.value # Nil)
        BY <1>9, <2>2, <3>1 DEF FoundOrMissing, Found
      <4>2. rsp.status = reply.answer.status /\ (reply.answer.status = 200 => rsp.value = reply.answer.value)
        <5>1. r.at \in Blamed
          BY <1>10 DEF Retried, Blamed
        <5>. QED
          BY ONLY <1>8, <2>1, <3>1, <4>1, <5>1
      <4>. QED
        BY <2>4, <4>1, <4>2, AppLifeAssumption
    <3>. QED
      BY <3>1
  <2>7. Verdict(q) = "missing" => ~s.app
    <3>1. ASSUME Verdict(q) = "missing"
          PROVE  rsp.status = 404
      BY <2>2, <3>1 DEF FoundOrMissing, Found, Failure
    <3>2. rsp.status = 404 => a.status = 404 /\ a.body # "none"
      BY <2>1 DEF ParseAs, Failed
    <3>3. a.status = 404 /\ a.body # "none" => reply.answer.status = 404
      BY <1>1, Carried DEF a
    <3>. QED
      BY <2>4, <3>1, <3>2, <3>3
  <2>8. r.at = "lookup again" => s.app \/ h.undone
    BY DEF Blame
  <2>9. Laid(q, k, t)
    BY <1>2, <1>3, <1>4, <1>5, <1>10, <2>5, <2>6, <2>7, <2>8 DEF Laid, Noticed, Blame, Retried
  <2>. QED
    BY <1>2, <1>6, <1>7, <2>8, <2>9 DEF Blame
<1>11. CASE r.at \in {"list", "relist", "events"}
  <2>1. PICK rsp : rsp = ParseAs({200}, a)
    OBVIOUS
  <2>2. Verdict(q) = Found(rsp)
    BY <1>2, <1>11, <2>1
    DEF Verdict, ListMachines, ListEvents, ParseMachinesListResponse, ParseMachinesListEventsResponse
  <2>3. Verdict(q) = "transient" => mishap # "none"
    BY <1>8, <1>9, <1>11, <2>1, <2>2 DEF Found, Retried, Blamed
  <2>4. r.at = "list" /\ Verdict(q) = "error" => k.refused \/ k.absent
    <3>1. ASSUME r.at = "list", Verdict(q) = "error", mishap \notin {"refused", "untyped"}, s.app
          PROVE  FALSE
      <4>1. ~Retryable(rsp.status) /\ ~(rsp.status = 200 /\ rsp.value # Nil)
        BY <1>9, <2>2, <3>1 DEF Found
      <4>2. rsp.status = reply.answer.status /\ (reply.answer.status = 200 => rsp.value = reply.answer.value)
        BY <1>8, <1>11, <2>1, <3>1, <4>1 DEF Retried, Blamed
      <4>3. reply \in MachinesList(s)
        BY <3>1, Routes
      <4>4. reply.answer.status = 200 /\ reply.answer.value = s.live
        BY <3>1, <4>3, Replying DEF MachinesList
      <4>5. s.live # Nil
        BY AppLifeAssumption DEF FlyType, Devices
      <4>. QED
        BY <4>1, <4>2, <4>4, <4>5
    <3>. QED
      BY <1>5, <3>1 DEF Noticed
  <2>5. Laid(q, k, t)
    BY <1>2, <1>3, <1>4, <1>11, <2>3, <2>4 DEF Laid, Blame, Retried
  <2>. QED
    BY <1>2, <1>7, <1>11, <2>5 DEF Blame
<1>12. CASE r.at = "show"
  <2>1. PICK rsp : rsp = ParseAs({200}, a)
    OBVIOUS
  <2>2. Verdict(q) = FoundOrMissing(rsp)
    BY <1>2, <1>12, <2>1 DEF Verdict, GetMachine, ParseMachinesShowResponse
  <2>3. Verdict(q) = "transient" => mishap # "none"
    BY <1>8, <1>9, <1>12, <2>1, <2>2 DEF FoundOrMissing, Found, Retried, Blamed
  <2>4. Laid(q, k, t)
    BY <1>2, <1>3, <1>4, <1>12, <2>3 DEF Laid, Blame, Retried
  <2>. QED
    BY <1>2, <1>7, <1>12, <2>4 DEF Blame
<1>13. CASE r.at \in {"prune", "rollback", "delete", "delete app"}
  <2>. DEFINE fine == IF r.at = "delete app" THEN {404, 202} ELSE {404, 200, 202}
  <2>1. PICK rsp : rsp = ParseAs({}, a)
    OBVIOUS
  <2>2. Verdict(q) = Status(rsp, fine)
    BY <1>2, <1>13, <2>1
    DEF Verdict, DeleteMachine, DeleteApp, ParseMachinesDeleteResponse, ParseAppsDeleteResponse
  <2>3. reply.answer.status \in fine
    <3>0. ASSUME NEW id, reply \in MachinesDelete(s, id)
          PROVE  reply.answer.status \in {404, 200}
      <4>1. CASE s.live[id] = Nil
        <5>1. reply \in Reply(s, 404, Nil)
          BY <3>0, <4>1 DEF MachinesDelete, OnMachine
        <5>. QED
          BY <5>1, Replying
      <4>2. CASE s.live[id] # Nil
        <5>1. reply \in Reply([s EXCEPT !.live[id] = Nil], 200, Nil)
          BY <3>0, <4>2 DEF MachinesDelete, OnMachine
        <5>. QED
          BY <5>1, Replying
      <4>. QED
        BY <4>1, <4>2
    <3>1. CASE r.at = "delete app"
      <4>1. reply \in AppsDelete(s)
        BY <3>1, Routes
      <4>2. reply.answer.status \in {404, 202}
        <5>1. CASE s.app
          <6>1. reply \in Reply(Gone(s), 202, Nil)
            BY <4>1, <5>1 DEF AppsDelete
          <6>. QED
            BY <6>1, Replying
        <5>2. CASE ~s.app
          <6>1. reply \in Reply(s, 404, Nil)
            BY <4>1, <5>2 DEF AppsDelete
          <6>. QED
            BY <6>1, Replying
        <5>. QED
          BY <5>1, <5>2
      <4>. QED
        BY <3>1, <4>2
    <3>2. CASE r.at \in {"prune", "delete"}
      <4>1. reply \in MachinesDelete(s, Min(r.todo))
        BY <3>2, Routes
      <4>. QED
        BY <3>0, <3>2, <4>1
    <3>3. CASE r.at = "rollback"
      <4>1. reply \in MachinesDelete(s, r.id)
        BY <3>3, Routes
      <4>. QED
        BY <3>0, <3>3, <4>1
    <3>. QED
      BY <1>13, <3>1, <3>2, <3>3
  <2>. HIDE DEF fine
  <2>4. Verdict(q) = "transient" => mishap # "none"
    BY <1>8, <1>9, <1>13, <2>1, <2>2 DEF Status, Retried, Blamed
  <2>5. Verdict(q) = "error" => mishap \in {"refused", "untyped"}
    BY <1>8, <1>9, <1>13, <2>1, <2>2, <2>3 DEF Status, Retried, Blamed
  <2>6. Laid(q, k, t)
    BY <1>2, <1>3, <1>4, <1>5, <1>13, <2>4, <2>5 DEF Laid, Blame, Retried
  <2>. QED
    BY <1>2, <1>7, <1>13, <2>6 DEF Blame
<1>14. CASE r.at = "create app"
  <2>1. PICK rsp : rsp = ParseAs({400}, a)
    OBVIOUS
  <2>2. Verdict(q) = Status(rsp, {201}) /\ (Conflict(q.answer) <=> rsp.status = 409)
    BY <1>2, <1>14, <2>1 DEF Verdict, CreateApp, Conflict, ParseAppsCreateResponse
  <2>3. reply \in AppsCreate(s)
    BY <1>14, Routes
  <2>4. /\ reply.answer.status \in {201, 409} /\ reply.to.app
        /\ reply.answer.status = 409 => s.app /\ reply.to = s
    <3>1. CASE s.app
      BY <2>3, <3>1, Replying DEF AppsCreate
    <3>2. CASE ~s.app
      <4>1. reply \in Reply([s EXCEPT !.app = TRUE], 201, Nil)
        BY <2>3, <3>2 DEF AppsCreate
      <4>2. reply.to = [s EXCEPT !.app = TRUE] /\ reply.answer.status = 201
        BY <4>1, Replying
      <4>. QED
        BY <4>2 DEF FlyType
    <3>. QED
      BY <3>1, <3>2
  <2>5. Made(q) <=> rsp.status \in {201, 409}
    BY <1>9, <2>2 DEF Made, Status, Failure
  <2>6. ASSUME Made(q)
        PROVE  t.app
    <3>1. CASE mishap \in Effective
      BY <2>4, <3>1
    <3>2. CASE mishap \notin Effective
      <4>1. a.status \in {403, 503}
        BY <3>2 DEF Troubles, Effective, Arrives, a
      <4>2. rsp.status \in {0, 403, 503}
        BY <2>1, <4>1 DEF ParseAs, Failed
      <4>. QED
        BY <2>5, <2>6, <4>2
    <3>. QED
      BY <3>1, <3>2
  <2>7. ASSUME ~Made(q)
        PROVE  mishap # "none"
    <3>1. r.at \in Blamed
      BY <1>14 DEF Blamed
    <3>2. rsp.status # reply.answer.status
      BY <2>4, <2>5, <2>7
    <3>. QED
      BY ONLY <1>8, <2>1, <3>1, <3>2
  <2>8. Laid(q, k, t)
    <3>1. q.at = "create app" /\ q.at \notin Retried
      BY <1>2, <1>14 DEF Retried
    <3>2. IF Made(q) THEN t.app \/ k.undone ELSE k.hits > 0
      BY <1>3, <1>4, <2>6, <2>7
    <3>. QED
      BY ONLY <3>1, <3>2 DEF Laid
  <2>. QED
    BY <1>2, <1>7, <1>14, <2>8 DEF Blame
<1>15. CASE r.at \notin Blamed
  <2>1. Laid(q, k, t)
    BY <1>2, <1>15 DEF Laid, Retried, Blamed
  <2>2. r.at # "lookup again"
    BY <1>15 DEF Retried, Blamed
  <2>. QED
    BY <1>2, <1>7, <2>1, <2>2 DEF Blame
<1>. QED
  BY <1>10, <1>11, <1>12, <1>13, <1>14, <1>15 DEF Retried, Blamed

\* The same of the history of a command, when the call is another's.
Aware(h, k, s, t) ==
    /\ k.hits = h.hits /\ k.refused = h.refused
    /\ h.absent => k.absent
    /\ h.undone => k.undone
    /\ s.app => t.app \/ k.undone

LEMMA Noting ==
    ASSUME LifeInv, NEW o \in Operators, NEW to, NEW status, NEW mishap,
           NEW q \in Operators, NEW k, k = Noted(o, to, status, mishap)[q]
    PROVE  /\ q = o => Noticed(past[o], k, fly, to, mishap)
           /\ q # o => Aware(past[q], k, fly, to)
<1>. DEFINE r == run[o]
            took == mishap \in Effective /\ status \in {200, 201, 202}
<1>1. PICK m : m = [past[o] EXCEPT
            !.wrote = IF took /\ r.at = "secrets" THEN @ \cup {Min(r.todo)} ELSE @,
            !.did = IF took /\ r.at \in Actions THEN @ \cup {Min(r.todo)} ELSE @,
            !.makes = IF took /\ r.at = "create" THEN @ + 1 ELSE @,
            !.before = IF took /\ r.at \in {"list", "relist"} THEN fly.used ELSE @,
            !.hits = IF mishap = "none" THEN @ ELSE @ + 1,
            !.refused = @ \/ mishap \in {"refused", "untyped"}]
  OBVIOUS
<1>2. k = [(IF q = o THEN m ELSE past[q]) EXCEPT
                !.absent = @ \/ ~fly.app \/ ~to.app,
                !.undone = @ \/ (fly.app /\ ~to.app)]
  BY <1>1 DEF Noted
<1>. HIDE DEF took
<1>3. past[o] \in HistoryType /\ past[q] \in HistoryType
  BY Typed DEF LifeInv
<1>4. /\ m.hits = IF mishap = "none" THEN past[o].hits ELSE past[o].hits + 1
      /\ m.refused = (past[o].refused \/ mishap \in {"refused", "untyped"})
      /\ m.absent = past[o].absent /\ m.undone = past[o].undone
      /\ DOMAIN m = DOMAIN past[o]
  BY <1>1, <1>3 DEF HistoryType
<1>5. PICK n : n = IF q = o THEN m ELSE past[q]
  OBVIOUS
<1>6. DOMAIN n = {"wrote", "did", "makes", "before", "mine", "hits", "refused", "absent", "undone"}
  BY <1>3, <1>4, <1>5 DEF HistoryType
<1>7. /\ k.hits = n.hits /\ k.refused = n.refused
      /\ k.absent = (n.absent \/ ~fly.app \/ ~to.app)
      /\ k.undone = (n.undone \/ (fly.app /\ ~to.app))
  BY <1>2, <1>5, <1>6
<1>8. q = o => Noticed(past[o], k, fly, to, mishap)
  BY <1>4, <1>5, <1>7 DEF Noticed
<1>9. q # o => Aware(past[q], k, fly, to)
  BY <1>5, <1>7 DEF Aware
<1>. QED
  BY <1>8, <1>9

LEMMA Still ==
    ASSUME NEW r, NEW h, NEW k, NEW s, NEW t, Blame(r, h, s), Aware(h, k, s, t)
    PROVE  Blame(r, k, t)
<1>1. s.app \/ h.undone => t.app \/ k.undone
  BY DEF Aware
<1>2. r.answer # Nil => Laid(r, k, t)
  BY <1>1 DEF Blame, Aware, Laid
<1>3. r.at = "failed" => Excused(r, k)
  BY DEF Blame, Aware, Excused
<1>. QED
  BY <1>1, <1>2, <1>3 DEF Blame, Aware

LEMMA BlameCalls ==
    ASSUME LifeInv, BlameInv, NEW o \in Operators, NEW mishap \in Troubles \cup {"none"},
           Deliver(o, mishap)
    PROVE  BlameInv'
<1>1. PICK reply \in Endpoint(fly, Sent(run[o])) :
        /\ fly' = IF mishap \in Effective THEN reply.to ELSE fly
        /\ run' = [run EXCEPT ![o].answer = Arrives(reply.answer, mishap)]
        /\ past' = Noted(o, fly', reply.answer.status, mishap)
  BY DEF Deliver
<1>2. /\ fly \in FlyType /\ run \in [Operators -> RunType] /\ past \in [Operators -> HistoryType]
      /\ FlyInv(fly) /\ Sane(run[o], past[o], fly) /\ run[o].at \in Calling /\ run[o].answer = Nil
  BY Typed DEF LifeInv, Deliver
<1>3. ASSUME NEW p \in Operators
      PROVE  Blame(run'[p], past'[p], fly')
  <2>1. Blame(run[p], past[p], fly)
    BY DEF BlameInv
  <2>2. PICK r, h, k : r = run[p] /\ h = past[p] /\ k = past'[p]
    OBVIOUS
  <2>3. CASE p = o
    <3>1. run'[p] = [r EXCEPT !.answer = Arrives(reply.answer, mishap)]
      BY <1>1, <1>2, <2>2, <2>3
    <3>2. Noticed(h, k, fly, fly', mishap)
      BY <1>1, <2>2, <2>3, Noting
    <3>3. r \in RunType /\ h \in HistoryType
      BY <1>2, <2>2
    <3>. QED
      BY <1>1, <1>2, <2>1, <2>2, <2>3, <3>1, <3>2, <3>3, Lays
  <2>4. CASE p # o
    <3>1. run'[p] = r
      BY <1>1, <1>2, <2>2, <2>4
    <3>2. Aware(h, k, fly, fly')
      BY <1>1, <2>2, <2>4, Noting
    <3>. QED
      BY <2>1, <2>2, <3>1, <3>2, Still
  <2>. QED
    BY <2>3, <2>4
<1>. QED
  BY <1>3 DEF BlameInv

LEMMA AtFirst ==
    ASSUME NEW hits \in Nat, NEW try, try = 1
    PROVE  hits + 1 >= try
  OBVIOUS

LEMMA Onward ==
    ASSUME NEW q, NEW h, NEW s, h.hits \in Nat, q.answer = Nil, q.try = 1,
           q.at \notin {"lookup again", "failed"}
    PROVE  Blame(q, h, s)
<1>1. h.hits + 1 >= q.try
  BY AtFirst
<1>2. PICK place : place = q.at
  OBVIOUS
<1>. QED
  BY <1>1, <1>2 DEF Blame

LEMMA BlameAlone ==
    ASSUME LifeInv, BlameInv, NEW o \in Operators, NEW q, Update(o, q),
           Blame(q, past[o], fly)
    PROVE  BlameInv'
<1>1. /\ fly' = fly /\ past' = past /\ run' = [run EXCEPT ![o] = q]
      /\ run \in [Operators -> RunType]
  BY Typed DEF LifeInv, Update
<1>. QED
  BY <1>1 DEF BlameInv

\* The step of a command to another call than the second lookup.
LEMMA BlameGoes ==
    ASSUME LifeInv, BlameInv, NEW o \in Operators, NEW place, NEW todo, NEW q, Update(o, q),
           q.at = To(run[o], place, todo).at, q.try = To(run[o], place, todo).try,
           q.answer = To(run[o], place, todo).answer,
           place \notin {"lookup again", "failed"}
    PROVE  BlameInv'
<1>1. run[o] \in RunType /\ past[o] \in HistoryType
  BY Typed DEF LifeInv
<1>2. q.at = place /\ q.try = 1 /\ q.answer = Nil
  BY <1>1 DEF To, RunType
<1>3. past[o].hits \in Nat
  BY <1>1 DEF HistoryType
<1>4. Blame(q, past[o], fly)
  BY <1>2, <1>3, Onward
<1>. QED
  BY <1>4, BlameAlone

LEMMA BlameTo ==
    ASSUME LifeInv, BlameInv, NEW o \in Operators, NEW place, NEW todo,
           Update(o, To(run[o], place, todo)),
           place \notin {"lookup again", "failed"}
    PROVE  BlameInv'
  BY BlameGoes

LEMMA BlameEnds ==
    ASSUME LifeInv, BlameInv, NEW o \in Operators, NEW outcome \in {"ok", "failed"},
           End(o, outcome),
           outcome = "failed" =>
                LET r == run[o]
                    h == past[o] IN
                /\ r.at = "lookup" => h.refused \/ h.hits >= Tries
                /\ r.at = "create app" => h.hits > 0
                /\ r.at = "lookup again" => h.refused \/ h.hits >= Tries \/ h.undone
                /\ r.cmd = "destroy" => h.refused \/ h.hits >= Tries \/ h.absent
    PROVE  BlameInv'
<1>1. PICK r, h, q :
        r = run[o] /\ h = past[o] /\ q = [Resting EXCEPT !.cmd = r.cmd, !.at = outcome, !.ended = r.at]
  OBVIOUS
<1>2. q.at = outcome /\ q.answer = Nil /\ q.cmd = r.cmd /\ q.ended = r.at
  BY <1>1 DEF Resting
<1>3. Blame(q, h, fly)
  <2>1. q.at \notin Retried /\ q.at # "lookup again"
    BY <1>2 DEF Retried
  <2>2. q.at = "failed" => Excused(q, h)
    BY <1>1, <1>2 DEF Excused
  <2>. QED
    BY <1>2, <2>1, <2>2 DEF Blame
<1>. QED
  BY <1>1, <1>3, BlameAlone DEF End

LEMMA BlameOther ==
    ASSUME LifeInv, BlameInv, NEW o \in Operators, End(o, "ok")
    PROVE  BlameInv'
  BY BlameEnds

\* A failure of a call that is retried, after the last attempt, and of one that is not.
LEMMA BlameGiven ==
    ASSUME LifeInv, BlameInv, NEW o \in Operators, NEW place, GivesUp(o, place)
    PROVE  LET r == run[o]
               h == past[o] IN
           /\ r.at \in {"lookup", "lookup again", "delete", "delete app"} => h.refused \/ h.hits >= Tries
           /\ r.at = "list" => h.refused \/ h.hits >= Tries \/ h.absent
           /\ r.at = "create app" => Conflict(r.answer) \/ h.hits > 0
<1>1. PICK r, h : r = run[o] /\ h = past[o]
  OBVIOUS
<1>2. /\ r.answer # Nil /\ Verdict(r) \in {"error", "transient"} /\ Laid(r, h, fly)
      /\ ~Again(r)
  BY <1>1 DEF GivesUp, BlameInv, Blame
<1>3. r \in RunType /\ h \in HistoryType
  BY <1>1, Typed DEF LifeInv
<1>4. ASSUME r.at \in Retried, Verdict(r) = "transient"
      PROVE  h.hits >= Tries
  <2>1. r.try \in Nat /\ h.hits \in Nat
    BY <1>3, AppLifeAssumption DEF RunType, HistoryType
  <2>2. ~(r.try < Tries)
    BY <1>2, <1>4 DEF Again
  <2>3. h.hits >= r.try
    BY <1>2, <1>4 DEF Laid
  <2>. QED
    BY <2>1, <2>2, <2>3, AppLifeAssumption
<1>5. r.at = "create app" => Conflict(r.answer) \/ h.hits > 0
  BY <1>2 DEF Laid, Made
<1>6. r.at \in {"lookup", "lookup again", "delete", "delete app"} => h.refused \/ h.hits >= Tries
  BY <1>2, <1>4 DEF Laid, Retried
<1>7. r.at = "list" => h.refused \/ h.hits >= Tries \/ h.absent
  BY <1>2, <1>4 DEF Laid, Retried
<1>. QED
  BY <1>1, <1>5, <1>6, <1>7

LEMMA BlameEnsure ==
    ASSUME LifeInv, BlameInv, NEW o \in Operators, Ensure(o)
    PROVE  BlameInv'
<1>1. CASE AppFound(o)
  <2>1. AfterEnsure \notin {"lookup again", "failed"}
    BY DEF AfterEnsure
  <2>. QED
    BY <1>1, <2>1, BlameGoes DEF AppFound
<1>2. CASE AppMissing(o)
  <2>1. PICK place : place = "create app"
    OBVIOUS
  <2>2. place \notin {"lookup again", "failed"}
    BY <2>1
  <2>3. Update(o, To(run[o], place, {}))
    BY <1>2, <2>1 DEF AppMissing
  <2>. QED
    BY <2>2, <2>3, BlameTo
<1>3. CASE AppCreated(o)
  <2>1. PICK r, h, q : r = run[o] /\ h = past[o] /\ q = To(r, "lookup again", {})
    OBVIOUS
  <2>2. r.at = "create app" /\ r.answer # Nil /\ Made(r) /\ Update(o, q)
    BY <1>3, <2>1 DEF AppCreated, Answered, GivesUp, Made
  <2>3. fly.app \/ h.undone
    BY <2>1, <2>2 DEF BlameInv, Blame, Laid
  <2>4. r \in RunType /\ h \in HistoryType
    BY <2>1, Typed DEF LifeInv
  <2>5. q.at = "lookup again" /\ q.try = 1 /\ q.answer = Nil
    BY <2>1, <2>4 DEF To, RunType
  <2>6. h.hits + 1 >= q.try
    BY <2>4, <2>5, AtFirst DEF HistoryType
  <2>7. Blame(q, h, fly)
    BY <2>3, <2>5, <2>6 DEF Blame
  <2>. QED
    BY <2>1, <2>2, <2>7, BlameAlone
<1>4. CASE SecretSet(o)
  <2>1. (IF Left(o) = {} THEN "list" ELSE "secrets") \notin {"lookup again", "failed"}
    OBVIOUS
  <2>. QED
    BY <1>4, <2>1, BlameGoes DEF SecretSet
<1>. QED
  BY <1>1, <1>2, <1>3, <1>4 DEF Ensure

\* A rollout is of a deploy, and is past the calls that ensure the app.
LEMMA BlameRollout ==
    ASSUME LifeInv, BlameInv, NEW o \in Operators, Rollout(o)
    PROVE  BlameInv'
<1>1. run[o] \in RunType /\ Stage(run[o])
  BY Typed DEF LifeInv, Sane
<1>2. ASSUME NEW todo, ThenPrune(o, todo)
      PROVE  BlameInv'
  <2>1. CASE todo = {}
    BY <1>2, <2>1, BlameOther DEF ThenPrune
  <2>2. CASE todo # {}
    <3>1. PICK place : place = "prune"
      OBVIOUS
    <3>2. place \notin {"lookup again", "failed"}
      BY <3>1
    <3>3. Update(o, To(run[o], place, todo))
      BY <1>2, <2>2, <3>1 DEF ThenPrune
    <3>. QED
      BY <3>2, <3>3, BlameTo
  <2>. QED
    BY <2>1, <2>2
<1>3. ASSUME run[o].at \in Rolling \cup {"list"}, run[o].cmd = "deploy", End(o, "failed")
      PROVE  BlameInv'
  <2>1. run[o].at \notin {"lookup", "create app", "lookup again"} /\ run[o].cmd # "destroy"
    BY <1>3 DEF Rolling
  <2>. QED
    BY <1>3, <2>1, BlameEnds
<1>4. run[o].at \in Rolling => run[o].cmd = "deploy"
  BY <1>1 DEF Stage
<1>5. CASE Diffed(o)
  <2>. DEFINE live == run[o].answer.value
              found == Managed(live)
              first == Min(found)
  <2>1. CASE found = {}
    <3>1. PICK place : place = "create"
      OBVIOUS
    <3>2. place \notin {"lookup again", "failed"}
      BY <3>1
    <3>3. Update(o, To(run[o], place, {}))
      BY <1>5, <2>1, <3>1 DEF Diffed
    <3>. QED
      BY <3>2, <3>3, BlameTo
  <2>2. CASE found # {} /\ live[first].config = run[o].config
    <3>1. ThenPrune(o, found \ {first})
      BY <1>5, <2>2 DEF Diffed
    <3>. QED
      BY <1>2, <3>1
  <2>3. CASE found # {} /\ live[first].config # run[o].config
    <3>. DEFINE q == [To(run[o], "show", found \ {first}) EXCEPT !.id = first]
    <3>1. Update(o, q)
      BY <1>5, <2>3 DEF Diffed
    <3>2. PICK place : place = "show"
      OBVIOUS
    <3>2a. place \notin {"lookup again", "failed"}
      BY <3>2
    <3>3. /\ q.at = To(run[o], place, found \ {first}).at
         /\ q.try = To(run[o], place, found \ {first}).try
         /\ q.answer = To(run[o], place, found \ {first}).answer
      BY <3>2
    <3>. HIDE DEF q, found, first
    <3>. QED
      BY <3>1, <3>2a, <3>3, BlameGoes
  <2>. QED
    BY <2>1, <2>2, <2>3
<1>6. CASE Shown(o)
  <2>. DEFINE q == [To(run[o], "update", run[o].todo) EXCEPT
                        !.instance = run[o].answer.value[run[o].id].instance]
  <2>1. Update(o, q)
    BY <1>6 DEF Shown
  <2>2. PICK place : place = "update"
    OBVIOUS
  <2>2a. place \notin {"lookup again", "failed"}
    BY <2>2
  <2>3. /\ q.at = To(run[o], place, run[o].todo).at
       /\ q.try = To(run[o], place, run[o].todo).try
       /\ q.answer = To(run[o], place, run[o].todo).answer
    BY <2>2
  <2>. HIDE DEF q
  <2>. QED
    BY <2>1, <2>2a, <2>3, BlameGoes
<1>7. CASE Updated(o)
  <2>1. PICK place : place = "settle"
    OBVIOUS
  <2>2. place \notin {"lookup again", "failed"}
    BY <2>1
  <2>3. Update(o, To(run[o], place, run[o].todo))
    BY <1>7, <2>1 DEF Updated
  <2>. QED
    BY <2>2, <2>3, BlameTo
<1>8. CASE Created(o)
  <2>. DEFINE q == [To(run[o], "settle", {}) EXCEPT !.made = TRUE,
                        !.id = CHOOSE i \in Ids : run[o].answer.value[i] # Nil]
  <2>1. Update(o, q)
    BY <1>8 DEF Created
  <2>2. PICK place : place = "settle"
    OBVIOUS
  <2>2a. place \notin {"lookup again", "failed"}
    BY <2>2
  <2>3. /\ q.at = To(run[o], place, {}).at
       /\ q.try = To(run[o], place, {}).try
       /\ q.answer = To(run[o], place, {}).answer
    BY <2>2
  <2>. HIDE DEF q
  <2>. QED
    BY <2>1, <2>2a, <2>3, BlameGoes
<1>9. CASE Settled(o)
  BY <1>2, <1>9 DEF Settled
<1>10. CASE Unsettled(o)
  <2>1. CASE run[o].made
    <3>1. PICK place : place = "rollback"
      OBVIOUS
    <3>2. place \notin {"lookup again", "failed"}
      BY <3>1
    <3>3. Update(o, To(run[o], place, {}))
      BY <1>10, <2>1, <3>1 DEF Unsettled
    <3>. QED
      BY <3>2, <3>3, BlameTo
  <2>2. CASE ~run[o].made
    BY <1>3, <1>4, <1>10, <2>2 DEF Unsettled, Rolling
  <2>. QED
    BY <2>1, <2>2
<1>11. CASE Pruned(o)
  BY <1>2, <1>11 DEF Pruned
<1>12. CASE RolloutFails(o)
  <2>1. run[o].at \in Rolling \cup {"list"} /\ run[o].cmd = "deploy" /\ End(o, "failed")
    BY <1>12 DEF RolloutFails, GivesUp, Answered, Rolling
  <2>. QED
    BY <1>3, <2>1
<1>13. CASE RolledBack(o)
  <2>1. run[o].at \in Rolling /\ End(o, "failed")
    BY <1>13 DEF RolledBack, GivesUp, Answered, Rolling
  <2>. QED
    BY <1>3, <1>4, <2>1
<1>. QED
  BY <1>5, <1>6, <1>7, <1>8, <1>9, <1>10, <1>11, <1>12, <1>13 DEF Rollout

LEMMA BlameOthers ==
    ASSUME LifeInv, BlameInv, NEW o \in Operators, Others(o)
    PROVE  BlameInv'
<1>1. run[o] \in RunType /\ Stage(run[o])
  BY Typed DEF LifeInv, Sane
<1>2. ASSUME NEW place, place \notin {"lookup again", "failed"}, NEW todo,
             Update(o, To(run[o], place, todo))
      PROVE  BlameInv'
  BY <1>2, BlameGoes
<1>3. CASE ToDelete(o)
  BY <1>2, <1>3 DEF ToDelete
<1>4. CASE ToReport(o)
  BY <1>2, <1>4, BlameOther DEF ToReport
<1>5. CASE ToActOn(o)
  <2>1. run[o].cmd \in Actions /\ run[o].at = "list"
    BY <1>5 DEF ToActOn, Answered
  <2>2. CASE End(o, "failed")
    BY <2>1, <2>2, BlameEnds DEF Actions
  <2>3. CASE \E found : Update(o, To(run[o], run[o].cmd, found))
    BY <1>2, <2>1, <2>3 DEF Actions
  <2>. QED
    BY <1>5, <2>2, <2>3 DEF ToActOn
<1>6. CASE Deleted(o)
  BY <1>2, <1>6 DEF Deleted
<1>7. CASE Reported(o)
  BY <1>2, <1>7, BlameOther DEF Reported
<1>8. CASE ActedOn(o)
  <2>1. run[o].at \in Actions
    BY <1>8 DEF ActedOn, Answered
  <2>2. CASE End(o, "ok")
    BY <2>2, BlameOther
  <2>3. CASE \E left : Update(o, To(run[o], run[o].at, left))
    BY <1>2, <2>1, <2>3 DEF Actions
  <2>. QED
    BY <1>8, <2>2, <2>3 DEF ActedOn
<1>9. CASE Relisted(o)
  BY <1>2, <1>9, BlameOther DEF Relisted
<1>10. CASE NotRelisted(o) \/ AppDeleted(o)
  BY <1>10, BlameOther DEF NotRelisted, AppDeleted
<1>11. CASE Fails(o)
  <2>1. PICK r, h : r = run[o] /\ h = past[o]
    OBVIOUS
  <2>2. End(o, "failed") /\ Stage(r)
    BY <1>1, <1>11, <2>1 DEF Fails
  <2>3. CASE Answered(o, "lookup again", "missing")
    <3>1. r.at = "lookup again" /\ r.answer # Nil /\ Verdict(r) = "missing"
      BY <2>1, <2>3 DEF Answered
    <3>2. h.undone
      BY <2>1, <3>1 DEF BlameInv, Blame, Laid
    <3>3. r.cmd = "deploy"
      BY <2>2, <3>1 DEF Stage, Ensuring
    <3>. QED
      BY <2>1, <2>2, <3>1, <3>2, <3>3, BlameEnds
  <2>4. CASE GivesUp(o, "create app") /\ ~Conflict(r.answer)
    <3>1. r.at = "create app" /\ h.hits > 0
      BY <2>1, <2>4, BlameGiven DEF GivesUp
    <3>2. r.cmd = "deploy"
      BY <2>2, <3>1 DEF Stage, Ensuring
    <3>. QED
      BY <2>1, <2>2, <3>1, <3>2, BlameEnds
  <2>5. CASE GivesUp(o, "list")
    <3>1. r.at = "list" /\ (h.refused \/ h.hits >= Tries \/ h.absent)
      BY <2>1, <2>5, BlameGiven DEF GivesUp
    <3>. QED
      BY <2>1, <2>2, <3>1, BlameEnds
  <2>6. ASSUME NEW place \in {"lookup", "lookup again", "delete", "delete app"}, GivesUp(o, place)
        PROVE  BlameInv'
    <3>1. r.at \in {"lookup", "lookup again", "delete", "delete app"} /\ (h.refused \/ h.hits >= Tries)
      BY <2>1, <2>6, BlameGiven DEF GivesUp
    <3>. QED
      BY <2>1, <2>2, <3>1, BlameEnds
  <2>7. ASSUME NEW place \in {"secrets", "events"} \cup Actions, GivesUp(o, place)
        PROVE  BlameInv'
    <3>1. r.at \in {"secrets", "events"} \cup Actions
      BY <2>1, <2>7 DEF GivesUp
    <3>2. r.cmd # "destroy" /\ r.at \notin {"lookup", "create app", "lookup again"}
      BY <2>2, <3>1 DEF Stage, Ensuring, Actions
    <3>. QED
      BY <2>1, <2>2, <3>2, BlameEnds
  <2>. QED
    BY <1>11, <2>1, <2>3, <2>4, <2>5, <2>6, <2>7 DEF Fails
<1>. QED
  BY <1>3, <1>4, <1>5, <1>6, <1>7, <1>8, <1>9, <1>10, <1>11 DEF Others

LEMMA BlameTries ==
    ASSUME LifeInv, BlameInv, NEW o \in Operators, TryAgain(o)
    PROVE  BlameInv'
<1>1. PICK r, h, q :
        r = run[o] /\ h = past[o] /\ q = [r EXCEPT !.answer = Nil, !.try = @ + 1]
  OBVIOUS
<1>2. /\ r \in RunType /\ Blame(r, h, fly) /\ r.at \in Retried /\ Verdict(r) = "transient"
      /\ r.answer # Nil /\ Update(o, q) /\ h.hits \in Nat
  BY <1>1, Typed DEF LifeInv, BlameInv, TryAgain, Again, HistoryType
<1>3. q.at = r.at /\ q.answer = Nil /\ q.try = r.try + 1 /\ r.try \in Nat
  BY <1>1, <1>2, AppLifeAssumption DEF RunType
<1>4. h.hits >= r.try /\ q.at # "failed"
  BY <1>2, <1>3 DEF Blame, Laid, Retried
<1>5. h.hits + 1 >= q.try
  BY <1>2, <1>3, <1>4
<1>6. q.at = "lookup again" => fly.app \/ h.undone
  BY <1>2, <1>3 DEF Blame
<1>7. Blame(q, h, fly)
  BY <1>3, <1>4, <1>5, <1>6 DEF Blame
<1>. QED
  BY <1>1, <1>2, <1>7, BlameAlone

LEMMA BlameTurns ==
    ASSUME LifeInv, BlameInv, NEW o \in Operators, NEW q, q.answer = Nil, q.try = 1,
           q.at \in {"idle", "lookup", "list"},
           fly' = fly, run' = [run EXCEPT ![o] = q],
           past' = [past EXCEPT ![o] = Unknown(fly)]
    PROVE  BlameInv'
<1>1. run \in [Operators -> RunType] /\ past \in [Operators -> HistoryType]
  BY Typed DEF LifeInv
<1>2. Unknown(fly).hits \in Nat
  BY DEF Unknown
<1>3. Blame(q, Unknown(fly), fly)
  BY <1>2, Onward
<1>. QED
  BY <1>1, <1>3 DEF BlameInv

LEMMA BlameKeeps ==
    ASSUME LifeInv, BlameInv, [LifeNext]_lifeVars
    PROVE  BlameInv'
<1>1. ASSUME NEW o \in Operators, Served(o) \/ GoesWrong(o)
      PROVE  BlameInv'
  BY <1>1, BlameCalls DEF Served, GoesWrong
<1>2. ASSUME NEW o \in Operators, Runs(o)
      PROVE  BlameInv'
  BY <1>1, <1>2, BlameTries, BlameEnsure, BlameRollout, BlameOthers DEF Runs
<1>3. ASSUME NEW o \in Operators, NEW c \in Commands, StartCommand(o, c)
      PROVE  BlameInv'
  <2>1. PICK config :
        run' = [run EXCEPT ![o] = [Resting EXCEPT !.cmd = c, !.config = config,
                    !.at = IF c = "deploy" THEN "lookup" ELSE "list"]]
    BY <1>3 DEF StartCommand
  <2>2. PICK q :
        /\ q = [Resting EXCEPT !.cmd = c, !.config = config,
                    !.at = IF c = "deploy" THEN "lookup" ELSE "list"]
        /\ run' = [run EXCEPT ![o] = q]
    BY <2>1
  <2>3. q.answer = Nil /\ q.try = 1 /\ q.at \in {"idle", "lookup", "list"}
    BY <2>2 DEF Resting
  <2>. QED
    BY <1>3, <2>2, <2>3, BlameTurns DEF StartCommand
<1>4. ASSUME NEW o \in Operators, Killed(o)
      PROVE  BlameInv'
  <2>1. Resting.answer = Nil /\ Resting.try = 1 /\ Resting.at = "idle"
    BY DEF Resting
  <2>. QED
    BY <1>4, <2>1, BlameTurns DEF Killed
<1>5. CASE Outside
  <2>1. fly'.app = fly.app /\ run' = run /\ past' = past
    BY <1>5, Typed DEF Outside, With, LifeInv, FlyType
  <2>2. ASSUME NEW o \in Operators
        PROVE  Blame(run'[o], past'[o], fly')
    <3>1. Blame(run[o], past[o], fly)
      BY DEF BlameInv
    <3>2. PICK h : h = past[o]
      OBVIOUS
    <3>3. Aware(h, h, fly, fly')
      BY <2>1 DEF Aware
    <3>. QED
      BY <2>1, <3>1, <3>2, <3>3, Still
  <2>. QED
    BY <2>2 DEF BlameInv
<1>6. CASE UNCHANGED lifeVars
  <2>1. fly' = fly /\ run' = run /\ past' = past
    BY <1>6 DEF lifeVars
  <2>. QED
    BY <2>1 DEF BlameInv
<1>. QED
  BY <1>1, <1>2, <1>3, <1>4, <1>5, <1>6 DEF LifeNext

LEMMA BlameBegins == LifeInit => BlameInv
<1>. SUFFICES ASSUME LifeInit, NEW o \in Operators PROVE Blame(run[o], past[o], fly)
  BY DEF BlameInv
<1>1. run[o] = Resting /\ past[o] = Unknown(fly)
  BY DEF LifeInit
<1>2. Resting.answer = Nil /\ Resting.try = 1 /\ Resting.at = "idle"
  BY DEF Resting
<1>3. Unknown(fly).hits \in Nat
  BY DEF Unknown
<1>. QED
  BY <1>1, <1>2, <1>3, Onward

\* A failure of a deploy to ensure its app, or of a destroy, has a cause: a call was
\* refused or answered with something else, as many went wrong as are tried, or the app
\* was not there or was undone meanwhile; never that it was there already, nor that a
\* delete had had its effect before (deployer.go:153-198, 231-243, 320-334).
THEOREM FailuresHaveCauses == LifeSpec => []FailsOnlyWhenDisturbed
<1>1. BlameInv => FailsOnlyWhenDisturbed
  BY DEF BlameInv, Blame, Excused, FailsOnlyWhenDisturbed
<1>. QED
  BY <1>1, AlwaysSane, BlameBegins, BlameKeeps, PTL DEF LifeSpec
=============================================================================
