---------------------------- MODULE AppContract ----------------------------
(***************************************************************************)
(* What the owner of a Fly app may rely on while any number of applies run *)
(* against it, are killed, or fail half way.                               *)
(*                                                                         *)
(* An invocation first only adds machines and rewrites managed ones        *)
(* ("writing"), then only removes managed ones ("pruning"); when it gives  *)
(* up it only removes machines it added itself ("undoing").  It never goes *)
(* back, and no invocation ever touches a machine that is not managed.     *)
(* Others may destroy machines too; every one of those is counted, so that *)
(* no removal by an invocation can pass for one of theirs.                 *)
(***************************************************************************)
EXTENDS Naturals

CONSTANTS Invocations, Ids

VARIABLES fleet,    \* the machines of the app: id -> [managed, config]
          phase,    \* per invocation
          own,      \* machines the invocation knows it added
          lost      \* machines destroyed by other means

vars == <<fleet, phase, own, lost>>

\* The phases an invocation in a phase may be in one step later.
Later == [idle     |-> {"idle", "writing"},
          writing  |-> {"writing", "pruning", "undoing", "idle"},
          pruning  |-> {"pruning", "undoing", "idle"},
          undoing  |-> {"undoing", "idle"}]

Same(ids) == \A id \in ids : fleet'[id] = fleet[id]

Add(i, id) ==
    /\ phase[i] = "writing"
    /\ id \notin DOMAIN fleet
    /\ DOMAIN fleet' = DOMAIN fleet \cup {id}
    /\ fleet'[id].managed
    /\ Same(DOMAIN fleet)

Rewrite(i, id) ==
    /\ phase[i] = "writing"
    /\ id \in DOMAIN fleet
    /\ DOMAIN fleet' = DOMAIN fleet
    /\ fleet[id].managed /\ fleet'[id].managed
    /\ Same(DOMAIN fleet \ {id})

Remove(i, id) ==
    /\ \/ phase[i] = "pruning"
       \/ phase[i] \in {"writing", "undoing"} /\ id \in own[i]
    /\ id \in DOMAIN fleet => fleet[id].managed
    /\ DOMAIN fleet' = DOMAIN fleet \ {id}
    /\ Same(DOMAIN fleet')

\* An invocation comes to own only what it adds.
Step(i) ==
    /\ phase' = [phase EXCEPT ![i] = phase'[i]]
    /\ phase'[i] \in Later[phase[i]]
    /\ own' = [own EXCEPT ![i] = own'[i]]
    /\ \/ own'[i] \subseteq own[i] /\ UNCHANGED fleet
       \/ \E id \in Ids :
            \/ Add(i, id) /\ own'[i] \subseteq own[i] \cup {id}
            \/ (Rewrite(i, id) \/ Remove(i, id)) /\ own'[i] \subseteq own[i]
    /\ UNCHANGED lost

\* A machine is destroyed by other means.
Outside(id) ==
    /\ id \in DOMAIN fleet
    /\ lost' = lost + 1
    /\ DOMAIN fleet' = DOMAIN fleet \ {id}
    /\ Same(DOMAIN fleet')
    /\ UNCHANGED <<phase, own>>

Init ==
    /\ DOMAIN fleet \subseteq Ids
    /\ phase = [i \in Invocations |-> "idle"]
    /\ own = [i \in Invocations |-> {}]
    /\ lost = 0

Next == (\E i \in Invocations : Step(i)) \/ (\E id \in Ids : Outside(id))

Spec == Init /\ [][Next]_vars
=============================================================================
