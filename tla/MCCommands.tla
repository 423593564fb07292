----------------------------- MODULE MCCommands -----------------------------
(***************************************************************************)
(* The machine commands, model-checked: what two processes do to the state *)
(* file they share (Commands), and what two operators do to the app on Fly *)
(* (AppLife).  Neither reads what the other keeps, so each behaviour plays *)
(* one part, and the other rests in a state of its own.                    *)
(*                                                                         *)
(* Scales are model values: only whether two are equal matters here.       *)
(***************************************************************************)
EXTENDS Commands, AppLife, TLC

VARIABLE part

NoApp == [app |-> FALSE, live |-> NoDevices, used |-> {}]

MCInit ==
    /\ part \in {"state", "app"}
    /\ Init
    /\ LifeInit
    /\ part = "state" => fly = NoApp

MCNext ==
    \/ part = "state" /\ Next /\ UNCHANGED <<lifeVars, part>>
    \/ part = "app" /\ LifeNext /\ UNCHANGED <<vars, part>>

MCSpec == MCInit /\ [][MCNext]_<<vars, lifeVars, part>>

Symmetry == Permutations(Processes) \cup Permutations(Operators) \cup Permutations(Configs)
=============================================================================
