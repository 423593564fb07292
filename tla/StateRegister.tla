--------------------------- MODULE StateRegister ---------------------------
(***************************************************************************)
(* What the commands rely on when they keep the project's state in         *)
(* .score-flyio/state.yaml: a register that many processes read and write. *)
(* A read returns what some write left, a write happens all at once at one *)
(* moment between its call and its answer, one that answers "ok" has       *)
(* happened, one that answers "error" has not, and a killed process has    *)
(* done either the whole write or none of it.                              *)
(***************************************************************************)
CONSTANTS Clients, Values, NoFile, Unread

VARIABLES register,   \* the value, or NoFile before the first write
          view,       \* what each client read last
          intent,     \* the value each client is writing
          phase,      \* "idle", "writing" (not yet happened), "written"
          answer      \* how each client's last write ended

vars == <<register, view, intent, phase, answer>>

Read(c) ==
    /\ phase[c] = "idle"
    /\ view' = [view EXCEPT ![c] = register]
    /\ UNCHANGED <<register, intent, phase, answer>>

Begin(c, v) ==
    /\ phase[c] = "idle"
    /\ intent' = [intent EXCEPT ![c] = v]
    /\ phase' = [phase EXCEPT ![c] = "writing"]
    /\ UNCHANGED <<register, view, answer>>

Commit(c) ==
    /\ phase[c] = "writing"
    /\ register' = intent[c]
    /\ phase' = [phase EXCEPT ![c] = "written"]
    /\ UNCHANGED <<view, intent, answer>>

End(c) ==
    /\ phase[c] \in {"writing", "written"}
    /\ answer' = [answer EXCEPT ![c] = IF phase[c] = "written" THEN "ok" ELSE "error"]
    /\ phase' = [phase EXCEPT ![c] = "idle"]
    /\ UNCHANGED <<register, view, intent>>

Crash(c) ==
    /\ view' = [view EXCEPT ![c] = Unread]
    /\ phase' = [phase EXCEPT ![c] = "idle"]
    /\ UNCHANGED <<register, intent, answer>>

Init ==
    /\ register \in Values \cup {NoFile}
    /\ view = [c \in Clients |-> Unread]
    /\ intent \in [Clients -> Values]
    /\ phase = [c \in Clients |-> "idle"]
    /\ answer = [c \in Clients |-> "none"]

Next ==
    \E c \in Clients :
        \/ Read(c) \/ Commit(c) \/ End(c) \/ Crash(c)
        \/ \E v \in Values : Begin(c, v)

Spec == Init /\ [][Next]_vars
=============================================================================
