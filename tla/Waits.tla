-------------------------------- MODULE Waits --------------------------------
(***************************************************************************)
(* The waits of pkg/flydeploy/deployer against a clock: WaitForState and   *)
(* WaitForHealthy, one after the other as Apply calls them ("ready"), and  *)
(* WaitExit ("exit").                                                      *)
(*                                                                         *)
(* A wait is a loop of calls, each of them retried, with pauses in         *)
(* between; the deadline is looked at between calls only.  Meanwhile the   *)
(* machine does what it likes.  What a call reports is what Fly saw at     *)
(* some moment between the request and the answer.                          *)
(***************************************************************************)
EXTENDS Naturals

CONSTANTS StateTimeout, HealthTimeout,  \* of reconcile.Options
          StatePoll, HealthPoll,
          WaitCap,        \* maxWaitRequestSec
          MaxAttempts,    \* of the retry policy
          Backoff,        \* the pause after each failed attempt
          Latency,        \* an answer takes no longer (not the code's: its client
                          \* has no timeout of its own)
          Codes,          \* exit codes
          None

ASSUME WaitsAssumption ==
    /\ {StateTimeout, HealthTimeout, StatePoll, HealthPoll, WaitCap, MaxAttempts} \subseteq Nat \ {0}
    /\ Latency \in Nat
    /\ Backoff \in [1 .. MaxAttempts - 1 -> Nat]
    /\ None \notin Codes \cup {"ready", "error"} /\ Codes \cap {"ready", "error"} = {}
    /\ StateTimeout <= MaxAttempts * WaitCap

VARIABLES machine,   \* Fly: its state, and whether its checks pass or are absent
          code,      \* Fly: how its command exited
          logged,    \* Fly: the exit event is listed
          now,
          at, goal,
          op, attempt,  \* the call under way, and which attempt of it
          reply,     \* what Fly answers to it
          due,       \* when the call or the pause is over at the latest
          span,      \* time left at the top of WaitForState's loop
          deadline,
          outcome,    \* what the wait returned
          faulty,    \* history: a call has failed
          badAt, goodAt  \* history: when the awaited was last not so, and last so

fly == <<machine, code, logged>>
sight == <<badAt, goodAt>>
waitVars == <<fly, now, at, goal, op, attempt, reply, due, span, deadline, outcome, faulty, sight>>

\* A started machine is "healthy" if it has no check that reports anything but
\* passing.  "stopped" may also be destroyed: both are shown and both have exited,
\* while a machine that is "gone" is not found.
Machine == {"created", "failing", "healthy", "stopped", "gone"}

\* What an answer tells of it; none is none.
Reply == [machine : Machine, exit : Codes \cup {None}]

ASSUME ReplyAssumption == None \notin Reply

Started(m) == m \in {"failing", "healthy"}

\* What is awaited: a started machine no check of which reports anything but
\* passing, or a stopped one with its exit event.
Awaited(m, events) ==
    IF goal = "exit" THEN m = "stopped" /\ events ELSE m = "healthy"

Waiting == at \in {"loop", "call", "backoff", "pause"}

-----------------------------------------------------------------------------
(***************************************************************************)
(* The machine.                                                            *)
(***************************************************************************)
Observe ==
    IF Awaited(machine', logged')
    THEN goodAt' = now' /\ UNCHANGED badAt
    ELSE badAt' = now' /\ UNCHANGED goodAt

Change(m) ==
    /\ Waiting
    /\ m # machine
    /\ machine # "gone"
    /\ goal = "exit" /\ machine = "stopped" => m = "gone"
    /\ machine' = m
    /\ IF goal = "exit" /\ m = "stopped" /\ code = None THEN code' \in Codes ELSE UNCHANGED code
    /\ UNCHANGED <<logged, now, at, goal, op, attempt, reply, due, span, deadline, outcome, faulty>>
    /\ Observe

Log ==
    /\ Waiting
    /\ code # None
    /\ ~logged
    /\ logged' = TRUE
    /\ UNCHANGED <<machine, code, now, at, goal, op, attempt, reply, due, span, deadline, outcome, faulty>>
    /\ Observe

\* Time passes until something is due.
Tick ==
    /\ Waiting
    /\ now < due
    /\ now' = now + 1
    /\ UNCHANGED <<fly, at, goal, op, attempt, reply, due, span, deadline, outcome, faulty>>
    /\ Observe

-----------------------------------------------------------------------------
(***************************************************************************)
(* Calls and their retries.                                                *)
(***************************************************************************)
Least(a, b) == IF a < b THEN a ELSE b

\* The wait endpoint is asked to hold the request for at most the time that was
\* left when the loop began, whichever attempt this is.
AllowanceUncapped(o) == IF o = "wait" THEN span' ELSE Latency
Allowance(o) == IF o = "wait" THEN Least(span', WaitCap) ELSE Latency

Call(o, n) ==
    /\ at' = "call"
    /\ op' = o
    /\ attempt' = n
    /\ reply' = None
    /\ due' = now + Allowance(o)

Return(a) ==
    /\ at' = "done"
    /\ outcome' = a
    /\ reply' = None
    /\ UNCHANGED <<op, attempt, due, span, deadline>>

Serve ==
    /\ at = "call"
    /\ op # "wait"
    /\ reply = None
    /\ reply' = [machine |-> machine, exit |-> IF logged THEN code ELSE None]
    /\ UNCHANGED <<fly, now, at, goal, op, attempt, due, span, deadline, outcome, faulty, sight>>

\* retryValue: again after a pause, unless the status forbids it or this was the
\* last attempt.
Retry ==
    IF attempt < MaxAttempts
    THEN /\ at' = "backoff"
         /\ due' = now + Backoff[attempt]
         /\ reply' = None
         /\ UNCHANGED <<op, attempt, span, deadline, outcome>>
    ELSE Return("error")

ExpireNever == FALSE

ExpireFinal ==
    /\ at = "call"
    /\ op = "wait"
    /\ now = due
    /\ ~Started(machine)
    /\ Return("error")
    /\ UNCHANGED <<fly, now, goal, faulty, sight>>

\* The endpoint gives up (408) or the client does, at the same time.
Expire ==
    /\ at = "call"
    /\ op = "wait"
    /\ now = due
    /\ ~Started(machine)
    /\ Retry
    /\ UNCHANGED <<fly, now, goal, faulty, sight>>

CallFails ==
    /\ at = "call"
    /\ faulty' = TRUE
    /\ Retry \/ Return("error")
    /\ UNCHANGED <<fly, now, goal, sight>>

Again ==
    /\ at = "backoff"
    /\ now = due
    /\ UNCHANGED <<fly, now, goal, span, deadline, outcome, faulty, sight>>
    /\ Call(op, attempt + 1)

-----------------------------------------------------------------------------
(***************************************************************************)
(* The loops.                                                              *)
(***************************************************************************)
BeginWait(g) ==
    /\ at = "idle"
    /\ goal' = g
    /\ IF g = "exit"
       THEN /\ deadline' = now + HealthTimeout
            /\ Call("getExit", 1)
       ELSE /\ deadline' = now + StateTimeout
            /\ at' = "loop"
            /\ due' = now
            /\ UNCHANGED <<op, attempt, reply>>
    /\ UNCHANGED <<fly, now, span, outcome, faulty, sight>>

\* waitForState, top of the loop.
Loop ==
    /\ at = "loop"
    /\ IF now >= deadline
       THEN Return("error")
       ELSE /\ span' = deadline - now
            /\ Call("wait", 1)
            /\ UNCHANGED <<deadline, outcome>>
    /\ UNCHANGED <<fly, now, goal, faulty, sight>>

\* "A successful endpoint response alone is not readiness proof" (deployer.go:396).
Waited ==
    /\ at = "call"
    /\ op = "wait"
    /\ Call("getState", 1)
    /\ UNCHANGED <<fly, now, goal, span, deadline, outcome, faulty, sight>>

Pause(interval) ==
    IF now >= deadline
    THEN Return("error")
    ELSE /\ at' = "pause"
         /\ due' = now + Least(interval, deadline - now)
         /\ reply' = None
         /\ UNCHANGED <<op, attempt, span, deadline, outcome>>

\* A machine that is not found is not an error of any of the three loops.
GotState ==
    /\ at = "call" /\ op = "getState" /\ reply # None
    /\ IF Started(reply.machine)
       THEN /\ deadline' = now + HealthTimeout
            /\ Call("getHealth", 1)
            /\ UNCHANGED <<span, outcome>>
       ELSE Pause(StatePoll)
    /\ UNCHANGED <<fly, now, goal, faulty, sight>>

GotHealthLate ==
    /\ at = "call" /\ op = "getHealth" /\ reply # None
    /\ IF now >= deadline THEN Return("error")
       ELSE IF reply.machine = "healthy" THEN Return("ready") ELSE Pause(HealthPoll)
    /\ UNCHANGED <<fly, now, goal, faulty, sight>>

GotHealthBlind ==
    /\ at = "call" /\ op = "getHealth" /\ reply # None
    /\ IF Started(reply.machine) THEN Return("ready") ELSE Pause(HealthPoll)
    /\ UNCHANGED <<fly, now, goal, faulty, sight>>

GotHealth ==
    /\ at = "call" /\ op = "getHealth" /\ reply # None
    /\ IF reply.machine = "healthy" THEN Return("ready") ELSE Pause(HealthPoll)
    /\ UNCHANGED <<fly, now, goal, faulty, sight>>

GotExit ==
    /\ at = "call" /\ op = "getExit" /\ reply # None
    /\ IF reply.machine = "stopped"
       THEN Call("events", 1) /\ UNCHANGED <<span, deadline, outcome>>
       ELSE Pause(HealthPoll)
    /\ UNCHANGED <<fly, now, goal, faulty, sight>>

\* exitCode: no exit event is an error, and not waited for.
GotEventsZero ==
    /\ at = "call" /\ op = "events" /\ reply # None
    /\ Return(IF reply.exit # None THEN reply.exit ELSE CHOOSE c \in Codes : TRUE)
    /\ UNCHANGED <<fly, now, goal, faulty, sight>>

GotEvents ==
    /\ at = "call" /\ op = "events" /\ reply # None
    /\ Return(IF reply.exit # None THEN reply.exit ELSE "error")
    /\ UNCHANGED <<fly, now, goal, faulty, sight>>

Wake ==
    /\ at = "pause"
    /\ now = due
    /\ IF op = "getState"
       THEN at' = "loop" /\ UNCHANGED <<op, attempt, reply, due>>
       ELSE Call(op, 1)
    /\ UNCHANGED <<fly, now, goal, span, deadline, outcome, faulty, sight>>

Proceed ==
    \/ Serve \/ Expire \/ Again \/ (Started(machine) /\ Waited)
    \/ Loop \/ GotState \/ GotHealth \/ GotExit \/ GotEvents \/ Wake

WaitInit ==
    /\ machine \in {"created", "failing", "healthy"}
    /\ code = None
    /\ logged = FALSE
    /\ now = 0
    /\ at = "idle"
    /\ goal = "ready"
    /\ op = "wait"
    /\ attempt = 1
    /\ reply = None
    /\ due = 0
    /\ span = 0
    /\ deadline = 0
    /\ outcome = None
    /\ faulty = FALSE
    /\ badAt = 0
    /\ goodAt = 0

WaitNext ==
    \/ \E g \in {"ready", "exit"} : BeginWait(g)
    \/ Serve \/ Expire \/ Waited \/ Again
    \/ Loop \/ GotState \/ GotHealth \/ GotExit \/ GotEvents \/ Wake
    \/ CallFails
    \/ \E m \in Machine : Change(m)
    \/ Log
    \/ Tick

WaitSpec == WaitInit /\ [][WaitNext]_waitVars

\* Time passes and calls are answered.
WaitFairness == WF_waitVars(Tick) /\ WF_waitVars(Proceed)

FairWaits == WaitSpec /\ WaitFairness

-----------------------------------------------------------------------------
Ops == {"wait", "getState", "getHealth", "getExit", "events"}

\* Every time is a natural number - no deadline is missed by a negative span - and
\* no call is attempted more often than the policy allows.
WaitsTypeOK ==
    /\ machine \in Machine
    /\ code \in Codes \cup {None}
    /\ logged \in BOOLEAN
    /\ {now, due, span, deadline, badAt, goodAt} \subseteq Nat
    /\ at \in {"idle", "loop", "call", "backoff", "pause", "done"}
    /\ goal \in {"ready", "exit"}
    /\ op \in Ops
    /\ attempt \in 1 .. MaxAttempts
    /\ reply \in Reply \cup {None}
    /\ outcome \in {"ready", "error", None} \cup Codes
    /\ faulty \in BOOLEAN

\* The pauses after the first n attempts of a call, together.
Backoffs[n \in 0 .. MaxAttempts - 1] == IF n = 0 THEN 0 ELSE Backoffs[n - 1] + Backoff[n]

TotalBackoff == Backoffs[MaxAttempts - 1]

\* A wait outlives its deadline, by the retries of the calls begun before it and
\* no more: for WaitForState those of the wait request, each as long as the first,
\* and of the look that follows, for WaitExit those of the look and of the events
\* (deployer.go:495-534, 605-633).
OvershootBounded ==
    LET look == MaxAttempts * Latency + TotalBackoff
        late == IF goal = "exit" THEN 2 * look
                ELSE (MaxAttempts - 1) * Least(StateTimeout, WaitCap) + TotalBackoff + look
    IN  at # "idle" => now <= deadline + late

\* When no call fails, no wait gives up before its deadline: the retries of an
\* expired wait request last until then.  An exit without event ends earlier.
PatientWait ==
    outcome = "error" /\ ~faulty /\ op # "events" => now >= deadline

\* When no call fails, a wait that ends in an error has not missed what it waited
\* for: it was not so one poll and one answer before
\* (deployer.go:495-536: the look is skipped when the deadline falls in the pause).
NoMissedAnswer ==
    outcome = "error" /\ ~faulty => now <= badAt + StatePoll + Latency

\* A machine reported ready was started with no failing check at one and the same
\* moment, no more than the time of an answer ago (deployer.go:536-573).
ReadyIsReal == outcome = "ready" => now <= goodAt + Latency

\* An exit code is that of the command: neither a machine that is gone nor an event
\* that is not listed yet counts as an exit (deployer.go:456-493).
ExitIsReal == outcome \in Codes => outcome = code

\* Whatever the machine does and however calls fail, a wait ends.
WaitEnds == at # "idle" ~> at = "done"
=============================================================================
