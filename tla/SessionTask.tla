---------------------------- MODULE SessionTask ----------------------------
(***************************************************************************)
(* Work on leased workers (BrowserLease in                                 *)
(* crates/dig2browser-station/src/lib.rs): a task is a list of steps run   *)
(* under the session gate of one worker and one of the station's command   *)
(* slots; other leases of the same worker wait at that gate, while lease() *)
(* itself may restart a degraded worker without it.                        *)
(*                                                                         *)
(* The worker executes the commands of all callers one at a time, in the   *)
(* order sent (see Worker): each takes effect in one step of the model.    *)
(* Abstracted: a page is the caller that last changed it and a number, and *)
(* a selector matches or does not.                                         *)
(***************************************************************************)
EXTENDS Naturals, Sequences, FiniteSets

CONSTANTS
    Callers,
    Nobody,
    Workers,       \* the leased workers
    Tasks,         \* the step lists callers may run
    MaxInFlight,   \* config.max_in_flight, the number of command slots
    Failures,      \* whether the browser may fail by itself
    Repairs,       \* whether lease() calls arrive and repair a degraded worker
    MaxRuns        \* bound: tasks started and repairs made in a behaviour

Steps == {"Navigate", "WaitForSelector", "Click", "Read"}

ASSUME SessionAssumption ==
    /\ Nobody \notin Callers
    /\ \A task \in Tasks : task \in Seq(Steps) /\ task # <<>>
    /\ MaxInFlight \in Nat \ {0}
    /\ Failures \in BOOLEAN /\ Repairs \in BOOLEAN
    /\ MaxRuns \in Nat

VARIABLES
    worker,   \* the leased workers: lifecycle, page epoch, the page shown
    session,  \* session_gate of each worker: its holder
    slots,    \* command_slots: the callers that hold one
    waiters,  \* command_waiters, the published number of callers without one
    run,      \* per caller: the task it runs and how far it is
    runs      \* bound: tasks started and repairs made so far

vars == <<worker, session, slots, waiters, run, runs>>

-----------------------------------------------------------------------------
(* Types *)

\* changedBy: who last replaced the page, Nobody for a repair; present: the selector matches now.
WorkerRecords == [lifecycle : {"Ready", "Degraded"}, epoch : Nat,
                  changedBy : Callers \cup {Nobody}, present : BOOLEAN]

RunPcs == {"idle", "session", "slot", "step", "sent", "resolved", "restart", "polled"}
Results == {"None", "Ok", "Cancelled", "StepFailed", "WaitTimeout"}

\* step: index of the current step.  ref: the epoch an element was resolved in.
\* retried: the restart after a failed first navigation was used.
\* cancelled: the cancellation flag was raised (a call without one never sees that).
\* History: effects counts the times each step took effect; missed, whether the
\* selector was absent at the last poll of a wait.
RunRecords == [pc : RunPcs, worker : Workers \cup {Nobody}, task : Tasks \cup {<<>>},
               step : Nat, ref : Nat, retried : BOOLEAN, cancelled : BOOLEAN,
               result : Results, effects : Seq(Nat), missed : BOOLEAN]

Idle == [pc |-> "idle", worker |-> Nobody, task |-> <<>>, step |-> 0, ref |-> 0,
         retried |-> FALSE, cancelled |-> FALSE, result |-> "None",
         effects |-> <<>>, missed |-> FALSE]

TypeOK ==
    /\ worker \in [Workers -> WorkerRecords]
    /\ session \in [Workers -> Callers \cup {Nobody}]
    /\ slots \subseteq Callers
    /\ waiters \in Nat
    /\ run \in [Callers -> RunRecords]
    /\ runs \in Nat

Init ==
    /\ worker = [w \in Workers |-> [lifecycle |-> "Ready", epoch |-> 0,
                                    changedBy |-> Nobody, present |-> FALSE]]
    /\ session = [w \in Workers |-> Nobody]
    /\ slots = {} /\ waiters = 0
    /\ run = [c \in Callers |-> Idle]
    /\ runs = 0

-----------------------------------------------------------------------------

At(c, pc) == run[c].pc = pc
W(c) == run[c].worker
Step(c) == run[c].task[run[c].step]
Sent(c, steps) == At(c, "sent") /\ Step(c) \in steps
Ready(c) == worker[W(c)].lifecycle = "Ready"
Present(c) == worker[W(c)].present

\* Mutants: a waiter that gives up stays counted, the command slot is kept.
LetsGoWaiting(c) ==
    /\ session' = [w \in Workers |-> IF session[w] = c THEN Nobody ELSE session[w]]
    /\ slots' = slots \ {c}
    /\ UNCHANGED waiters
LetsGoSlotless(c) ==
    /\ session' = [w \in Workers |-> IF session[w] = c THEN Nobody ELSE session[w]]
    /\ UNCHANGED slots
    /\ waiters' = IF At(c, "slot") THEN waiters - 1 ELSE waiters

\* The guards are dropped when the call returns or its future goes away.
LetsGo(c) ==
    /\ session' = [w \in Workers |-> IF session[w] = c THEN Nobody ELSE session[w]]
    /\ slots' = slots \ {c}
    /\ waiters' = IF At(c, "slot") THEN waiters - 1 ELSE waiters

Returns(c, result) ==
    /\ run' = [run EXCEPT ![c].pc = "idle", ![c].result = result, ![c].cancelled = FALSE]
    /\ LetsGo(c)

Guards == <<session, slots, waiters>>

Advances(r) == [r EXCEPT !.pc = "step", !.step = @ + 1]

\* The step it is at has had its effect.
Struck(r) == [r EXCEPT !.effects[r.step] = @ + 1]

\* Mutant: the guards are held for one step at a time.
CompletesAlone(c) ==
    LET done == Struck(run[c])
    IN  /\ run' = [run EXCEPT ![c] =
              IF run[c].step < Len(run[c].task) THEN Advances(done)
              ELSE [done EXCEPT !.pc = "idle", !.cancelled = FALSE, !.result = "Ok"]]
        /\ LetsGo(c)

\* The step took effect and is over; after the last one the call returns.  The
\* reply of a command, not that of a wait, gives way to a flag raised meanwhile.
Completes(c) ==
    LET done == Struck(run[c])
        stops == run[c].cancelled /\ Step(c) # "WaitForSelector"
        rest == run[c].step < Len(run[c].task) /\ ~stops
    IN  /\ run' = [run EXCEPT ![c] =
              IF rest THEN Advances(done)
              ELSE [done EXCEPT !.pc = "idle", !.cancelled = FALSE,
                                !.result = IF stops THEN "Cancelled" ELSE "Ok"]]
        /\ IF rest THEN UNCHANGED Guards ELSE LetsGo(c)

Degrades(w) == worker' = [worker EXCEPT ![w].lifecycle = "Degraded"]

\* A restart or a navigation puts another page on show.
Replaced(w, c) ==
    [worker EXCEPT ![w] = [lifecycle |-> "Ready", epoch |-> @.epoch + 1,
                           changedBy |-> c, present |-> FALSE]]

\* The worker refuses every command but a restart.
Unavailable(c) == ~Ready(c) /\ UNCHANGED worker
\* The command fails in the browser before its effect.
Breaks(c) == Failures /\ Ready(c) /\ Degrades(W(c))
\* A selector that matches nothing is reported as a failed interaction, which
\* degrades the worker.
FindsNothing(c) == Ready(c) /\ ~Present(c) /\ Degrades(W(c))

\* The command fails after its effect: its answer was lost, or came too late.  A
\* navigation has then replaced the page, whose epoch moves with a success only.
Strikes(c) ==
    worker' = [worker EXCEPT ![W(c)] =
                  IF Step(c) = "Navigate"
                  THEN [@ EXCEPT !.lifecycle = "Degraded", !.changedBy = c, !.present = FALSE]
                  ELSE [@ EXCEPT !.lifecycle = "Degraded"]]
BreaksLate(c) == Failures /\ Ready(c) /\ Strikes(c)

-----------------------------------------------------------------------------
(* run_task_controlled *)

Start(c) ==
    /\ At(c, "idle") /\ runs < MaxRuns
    /\ runs' = runs + 1
    /\ \E w \in Workers, task \in Tasks :
          run' = [run EXCEPT ![c] =
              [Idle EXCEPT !.pc = "session", !.worker = w, !.task = task, !.step = 1,
                           !.effects = [i \in 1 .. Len(task) |-> 0]]]
    /\ UNCHANGED <<worker, Guards>>

LocksSession(c) ==
    /\ At(c, "session") /\ session[W(c)] = Nobody
    /\ session' = [session EXCEPT ![W(c)] = c]
    /\ waiters' = waiters + 1
    /\ run' = [run EXCEPT ![c].pc = "slot"]
    /\ UNCHANGED <<worker, slots, runs>>

TakesSlot(c) ==
    /\ At(c, "slot") /\ Cardinality(slots) < MaxInFlight
    /\ slots' = slots \cup {c}
    /\ waiters' = waiters - 1
    /\ run' = [run EXCEPT ![c].pc = "step"]
    /\ UNCHANGED <<worker, session, runs>>

\* The flag is looked at before each step and each poll.
SeesCancel(c) ==
    /\ At(c, "step") /\ run[c].cancelled
    /\ Returns(c, "Cancelled")
    /\ UNCHANGED <<worker, runs>>

Sends(c) ==
    /\ At(c, "step") /\ ~run[c].cancelled
    /\ run' = [run EXCEPT ![c].pc = "sent"]
    /\ UNCHANGED <<worker, Guards, runs>>

NavigateWorks(c) ==
    /\ Sent(c, {"Navigate"}) /\ Ready(c)
    /\ worker' = Replaced(W(c), c)
    /\ Completes(c)
    /\ UNCHANGED runs

\* Mutant: a navigation that failed is tried again wherever it stands.
RetriesAny(c) ==
    /\ Sent(c, {"Navigate"}) /\ ~run[c].retried
    /\ \/ Breaks(c) /\ run' = [run EXCEPT ![c].pc = "restart"]
       \/ BreaksLate(c) /\ run' = [run EXCEPT ![c] = [Struck(run[c]) EXCEPT !.pc = "restart"]]
    /\ UNCHANGED <<Guards, runs>>

\* The first step of a task, and only it, is tried once more after a restart
\* when its failure is one of navigation, whether or not the page had been
\* replaced by then; the flag does not stop the second try.
RetriesFirst(c) ==
    /\ Sent(c, {"Navigate"}) /\ run[c].step = 1 /\ ~run[c].retried
    /\ \/ Breaks(c) /\ run' = [run EXCEPT ![c].pc = "restart"]
       \/ BreaksLate(c) /\ run' = [run EXCEPT ![c] = [Struck(run[c]) EXCEPT !.pc = "restart"]]
    /\ UNCHANGED <<Guards, runs>>

Restarts(c) ==
    /\ At(c, "restart")
    /\ \/ /\ worker' = Replaced(W(c), c)
          /\ run' = [run EXCEPT ![c].pc = "sent", ![c].retried = TRUE]
          /\ UNCHANGED Guards
       \/ Failures /\ Degrades(W(c)) /\ Returns(c, "StepFailed")
    /\ UNCHANGED runs

\* Clicks and reads resolve their selector first and use the reference then.
Resolves(c) ==
    /\ Sent(c, {"Click", "Read"}) /\ Ready(c) /\ Present(c)
    /\ run' = [run EXCEPT ![c].pc = "resolved", ![c].ref = worker[W(c)].epoch]
    /\ UNCHANGED <<worker, Guards, runs>>

Usable(c) == Ready(c) /\ worker[W(c)].epoch = run[c].ref

UsesElement(c) ==
    /\ At(c, "resolved") /\ Usable(c)
    /\ Completes(c)
    /\ UNCHANGED <<worker, runs>>

\* Unavailable, missing, stale, or failed in the browser: the task ends.
StepFails(c) ==
    /\ \/ Sent(c, {"Navigate"}) /\ (Unavailable(c) \/ Breaks(c))
       \/ Sent(c, {"Click", "Read"}) /\ (Unavailable(c) \/ FindsNothing(c) \/ Breaks(c))
       \/ At(c, "resolved") /\ ~Usable(c) /\ UNCHANGED worker
       \/ At(c, "resolved") /\ Usable(c) /\ Breaks(c)
    /\ Returns(c, "StepFailed")
    /\ UNCHANGED runs

\* The same, when the browser had done the step before it failed.
StepFailsLate(c) ==
    /\ Sent(c, {"Navigate"}) \/ (At(c, "resolved") /\ Usable(c))
    /\ BreaksLate(c)
    /\ run' = [run EXCEPT ![c] = [Struck(run[c]) EXCEPT !.pc = "idle", !.cancelled = FALSE,
                                                      !.result = "StepFailed"]]
    /\ LetsGo(c)
    /\ UNCHANGED runs

-----------------------------------------------------------------------------
(* wait_for_selector: polls, looks at its deadline and sleeps.  Any error    *)
(* of a poll counts as not there yet.                                        *)

PollFinds(c) ==
    /\ Sent(c, {"WaitForSelector"}) /\ Ready(c) /\ Present(c)
    /\ Completes(c)
    /\ UNCHANGED <<worker, runs>>

PollMisses(c) ==
    /\ Sent(c, {"WaitForSelector"})
    /\ Unavailable(c) \/ FindsNothing(c) \/ Breaks(c)
    /\ run' = [run EXCEPT ![c].pc = "polled", ![c].missed = ~Present(c)]
    /\ UNCHANGED <<Guards, runs>>

PollsAgain(c) ==
    /\ At(c, "polled")
    /\ run' = [run EXCEPT ![c].pc = "step"]
    /\ UNCHANGED <<worker, Guards, runs>>

WaitExpires(c) ==
    /\ At(c, "polled")
    /\ Returns(c, "WaitTimeout")
    /\ UNCHANGED <<worker, runs>>

-----------------------------------------------------------------------------
(* What else happens *)

\* lease() finds the worker degraded and restarts it, without the session gate.
LeaseRepairs(w) ==
    /\ Repairs /\ worker[w].lifecycle = "Degraded"
    /\ runs < MaxRuns /\ runs' = runs + 1
    /\ worker' = Replaced(w, Nobody)
    /\ UNCHANGED <<Guards, run>>

\* A script of the page brings the element.
ElementAppears(w) ==
    /\ ~worker[w].present
    /\ worker' = [worker EXCEPT ![w].present = TRUE]
    /\ UNCHANGED <<Guards, run, runs>>

RaisesCancel(c) ==
    /\ ~At(c, "idle") /\ ~run[c].cancelled
    /\ run' = [run EXCEPT ![c].cancelled = TRUE]
    /\ UNCHANGED <<worker, Guards, runs>>

\* The caller's future is dropped; the command it had sent is still executed,
\* ahead of anything the next holder of the session can send.
DropsTask(c) ==
    /\ ~At(c, "idle")
    /\ \/ UNCHANGED worker
       \/ (Sent(c, Steps) \/ At(c, "resolved")) /\ (Breaks(c) \/ BreaksLate(c))
       \/ Sent(c, Steps \ {"Navigate"}) /\ FindsNothing(c)
       \/ At(c, "restart") /\ Failures /\ Degrades(W(c))
       \/ /\ At(c, "restart") \/ (Sent(c, {"Navigate"}) /\ Ready(c))
          /\ worker' = Replaced(W(c), c)
    /\ run' = [run EXCEPT ![c] = Idle]
    /\ LetsGo(c)
    /\ UNCHANGED runs

-----------------------------------------------------------------------------

TaskStep(c) ==
    \/ TakesSlot(c) \/ SeesCancel(c) \/ Sends(c)
    \/ NavigateWorks(c) \/ RetriesFirst(c) \/ Restarts(c)
    \/ Resolves(c) \/ UsesElement(c) \/ StepFails(c) \/ StepFailsLate(c)
    \/ PollFinds(c) \/ PollMisses(c)

Next ==
    \/ \E c \in Callers :
          \/ Start(c) \/ LocksSession(c) \/ TaskStep(c) \/ PollsAgain(c) \/ WaitExpires(c)
          \/ RaisesCancel(c) \/ DropsTask(c)
    \/ \E w \in Workers : LeaseRepairs(w) \/ ElementAppears(w)

\* Both gates serve their waiters in order; a worker answers every command; the
\* deadline of a wait comes, however often it has polled before.
Fairness ==
    \A c \in Callers :
        SF_vars(LocksSession(c) \/ TaskStep(c)) /\ SF_vars(WaitExpires(c))

Spec == Init /\ [][Next]_vars
FairSpec == Spec /\ Fairness

-----------------------------------------------------------------------------
(* Properties *)

Running(c) == run[c].pc \in {"step", "sent", "resolved", "restart", "polled"}

\* The tasks that navigated before the step they are at.
Navigated(c) == Running(c) /\ \E i \in 1 .. run[c].step - 1 : run[c].task[i] = "Navigate"

\* While a task runs, nobody else replaces the page under it: after its first
\* navigation the page it works on is its own ("Other consumers cannot
\* interleave page mutations between navigation, interaction, extraction, and
\* capture", run_task).
TaskOwnsPage == \A c \in Callers : Navigated(c) => worker[W(c)].changedBy = c

\* No other task replaces it, not even one whose caller gave up with a command
\* on its way: only the repair that lease() makes can (session_gate).
TasksKeepApart == \A c \in Callers : Navigated(c) => worker[W(c)].changedBy \in {c, Nobody}

\* No step takes effect twice, not even one that failed after its effect, whatever restarts,
\* repairs or cancellations happen on the way; the one exception is a navigation that opens
\* the task, which is sent once more after the runtime was restarted.  No step is left out:
\* each one has taken effect before the next begins, and all of them when the task is Ok
\* (run_task_controlled).
StepsTakeEffectOnce ==
    \A c \in Callers :
        /\ run[c].retried => run[c].task[1] = "Navigate"
        /\ \A i \in DOMAIN run[c].effects :
              /\ run[c].effects[i] <= IF i = 1 /\ run[c].retried THEN 2 ELSE 1
              /\ run[c].effects[i] > 0 => i <= run[c].step
              /\ i < run[c].step \/ run[c].result = "Ok" => run[c].effects[i] > 0

\* At most max_in_flight callers drive a browser, each inside its session, and
\* the published number of waiters is the number of callers that wait for a
\* slot, whichever of them gives up (CommandWaiter).
AdmissionIsCounted ==
    /\ Cardinality({c \in Callers : Running(c)}) <= MaxInFlight
    /\ \A c \in Callers : Running(c) => session[W(c)] = c
    /\ waiters = Cardinality({c \in Callers : At(c, "slot")})

\* A wait that times out did not overlook its element: at the last poll the
\* selector matched nothing ("Poll for `selector` until it resolves in the DOM
\* or `timeout` elapses", wait_for_selector).
WaitFindsElement ==
    \A c \in Callers : run[c].result = "WaitTimeout" => run[c].missed

\* Every task ends: the waits at the two gates never close a circle.
EveryTaskEnds == \A c \in Callers : ~At(c, "idle") ~> At(c, "idle")
=============================================================================
