------------------------------- MODULE Worker -------------------------------
(***************************************************************************)
(* A browser worker: one actor task owns one browser runtime and serves    *)
(* the commands that any number of callers send through a bounded queue    *)
(* (src/agentic/worker.rs).  Callers are independent tasks; the actor is   *)
(* sequential, but every await of it is a step of its own here, so what    *)
(* other tasks do in between is interleaved.                               *)
(*                                                                         *)
(* Abstracted: the text of commands, results and URLs.  A document of the  *)
(* page is a number that changes whenever the worker replaces it; pages    *)
(* that navigate by themselves are outside the model.  Every in-flight     *)
(* runtime call may answer, fail or run into its timeout.                  *)
(***************************************************************************)
EXTENDS Naturals, Sequences, FiniteSets

CONSTANTS
    Clients,        \* tasks that hold a clone of the worker handle
    Nobody,         \* the caller of an envelope whose future was dropped
    QueueCapacity,  \* capacity of the command queue
    Granted,        \* the requests whose capability the worker was given
    RestartAfter,   \* navigations before the runtime asks for rotation; 0 never
    Cancellable,    \* callers whose futures may be dropped at an await
    MaxCalls        \* bound: calls made in a behaviour

Commands == {"Resolve", "Element", "Page", "Navigate", "Switch", "Restart", "Shutdown"}
Requests == Commands \cup {"Devtools"}

ASSUME WorkerAssumption ==
    /\ Nobody \notin Clients
    /\ QueueCapacity \in Nat \ {0}
    /\ Granted \subseteq Requests
    /\ RestartAfter \in Nat
    /\ Cancellable \subseteq Clients
    /\ MaxCalls \in Nat

VARIABLES
    pc,          \* where the actor task is
    current,     \* the envelope the actor is handling
    unconfirmed, \* startup_unconfirmed
    attempted,   \* shutdown_attempted
    snapshot,    \* the published snapshot
    runtime,     \* the browser runtime the actor owns, and its history
    queue,       \* the command channel
    devtools,    \* the subscription side channel
    refs,        \* history: the element references handed to callers
    stopped,     \* the stopped watch
    emergency,   \* the emergency watch
    handles,     \* some clone of the worker handle is alive
    join,        \* the JoinHandle in its mutex, and who holds the lock
    calls,       \* bound: calls made so far
    client       \* per caller: where it is, what it called, its result

locals == <<unconfirmed, attempted>>
channels == <<queue, devtools>>
shared == <<emergency, handles, join, calls>>
vars == <<pc, current, locals, snapshot, runtime, channels, refs, stopped, shared, client>>

-----------------------------------------------------------------------------
(* Types *)

Lifecycles == {"Starting", "Ready", "Restarting", "Degraded", "ShuttingDown", "Stopped"}
Snapshots == [lifecycle : Lifecycles, epoch : Nat, failed : BOOLEAN]

\* browser: a process is held.  policyOk: the page's request policy is healthy.
\* navigations: capped at RestartAfter.  History: doc, the document shown;
\* tainted, a call failed since the last (re)start; closes, calls of close().
Runtimes == [browser : {"up", "down"}, policyOk : BOOLEAN, navigations : Nat,
             doc : Nat, tainted : BOOLEAN, closes : Nat]

Refs == [epoch : Nat, doc : Nat]
NoRef == [epoch |-> 0, doc |-> 0]
Envelopes == [from : Clients \cup {Nobody}, cmd : Requests, ref : Refs]
NoEnvelope == [from |-> Nobody, cmd |-> "Page", ref |-> NoRef]

\* History: dropped, whoever had taken the handle gave up while awaiting it.
Joins == [taken : BOOLEAN, dropped : BOOLEAN, holder : Clients \cup {Nobody}]

\* Awaits of the actor that race the emergency watch in a biased select!.
Busy == {"restart", "work", "shutdownClose"}
Interruptible == {"starting", "select"} \cup Busy
ActorPcs == Interruptible \cup
    {"devtools", "leave", "finalClose", "emergencyClose", "drop", "announce",
     "return", "finished", "aborting", "aborted"}

\* The actor's future is gone, and with it every channel end it owned.
Gone == pc \in {"finished", "aborting", "aborted"}

ClientPcs == {"idle", "send", "reply", "subscribe", "subscribed", "stopWait",
              "finishWait", "join", "joining", "done"}
Calls == Requests \cup {"ShutdownWorker", "AbortNow", "EmergencyStop", "None"}
Results == {"None", "Ok", "Denied", "Unavailable", "Stale", "Invalid", "Failed",
            "Missing", "Timeout", "QueueClosed", "WorkerStopped"}
\* A caller that is sending holds a command, or a shutdown that sends one.
ClientStates ==
    {s \in [pc : ClientPcs, call : Calls, result : Results, ref : Refs] :
        s.pc = "send" => s.call \in Requests \cup {"ShutdownWorker"}}

TypeOK ==
    /\ pc \in ActorPcs
    /\ current \in Envelopes
    /\ unconfirmed \in BOOLEAN /\ attempted \in BOOLEAN
    /\ snapshot \in Snapshots
    /\ runtime \in Runtimes
    /\ queue \in Seq(Envelopes)
    /\ devtools \in Seq(Clients \cup {Nobody})
    /\ refs \subseteq Refs
    /\ stopped \in BOOLEAN /\ emergency \in BOOLEAN /\ handles \in BOOLEAN
    /\ join \in Joins
    /\ calls \in Nat
    /\ client \in [Clients -> ClientStates]

-----------------------------------------------------------------------------
(* Replies.  A shutdown() call goes on after its reply; every other call   *)
(* returns it.  A caller whose future was dropped gets nothing.            *)

Received(cl, result) ==
    [cl EXCEPT !.pc = IF cl.call = "ShutdownWorker" THEN "stopWait" ELSE "done",
               !.result = result]

Answered(c, result) ==
    [d \in Clients |-> IF d = c THEN Received(client[d], result) ELSE client[d]]

\* Mutant: callers whose envelopes are gone go on waiting.
UnansweredKept == client

\* The actor's future ends: every reply sender it still owned is dropped.
Unanswered ==
    [d \in Clients |-> IF client[d].pc \in {"reply", "subscribed"}
                       THEN Received(client[d], "WorkerStopped") ELSE client[d]]

Reply(result) ==
    /\ client' = Answered(current.from, result)
    /\ current' = NoEnvelope

Publish(lifecycle, failed) ==
    snapshot' = [snapshot EXCEPT !.lifecycle = lifecycle, !.failed = failed]

\* Mutant: the failure is published as a lifecycle of its own.
DegradeFailed == Publish("Failed", TRUE)
Degrade == Publish("Degraded", TRUE)

PolicyHealthy(r) == r.browser = "up" /\ r.policyOk

Init ==
    /\ pc = "starting" /\ current = NoEnvelope
    /\ unconfirmed = FALSE /\ attempted = FALSE
    /\ snapshot = [lifecycle |-> "Starting", epoch |-> 0, failed |-> FALSE]
    /\ runtime = [browser |-> "down", policyOk |-> FALSE, navigations |-> 0,
                  doc |-> 0, tainted |-> FALSE, closes |-> 0]
    /\ queue = <<>> /\ devtools = <<>> /\ refs = {}
    /\ stopped = FALSE /\ emergency = FALSE /\ handles = TRUE
    /\ join = [taken |-> FALSE, dropped |-> FALSE, holder |-> Nobody]
    /\ calls = 0
    /\ client = [c \in Clients |-> [pc |-> "idle", call |-> "None",
                                    result |-> "None", ref |-> NoRef]]

-----------------------------------------------------------------------------
(* The actor: startup.  An error and a timeout both leave it unconfirmed:  *)
(* a browser that was launched by then may still be there.                 *)

StartSucceeds ==
    /\ pc = "starting" /\ ~emergency
    /\ pc' = "select"
    /\ Publish("Ready", FALSE)
    /\ runtime' = [runtime EXCEPT !.browser = "up", !.policyOk = TRUE]
    /\ UNCHANGED <<current, locals, channels, refs, stopped, shared, client>>

StartFails ==
    /\ pc = "starting" /\ ~emergency
    /\ pc' = "select"
    /\ Degrade
    /\ unconfirmed' = TRUE
    /\ \E browser \in {"up", "down"} :
          runtime' = [runtime EXCEPT !.browser = browser, !.tainted = TRUE]
    /\ UNCHANGED <<current, attempted, channels, refs, stopped, shared, client>>

-----------------------------------------------------------------------------
(* The actor: commands.  The checks of handle_command run in this order;   *)
(* each one that fails answers the caller before the runtime is touched.   *)

Receive(e) ==
    /\ pc = "select" /\ ~emergency
    /\ queue # <<>>
    /\ e = Head(queue)
    /\ queue' = Tail(queue)

\* Mutants: a degraded worker, or one of unconfirmed startup, is not refused.
RefusesUngranted(e) == e.cmd \notin Granted \/ (unconfirmed /\ e.cmd = "Restart")
RefusesNoRestart(e) ==
    \/ e.cmd \notin Granted
    \/ snapshot.lifecycle = "Degraded" /\ e.cmd \notin {"Restart", "Shutdown"}
Refuses(e) ==
    \/ e.cmd \notin Granted
    \/ snapshot.lifecycle = "Degraded" /\ e.cmd \notin {"Restart", "Shutdown"}
    \/ unconfirmed /\ e.cmd = "Restart"

PolicyBlocks(e) == e.cmd \notin {"Restart", "Shutdown"} /\ ~PolicyHealthy(runtime)

Rotates(e) ==
    \/ e.cmd = "Restart"
    \/ e.cmd = "Navigate" /\ RestartAfter > 0 /\ runtime.navigations >= RestartAfter

\* Mutant: only references from the future are stale.
IsStaleAhead(e) == e.cmd = "Element" /\ e.ref.epoch > snapshot.epoch
IsStale(e) == e.cmd = "Element" /\ e.ref.epoch # snapshot.epoch

\* A Shutdown that is refused for want of its capability still ends the loop.
RefuseCommand(e) ==
    /\ Receive(e) /\ Refuses(e)
    /\ pc' = IF e.cmd = "Shutdown" THEN "leave" ELSE "select"
    /\ client' = Answered(e.from, IF e.cmd \in Granted THEN "Unavailable" ELSE "Denied")
    /\ UNCHANGED <<current, locals, snapshot, runtime, devtools, refs, stopped, shared>>

FailOnPolicy(e) ==
    /\ Receive(e) /\ ~Refuses(e) /\ PolicyBlocks(e)
    /\ Degrade
    /\ runtime' = [runtime EXCEPT !.tainted = TRUE]
    /\ client' = Answered(e.from, "Failed")
    /\ UNCHANGED <<pc, current, locals, devtools, refs, stopped, shared>>

Admits(e) == Receive(e) /\ ~Refuses(e) /\ ~PolicyBlocks(e)

\* A stale reference, or an argument that fails validation.
RejectArgument(e) ==
    /\ Admits(e) /\ ~Rotates(e)
    /\ \/ IsStale(e) /\ client' = Answered(e.from, "Stale")
       \/ /\ ~IsStale(e) /\ e.cmd \in {"Resolve", "Element", "Page", "Navigate", "Switch"}
          /\ client' = Answered(e.from, "Invalid")
    /\ UNCHANGED <<pc, current, locals, snapshot, runtime, devtools, refs, stopped, shared>>

StartCommand(e) ==
    /\ Admits(e) /\ ~Rotates(e) /\ ~IsStale(e) /\ e.cmd # "Shutdown"
    /\ current' = e
    /\ pc' = "work"
    /\ UNCHANGED <<locals, snapshot, runtime, devtools, refs, stopped, shared, client>>

\* restart_runtime: for a Restart, or before a Navigate when the runtime asks.
StartRestart(e) ==
    /\ Admits(e) /\ Rotates(e)
    /\ current' = e
    /\ pc' = "restart"
    /\ snapshot' = [snapshot EXCEPT !.lifecycle = "Restarting", !.epoch = @ + 1]
    /\ runtime' = [runtime EXCEPT !.navigations = 0]
    /\ UNCHANGED <<locals, devtools, refs, stopped, shared, client>>

StartShutdown(e) ==
    /\ Admits(e) /\ e.cmd = "Shutdown"
    /\ current' = e
    /\ attempted' = TRUE
    /\ pc' = "shutdownClose"
    /\ snapshot' = [snapshot EXCEPT !.lifecycle = "ShuttingDown"]
    /\ runtime' = [runtime EXCEPT !.closes = @ + 1]
    /\ UNCHANGED <<unconfirmed, devtools, refs, stopped, shared, client>>

\* A Navigate that asked for rotation goes on with its own call, unless its
\* argument now fails validation.
RestartSucceeds ==
    /\ pc = "restart" /\ ~emergency
    /\ Publish("Ready", FALSE)
    /\ runtime' = [runtime EXCEPT !.browser = "up", !.policyOk = TRUE,
                                  !.tainted = FALSE, !.doc = @ + 1]
    /\ \/ current.cmd = "Navigate" /\ pc' = "work" /\ UNCHANGED <<client, current>>
       \/ current.cmd = "Navigate" /\ pc' = "select" /\ Reply("Invalid")
       \/ current.cmd = "Restart" /\ pc' = "select" /\ Reply("Ok")
    /\ UNCHANGED <<locals, channels, refs, stopped, shared>>

\* An error leaves no browser; a timeout may strike before the old one was
\* released or after the new one was launched.
RestartFails ==
    /\ pc = "restart" /\ ~emergency
    /\ pc' = "select"
    /\ Degrade
    /\ \E browser \in {"up", "down"} :
          /\ runtime' = [runtime EXCEPT !.browser = browser, !.tainted = TRUE]
          /\ Reply("Timeout") \/ (browser = "down" /\ Reply("Failed"))
    /\ UNCHANGED <<locals, channels, refs, stopped, shared>>

Replaces(cmd) == cmd \in {"Navigate", "Switch"}

\* What a successful runtime call leaves: a switched-to page has its own policy.
AfterWork ==
    [runtime EXCEPT
        !.doc = IF Replaces(current.cmd) THEN @ + 1 ELSE @,
        !.navigations = IF current.cmd = "Navigate" /\ @ < RestartAfter THEN @ + 1 ELSE @,
        !.policyOk = @ \/ current.cmd = "Switch"]

\* The epoch moves with the document, and the policy is checked once more
\* before the caller sees the success.
WorkSucceeds ==
    /\ pc = "work" /\ ~emergency
    /\ pc' = "select"
    /\ LET ok == PolicyHealthy(AfterWork)
       IN  /\ runtime' = [AfterWork EXCEPT !.tainted = @ \/ ~ok]
           /\ snapshot' = [lifecycle |-> IF ok THEN "Ready" ELSE "Degraded",
                           failed |-> ~ok,
                           epoch |-> IF Replaces(current.cmd) THEN snapshot.epoch + 1
                                                              ELSE snapshot.epoch]
           /\ Reply(IF ok THEN "Ok" ELSE "Failed")
           /\ refs' = IF ok /\ current.cmd = "Resolve"
                      THEN refs \cup {[epoch |-> snapshot.epoch, doc |-> runtime.doc]}
                      ELSE refs
    /\ UNCHANGED <<locals, channels, stopped, shared>>

\* A selector that matches nothing: the observation failed, the worker did not.
WorkMissing ==
    /\ pc = "work" /\ ~emergency
    /\ current.cmd \in {"Resolve", "Element"}
    /\ pc' = "select"
    /\ Publish("Ready", FALSE)
    /\ Reply("Missing")
    /\ UNCHANGED <<locals, runtime, channels, refs, stopped, shared>>

\* The call failed or timed out, perhaps after it had replaced the document.
WorkFails ==
    /\ pc = "work" /\ ~emergency
    /\ pc' = "select"
    /\ Degrade
    /\ \E doc \in {runtime.doc} \cup
                  (IF Replaces(current.cmd) THEN {runtime.doc + 1} ELSE {}) :
          runtime' = [runtime EXCEPT !.doc = doc, !.tainted = TRUE]
    /\ Reply("Failed") \/ Reply("Timeout")
    /\ UNCHANGED <<locals, channels, refs, stopped, shared>>

\* Mutant: after a close that timed out the loop goes on.
ShutdownEndsOrNot ==
    /\ pc = "shutdownClose" /\ ~emergency
    /\ \/ /\ Publish("Stopped", FALSE) /\ ~unconfirmed /\ Reply("Ok") /\ pc' = "leave"
          /\ runtime' = [runtime EXCEPT !.browser = "down"]
       \/ Degrade /\ Reply("Timeout") /\ pc' = "select" /\ UNCHANGED runtime
    /\ UNCHANGED <<locals, channels, refs, stopped, shared>>

\* A close that runs into close_timeout leaves the worker Degraded for a moment.
ShutdownEnds ==
    /\ pc = "shutdownClose" /\ ~emergency
    /\ pc' = "leave"
    /\ \/ /\ Publish("Stopped", FALSE) /\ ~unconfirmed /\ Reply("Ok")
          /\ runtime' = [runtime EXCEPT !.browser = "down"]
       \/ /\ Publish("Stopped", TRUE) /\ Reply("Failed")
          /\ runtime' = [runtime EXCEPT !.browser = "down"]
       \/ /\ Degrade /\ Reply("Timeout")
          /\ \E browser \in {runtime.browser, "down"} :
                runtime' = [runtime EXCEPT !.browser = browser]
    /\ UNCHANGED <<locals, channels, refs, stopped, shared>>

-----------------------------------------------------------------------------
(* The actor: DevTools subscriptions.  They are served when no command is  *)
(* waiting, and their runtime call has neither a timeout nor a race with   *)
(* the emergency watch.                                                    *)

ServeDevtools ==
    /\ pc = "select" /\ ~emergency
    /\ queue = <<>> /\ devtools # <<>>
    /\ devtools' = Tail(devtools)
    /\ IF "Devtools" \in Granted /\ snapshot.lifecycle = "Ready"
       THEN /\ pc' = "devtools"
            /\ current' = [NoEnvelope EXCEPT !.from = Head(devtools), !.cmd = "Devtools"]
            /\ UNCHANGED client
       ELSE /\ client' = Answered(Head(devtools),
                            IF "Devtools" \in Granted THEN "Unavailable" ELSE "Denied")
            /\ UNCHANGED <<pc, current>>
    /\ UNCHANGED <<locals, snapshot, runtime, queue, refs, stopped, shared>>

DevtoolsAnswers ==
    /\ pc = "devtools"
    /\ pc' = "select"
    /\ Reply("Ok") \/ Reply("Failed")
    /\ UNCHANGED <<locals, snapshot, runtime, channels, refs, stopped, shared>>

-----------------------------------------------------------------------------
(* The actor: the end *)

\* commands.recv() yields None: every handle was dropped.
ChannelCloses ==
    /\ pc = "select" /\ ~emergency
    /\ ~handles /\ queue = <<>>
    /\ pc' = "leave"
    /\ UNCHANGED <<current, locals, snapshot, runtime, channels, refs, stopped, shared, client>>

\* Mutants: a close that failed is tried again; a close is never owed.
CloseDoneIfStopped == snapshot.lifecycle = "Stopped"
CloseNeverOwed == TRUE
CloseDone == snapshot.lifecycle = "Stopped" \/ attempted

LeaveLoop ==
    /\ pc = "leave"
    /\ IF CloseDone
       THEN /\ pc' = "drop"
            /\ snapshot' = [snapshot EXCEPT !.lifecycle = "Stopped"]
            /\ UNCHANGED runtime
       ELSE /\ pc' = "finalClose"
            /\ snapshot' = [snapshot EXCEPT !.lifecycle = "ShuttingDown"]
            /\ runtime' = [runtime EXCEPT !.closes = @ + 1]
    /\ UNCHANGED <<current, locals, channels, refs, stopped, shared, client>>

\* The awaits of startup and of the main loop lose to the emergency watch; the
\* envelope in hand is dropped with its reply sender.
EmergencyInterrupts ==
    /\ pc \in Interruptible /\ emergency
    /\ pc' = "emergencyClose"
    /\ Publish("ShuttingDown", snapshot.failed \/ pc = "starting")
    /\ runtime' = [runtime EXCEPT !.closes = @ + 1]
    /\ IF pc \in Busy THEN Reply("WorkerStopped") ELSE UNCHANGED <<client, current>>
    /\ UNCHANGED <<locals, channels, refs, stopped, shared>>

\* The last runtime.close() of either path: it answers, fails or times out.
LastCloseEnds ==
    /\ pc \in {"finalClose", "emergencyClose"}
    /\ pc' = "drop"
    /\ \E browser \in {runtime.browser, "down"}, failed \in BOOLEAN :
          /\ ~failed => browser = "down"
          /\ runtime' = [runtime EXCEPT !.browser = browser]
          /\ Publish("Stopped", snapshot.failed \/ failed)
    /\ UNCHANGED <<current, locals, channels, refs, stopped, shared, client>>

\* Mutant: stopped is announced while the runtime is still held.
DropRuntimeNot ==
    /\ pc = "drop"
    /\ pc' = "announce"
    /\ UNCHANGED <<current, locals, snapshot, runtime, channels, refs, stopped, shared, client>>

DropRuntime ==
    /\ pc = "drop"
    /\ pc' = "announce"
    /\ runtime' = [runtime EXCEPT !.browser = "down"]
    /\ UNCHANGED <<current, locals, snapshot, channels, refs, stopped, shared, client>>

AnnounceStopped ==
    /\ pc = "announce"
    /\ pc' = "return"
    /\ stopped' = TRUE
    /\ UNCHANGED <<current, locals, snapshot, runtime, channels, refs, shared, client>>

\* run_actor returns: the queues go with their envelopes, then `finished` is set.
ActorReturns ==
    /\ pc = "return"
    /\ pc' = "finished"
    /\ queue' = <<>> /\ devtools' = <<>>
    /\ client' = Unanswered
    /\ UNCHANGED <<current, locals, snapshot, runtime, refs, stopped, shared>>

\* An aborted future drops its channel ends first and the runtime last.
AbortDrops ==
    /\ pc = "aborting"
    /\ pc' = "aborted"
    /\ runtime' = [runtime EXCEPT !.browser = "down"]
    /\ UNCHANGED <<current, locals, snapshot, channels, refs, stopped, shared, client>>

\* The exact page request policy loses its transport or its task.
PolicyBreaks ==
    /\ PolicyHealthy(runtime)
    /\ runtime' = [runtime EXCEPT !.policyOk = FALSE]
    /\ UNCHANGED <<pc, current, locals, snapshot, channels, refs, stopped, shared, client>>

-----------------------------------------------------------------------------
(* Callers *)

actorVars == <<pc, locals, snapshot, runtime, refs, stopped>>

Calling(c) == client[c].pc \notin {"idle", "done"}

Goto(c, state) == client' = [client EXCEPT ![c].pc = state]

NewCall(c) ==
    /\ ~Calling(c)
    /\ handles /\ calls < MaxCalls
    /\ calls' = calls + 1

\* execute(command), shutdown() and subscribe_devtools() up to their first await.
Call(c, call, ref) ==
    /\ NewCall(c)
    /\ client' = [client EXCEPT ![c] =
          IF call = "ShutdownWorker" /\ stopped
          THEN [pc |-> "join", call |-> call, ref |-> NoRef,
                result |-> IF snapshot.failed THEN "Failed" ELSE "Ok"]
          ELSE [pc |-> IF call = "Devtools" THEN "subscribe" ELSE "send",
                call |-> call, ref |-> ref, result |-> "None"]]
    /\ UNCHANGED <<actorVars, current, channels, emergency, handles, join>>

CallElement(c) == \E ref \in refs : Call(c, "Element", ref)

CallOther(c) ==
    \E call \in (Requests \cup {"ShutdownWorker"}) \ {"Element", "Shutdown"} :
        Call(c, call, NoRef)

\* abort_now(), which returns at once, alone or followed by wait_aborted().
CallAbort(c) ==
    /\ NewCall(c)
    /\ emergency' = TRUE
    /\ client' \in
          {[client EXCEPT ![c] = [pc |-> "done", call |-> "AbortNow",
                                  result |-> "Ok", ref |-> NoRef]],
           [client EXCEPT ![c] = [pc |-> "finishWait", call |-> "EmergencyStop",
                                  result |-> "Ok", ref |-> NoRef]]}
    /\ UNCHANGED <<actorVars, current, channels, handles, join>>

Enqueue(c) ==
    /\ client[c].pc = "send" /\ ~Gone
    /\ Len(queue) < QueueCapacity
    /\ queue' = Append(queue,
          [from |-> c, ref |-> client[c].ref,
           cmd |-> IF client[c].call = "ShutdownWorker" THEN "Shutdown" ELSE client[c].call])
    /\ Goto(c, "reply")
    /\ UNCHANGED <<actorVars, current, devtools, shared>>

\* The capacity of the side channel is 4.
EnqueueDevtools(c) ==
    /\ client[c].pc = "subscribe" /\ ~Gone
    /\ Len(devtools) < 4
    /\ devtools' = Append(devtools, c)
    /\ Goto(c, "subscribed")
    /\ UNCHANGED <<actorVars, current, queue, shared>>

SendFails(c) ==
    /\ client[c].pc \in {"send", "subscribe"} /\ Gone
    /\ client' = Answered(c, "QueueClosed")
    /\ UNCHANGED <<actorVars, current, channels, shared>>

\* wait_stopped(): the flag was raised, or its sender was dropped without that.
StopWaitEnds(c) ==
    /\ client[c].pc = "stopWait"
    /\ stopped \/ Gone
    /\ client' = [client EXCEPT ![c].pc = "join",
                     ![c].result = IF ~stopped /\ @ = "Ok" THEN "WorkerStopped" ELSE @]
    /\ UNCHANGED <<actorVars, current, channels, shared>>

FinishWaitEnds(c) ==
    /\ client[c].pc = "finishWait" /\ Gone
    /\ Goto(c, "join")
    /\ UNCHANGED <<actorVars, current, channels, shared>>

\* Steps the actor takes without an await in between: an abort has no effect.
Atomic == {"leave", "drop", "announce", "return"}

\* EMERGENCY_ACTOR_EXIT_TIMEOUT: the task is aborted, whatever it awaits.
AbortTooLate(c) ==
    /\ client[c].pc = "finishWait" /\ pc \in Atomic
    /\ Goto(c, "join")
    /\ UNCHANGED <<actorVars, current, channels, shared>>

HardAbort(c) ==
    /\ client[c].pc = "finishWait" /\ ~Gone /\ pc \notin Atomic
    /\ pc' = "aborting"
    /\ queue' = <<>> /\ devtools' = <<>> /\ current' = NoEnvelope
    /\ client' = [Unanswered EXCEPT ![c].pc = "join"]
    /\ UNCHANGED <<locals, snapshot, runtime, refs, stopped, shared>>

\* wait_actor_finished(): the first to lock the mutex takes the handle.
TakeJoin(c) ==
    /\ client[c].pc = "join" /\ join.holder = Nobody
    /\ IF join.taken
       THEN Goto(c, "done") /\ UNCHANGED join
       ELSE Goto(c, "joining") /\ join' = [join EXCEPT !.taken = TRUE, !.holder = c]
    /\ UNCHANGED <<actorVars, current, channels, emergency, handles, calls>>

Joined(c) ==
    /\ client[c].pc = "joining" /\ pc \in {"finished", "aborted"}
    /\ join' = [join EXCEPT !.holder = Nobody]
    /\ Goto(c, "done")
    /\ UNCHANGED <<actorVars, current, channels, emergency, handles, calls>>

Orphaned(e, c) == [e EXCEPT !.from = IF @ = c THEN Nobody ELSE @]

\* The caller's future is dropped at an await: an envelope it sent stays queued
\* without a receiver, a mutex it held is released, a handle it took is lost.
Cancel(c) ==
    /\ c \in Cancellable /\ Calling(c)
    /\ client' = [client EXCEPT ![c] =
                     [pc |-> "idle", call |-> "None", result |-> "None", ref |-> NoRef]]
    /\ queue' = [i \in DOMAIN queue |-> Orphaned(queue[i], c)]
    /\ devtools' = [i \in DOMAIN devtools |-> IF devtools[i] = c THEN Nobody ELSE devtools[i]]
    /\ current' = Orphaned(current, c)
    /\ join' = IF join.holder = c THEN [join EXCEPT !.holder = Nobody, !.dropped = TRUE]
                                  ELSE join
    /\ UNCHANGED <<actorVars, emergency, handles, calls>>

\* The last clone of the handle goes away while nobody is calling.
DropHandles ==
    /\ handles
    /\ \A c \in Clients : ~Calling(c)
    /\ handles' = FALSE
    /\ UNCHANGED <<actorVars, current, channels, emergency, join, calls, client>>

-----------------------------------------------------------------------------

HandleCommand(e) ==
    \/ RefuseCommand(e) \/ FailOnPolicy(e) \/ RejectArgument(e)
    \/ StartCommand(e) \/ StartRestart(e) \/ StartShutdown(e)

\* Every actor step but the answer to a DevTools subscription.
ActorStep ==
    \/ StartSucceeds \/ StartFails
    \/ queue # <<>> /\ HandleCommand(Head(queue))
    \/ RestartSucceeds \/ RestartFails
    \/ WorkSucceeds \/ WorkMissing \/ WorkFails
    \/ ShutdownEnds \/ ServeDevtools
    \/ ChannelCloses \/ LeaveLoop \/ EmergencyInterrupts \/ LastCloseEnds
    \/ DropRuntime \/ AnnounceStopped \/ ActorReturns \/ AbortDrops

\* The caller goes on by itself once what it waits for has happened.
Proceed(c) ==
    \/ EnqueueDevtools(c) \/ SendFails(c) \/ StopWaitEnds(c) \/ FinishWaitEnds(c)
    \/ AbortTooLate(c) \/ HardAbort(c) \/ TakeJoin(c) \/ Joined(c)

Next ==
    \/ ActorStep \/ DevtoolsAnswers \/ PolicyBreaks \/ DropHandles
    \/ \E c \in Clients :
          \/ CallElement(c) \/ CallOther(c) \/ CallAbort(c)
          \/ Enqueue(c) \/ Proceed(c) \/ Cancel(c)

\* The runtime schedules the actor and its callers; every runtime call but the
\* subscription is under a timeout, and the channel serves its senders in order.
\* Nothing makes the browser answer a subscription.
Fairness ==
    /\ WF_vars(ActorStep)
    /\ \A c \in Clients : WF_vars(Proceed(c)) /\ SF_vars(Enqueue(c))

Spec == Init /\ [][Next]_vars
FairSpec == Spec /\ Fairness

-----------------------------------------------------------------------------
(* What the owner of the handle sees of this worker. *)

Phase ==
    CASE pc \in {"announce", "return", "finished", "aborted"} -> "released"
      [] pc \in {"shutdownClose", "leave", "finalClose", "emergencyClose", "drop",
                 "aborting"} ->
            IF snapshot.lifecycle = "Stopped" THEN "stopped" ELSE "closing"
      [] OTHER -> CASE snapshot.lifecycle = "Starting" -> "starting"
                    [] snapshot.lifecycle = "Ready" -> "ready"
                    [] snapshot.lifecycle = "Restarting" -> "restarting"
                    [] OTHER -> "degraded"

Contract == INSTANCE WorkerContract WITH
    worker <- [phase |-> Phase, condemned |-> unconfirmed, live |-> runtime.browser = "up"]

-----------------------------------------------------------------------------
(* Properties *)

\* The actor implements the contract its owners rely on: it is used only while
\* it is ready, repaired only through a restart and never after an unconfirmed
\* startup, and released for good once it closes.
ImplementsContractSteps == Contract!Spec

\* Neither does it stay in a startup, a restart or a close: the phases its owner
\* waits through come to an end (wait_until_settled, shutdown).
ImplementsContract == Contract!FairSpec

\* A command on an element runs in the document the element was resolved in:
\* whatever replaced the document since, even a call that failed or timed out,
\* keeps the reference from being used (validate_element_epoch, worker.rs).
ElementActsOnItsDocument ==
    pc = "work" /\ current.cmd = "Element" => current.ref.doc = runtime.doc

\* A command reaches the runtime only while the runtime is sound: a browser is
\* there and no call failed since it was last started.  Degraded is left only
\* through a successful restart (handle_command and restart_runtime).
WorkOnSoundRuntime ==
    pc \in {"work", "devtools"} => runtime.browser = "up" /\ ~runtime.tainted

\* When startup could not be confirmed no later command may start the browser
\* again: the worker can only be shut down (handle_command).
UnconfirmedNeverServes ==
    unconfirmed => snapshot.lifecycle \notin {"Ready", "Restarting"}

\* The runtime is closed exactly once on every orderly way out; an emergency
\* may close it again, once, and the stopped flag is never raised without a
\* close (shutdown_attempted in run_actor).
OrderlyExitClosesOnce ==
    /\ ~emergency => runtime.closes <= 1
    /\ runtime.closes <= 2
    /\ stopped => runtime.closes >= 1

\* When shutdown() or wait_aborted() returns the browser has been released,
\* whoever else shuts down, aborts or gives up at the same time.  One case is
\* excepted, in which the code does return too early: the JoinHandle was dropped
\* by a caller that gave up while it awaited it (wait_actor_finished).
ReturnMeansReleased ==
    \A c \in Clients :
        /\ client[c].pc = "done"
        /\ client[c].call \in {"ShutdownWorker", "EmergencyStop"}
        => runtime.browser = "down" \/ join.dropped

\* Once the runtime was told to close the worker never looks usable again, even
\* when that close timed out and left it Degraded for a moment: no command of a
\* caller that is still in the queue can bring the browser back.
NeverBackFromStopping ==
    runtime.closes > 0 => snapshot.lifecycle \notin {"Starting", "Ready", "Restarting"}

\* Every call returns, its reply sent or dropped with the actor, if the browser
\* answers every subscription; wait_aborted() returns even if it never does.
EveryCallReturns ==
    \A c \in Clients :
        /\ []<>(pc # "devtools") => (Calling(c) ~> ~Calling(c))
        /\ Calling(c) /\ client[c].call = "EmergencyStop" ~> ~Calling(c)

\* After abort_now() the browser is released for good, unless the actor waits
\* for ever for the answer to a subscription, which the code does not race with
\* the emergency (handle_devtools_subscription).  Once wait_aborted() has waited
\* for its time it is released even then.
EmergencyReleases ==
    /\ emergency ~> ([](runtime.browser = "down") \/ [](pc = "devtools"))
    /\ \A c \in Clients :
          client[c].call = "EmergencyStop" /\ client[c].pc \in {"join", "joining", "done"}
             ~> [](runtime.browser = "down")
=============================================================================
