---------------------------- MODULE WorkerProofs ----------------------------
(***************************************************************************)
(* Theorems about Worker, for any number of callers, any queue capacity,   *)
(* any capabilities, rotation and cancellation, and without a bound on the *)
(* number of calls that matters (MaxCalls is any natural number); and      *)
(* about WorkerIpc, for any number of profiles and of workers that may     *)
(* stay.                                                                   *)
(***************************************************************************)
EXTENDS Worker, WorkerIpc, FiniteSetTheorems, TLAPS

-----------------------------------------------------------------------------
(* Type correctness *)

\* Answering a caller (the oneshot reply) keeps the callers well-formed.
LEMMA AnsweredType ==
    ASSUME client \in [Clients -> ClientStates], NEW c, NEW result \in Results
    PROVE  Answered(c, result) \in [Clients -> ClientStates]
<1> SUFFICES ASSUME NEW d \in Clients
             PROVE  (IF d = c THEN Received(client[d], result) ELSE client[d]) \in ClientStates
  BY DEF Answered
<1> QED  BY DEF Received, ClientStates, ClientPcs

\* Dropping every queued envelope with its reply sender keeps the callers well-formed.
LEMMA UnansweredType ==
    ASSUME client \in [Clients -> ClientStates]
    PROVE  Unanswered \in [Clients -> ClientStates]
<1> SUFFICES ASSUME NEW d \in Clients
             PROVE  (IF client[d].pc \in {"reply", "subscribed"}
                     THEN Received(client[d], "WorkerStopped") ELSE client[d]) \in ClientStates
  BY DEF Unanswered
<1> QED  BY DEF Received, ClientStates, ClientPcs, Results

\* The placeholder for "no command in hand" is an envelope.
LEMMA NoEnvelopeType == NoEnvelope \in Envelopes
BY DEF NoEnvelope, NoRef, Refs, Envelopes, Requests, Commands

\* Replying to whoever sent the command in hand keeps the callers well-formed.
LEMMA ReplyType ==
    ASSUME client \in [Clients -> ClientStates], NEW result \in Results, Reply(result)
    PROVE  client' \in [Clients -> ClientStates] /\ current' \in Envelopes
BY AnsweredType, NoEnvelopeType DEF Reply

\* A caller may move to any await but the send, for which it needs a command.
LEMMA MovedType ==
    ASSUME NEW s \in ClientStates, NEW p \in ClientPcs \ {"send"}
    PROVE  [s EXCEPT !.pc = p] \in ClientStates
BY DEF ClientStates

\* So does the whole table of callers when one moves.
LEMMA GotoType ==
    ASSUME client \in [Clients -> ClientStates], NEW c \in Clients, NEW state \in ClientPcs \ {"send"}, Goto(c, state)
    PROVE  client' \in [Clients -> ClientStates]
BY DEF Goto, ClientStates

\* A snapshot published by the actor is well-formed.
LEMMA PublishType ==
    ASSUME snapshot \in Snapshots, NEW lifecycle \in Lifecycles, NEW failed \in BOOLEAN,
           Publish(lifecycle, failed)
    PROVE  snapshot' \in Snapshots
BY DEF Publish, Snapshots

\* The fields of a runtime one by one, and one more close of it.
LEMMA RuntimeFields ==
    ASSUME runtime \in Runtimes
    PROVE  /\ runtime.browser \in {"up", "down"}
           /\ runtime.policyOk \in BOOLEAN /\ runtime.tainted \in BOOLEAN
           /\ runtime.navigations \in Nat /\ runtime.doc \in Nat /\ runtime.closes \in Nat
BY DEF Runtimes

\* Closing or dropping the runtime leaves a well-formed runtime.
LEMMA ClosedRuntime ==
    ASSUME runtime \in Runtimes
    PROVE  [runtime EXCEPT !.closes = @ + 1] \in Runtimes
<1>1. runtime.closes + 1 \in Nat
  BY RuntimeFields
<1>2. [runtime EXCEPT !.closes = @ + 1] = [runtime EXCEPT !.closes = runtime.closes + 1]
  OBVIOUS
<1> QED  BY <1>1, <1>2 DEF Runtimes

\* The initial state has its type.
LEMMA TypeInit == Init => TypeOK
<1> SUFFICES ASSUME Init PROVE TypeOK
  OBVIOUS
<1>1. snapshot \in Snapshots /\ runtime \in Runtimes
  BY DEF Init, Snapshots, Lifecycles, Runtimes
<1>2. client \in [Clients -> ClientStates]
  BY DEF Init, ClientStates, ClientPcs, Calls, Results, NoRef, Refs
<1>3. queue \in Seq(Envelopes) /\ devtools \in Seq(Clients \cup {Nobody})
  BY DEF Init
<1>4. current \in Envelopes
  BY NoEnvelopeType DEF Init
<1> QED  BY <1>1, <1>2, <1>3, <1>4 DEF Init, TypeOK, Joins, ActorPcs, Interruptible

\* One step per action: each states only what it changes.
LEMMA TypeNext == TypeOK /\ [Next]_vars => TypeOK'
<1> SUFFICES ASSUME TypeOK, [Next]_vars PROVE TypeOK'
  OBVIOUS
<1> USE WorkerAssumption DEF TypeOK
<1>1. CASE StartSucceeds
  BY <1>1 DEF StartSucceeds, Publish, Snapshots, Lifecycles, Runtimes, ActorPcs, Interruptible, locals, channels, shared
<1>2. CASE StartFails
  BY <1>2 DEF StartFails, Degrade, Publish, Snapshots, Lifecycles, Runtimes, ActorPcs, Interruptible, locals, channels, shared
<1>3. ASSUME NEW e, e = Head(queue), HandleCommand(e), queue # <<>>
      PROVE  TypeOK'
  <2>1. e \in Envelopes
    BY <1>3
  <2>2. ASSUME Receive(e) PROVE queue' \in Seq(Envelopes)
    BY <2>2, <1>3 DEF Receive
  <2>3. CASE RefuseCommand(e)
    <3>1. client' \in [Clients -> ClientStates]
      BY <2>3, AnsweredType DEF RefuseCommand, Results
    <3> QED  BY <2>2, <2>3, <3>1 DEF RefuseCommand, Receive, ActorPcs, Interruptible, locals, channels, shared
  <2>4. CASE FailOnPolicy(e)
    <3>1. client' \in [Clients -> ClientStates]
      BY <2>4, AnsweredType DEF FailOnPolicy, Results
    <3> QED  BY <2>2, <2>4, <3>1 DEF FailOnPolicy, Receive, Degrade, Publish, Snapshots, Lifecycles, Runtimes, locals, channels, shared
  <2>5. CASE RejectArgument(e)
    <3>1. client' \in [Clients -> ClientStates]
      BY <2>5, AnsweredType DEF RejectArgument, Results
    <3> QED  BY <2>2, <2>5, <3>1 DEF RejectArgument, Admits, Receive, locals, channels, shared
  <2>6. CASE StartCommand(e)
    BY <2>1, <2>2, <2>6 DEF StartCommand, Admits, Receive, ActorPcs, Interruptible, Busy, locals, channels, shared
  <2>7. CASE StartRestart(e)
    <3>1. snapshot' \in Snapshots
      <4>1. snapshot.epoch + 1 \in Nat /\ snapshot.failed \in BOOLEAN
        BY DEF Snapshots
      <4>2. snapshot' = [lifecycle |-> "Restarting", epoch |-> snapshot.epoch + 1, failed |-> snapshot.failed]
        BY <2>7 DEF StartRestart, Snapshots
      <4> QED  BY <4>1, <4>2 DEF Snapshots, Lifecycles
    <3>2. runtime' \in Runtimes
      BY <2>7 DEF StartRestart, Runtimes
    <3> QED  BY <2>1, <2>2, <2>7, <3>1, <3>2 DEF StartRestart, Admits, Receive, ActorPcs, Interruptible, Busy, locals, channels, shared
  <2>8. CASE StartShutdown(e)
    <3>1. snapshot' \in Snapshots
      BY <2>8 DEF StartShutdown, Snapshots, Lifecycles
    <3>2. runtime' \in Runtimes
      BY <2>8, ClosedRuntime DEF StartShutdown
    <3> QED  BY <2>1, <2>2, <2>8, <3>1, <3>2 DEF StartShutdown, Admits, Receive, ActorPcs, Interruptible, Busy, locals, channels, shared
  <2> QED  BY <1>3, <2>3, <2>4, <2>5, <2>6, <2>7, <2>8 DEF HandleCommand
<1>4. CASE RestartSucceeds
  <2>1. client' \in [Clients -> ClientStates] /\ current' \in Envelopes
    BY <1>4, ReplyType DEF RestartSucceeds, Results
  <2>2. snapshot' \in Snapshots
    BY <1>4, PublishType DEF RestartSucceeds, Lifecycles
  <2>3. runtime' \in Runtimes
    <3>1. runtime.doc + 1 \in Nat
      BY RuntimeFields
    <3>2. runtime' = [runtime EXCEPT !.browser = "up", !.policyOk = TRUE,
                                     !.tainted = FALSE, !.doc = runtime.doc + 1]
      BY <1>4 DEF RestartSucceeds
    <3> QED  BY <3>1, <3>2 DEF Runtimes
  <2> QED  BY <1>4, <2>1, <2>2, <2>3 DEF RestartSucceeds, ActorPcs, Interruptible, Busy, locals, channels, shared
<1>5. CASE RestartFails
  <2>1. client' \in [Clients -> ClientStates] /\ current' \in Envelopes
    BY <1>5, ReplyType DEF RestartFails, Results
  <2> QED  BY <1>5, <2>1 DEF RestartFails, Degrade, Publish, Snapshots, Lifecycles, Runtimes, ActorPcs, Interruptible, locals, channels, shared
<1>6. CASE WorkSucceeds
  <2>1. client' \in [Clients -> ClientStates] /\ current' \in Envelopes
    BY <1>6, ReplyType DEF WorkSucceeds, Results
  <2>2. AfterWork \in Runtimes
    <3>1. /\ (IF Replaces(current.cmd) THEN runtime.doc + 1 ELSE runtime.doc) \in Nat
          /\ (IF current.cmd = "Navigate" /\ runtime.navigations < RestartAfter
              THEN runtime.navigations + 1 ELSE runtime.navigations) \in Nat
          /\ (runtime.policyOk \/ current.cmd = "Switch") \in BOOLEAN
      BY RuntimeFields
    <3> QED  BY <3>1 DEF AfterWork, Runtimes
  <2>3. runtime' \in Runtimes
    BY <1>6, <2>2 DEF WorkSucceeds, Runtimes, PolicyHealthy
  <2>4. snapshot' \in Snapshots /\ refs' \subseteq Refs
    BY <1>6 DEF WorkSucceeds, Snapshots, Lifecycles, Refs, Runtimes, PolicyHealthy
  <2> QED  BY <1>6, <2>1, <2>3, <2>4 DEF WorkSucceeds, ActorPcs, Interruptible, locals, channels, shared
<1>7. CASE WorkMissing
  <2>1. client' \in [Clients -> ClientStates] /\ current' \in Envelopes
    BY <1>7, ReplyType DEF WorkMissing, Results
  <2> QED  BY <1>7, <2>1 DEF WorkMissing, Publish, Snapshots, Lifecycles, ActorPcs, Interruptible, locals, channels, shared
<1>8. CASE WorkFails
  <2>1. client' \in [Clients -> ClientStates] /\ current' \in Envelopes
    BY <1>8, ReplyType DEF WorkFails, Results
  <2>2. snapshot' \in Snapshots
    BY <1>8, PublishType DEF WorkFails, Degrade, Lifecycles
  <2>3. runtime' \in Runtimes
    <3>1. PICK doc \in {runtime.doc} \cup (IF Replaces(current.cmd) THEN {runtime.doc + 1} ELSE {}) :
             runtime' = [runtime EXCEPT !.doc = doc, !.tainted = TRUE]
      BY <1>8 DEF WorkFails
    <3>2. doc \in Nat
      BY <3>1, RuntimeFields
    <3> QED  BY <3>1, <3>2 DEF Runtimes
  <2> QED  BY <1>8, <2>1, <2>2, <2>3 DEF WorkFails, ActorPcs, Interruptible, locals, channels, shared
<1>9. CASE ShutdownEnds
  <2>1. client' \in [Clients -> ClientStates] /\ current' \in Envelopes
    BY <1>9, ReplyType DEF ShutdownEnds, Results
  <2>2. snapshot' \in Snapshots
    BY <1>9, PublishType DEF ShutdownEnds, Degrade, Lifecycles
  <2>3. runtime' \in Runtimes
    BY <1>9 DEF ShutdownEnds, Runtimes
  <2> QED  BY <1>9, <2>1, <2>2, <2>3 DEF ShutdownEnds, ActorPcs, locals, channels, shared
<1>10. CASE ServeDevtools
  <2>1. Head(devtools) \in Clients \cup {Nobody} /\ Tail(devtools) \in Seq(Clients \cup {Nobody})
    BY <1>10 DEF ServeDevtools
  <2>2. [NoEnvelope EXCEPT !.from = Head(devtools), !.cmd = "Devtools"] \in Envelopes
    BY <2>1, NoEnvelopeType DEF Envelopes, Requests
  <2>3. client' \in [Clients -> ClientStates] /\ current' \in Envelopes
    BY <1>10, <2>2, AnsweredType DEF ServeDevtools, Results
  <2> QED  BY <1>10, <2>1, <2>3 DEF ServeDevtools, ActorPcs, Interruptible, locals, channels, shared
<1>11. CASE DevtoolsAnswers
  <2>1. client' \in [Clients -> ClientStates] /\ current' \in Envelopes
    BY <1>11, ReplyType DEF DevtoolsAnswers, Results
  <2> QED  BY <1>11, <2>1 DEF DevtoolsAnswers, ActorPcs, Interruptible, locals, channels, shared
<1>12. CASE ChannelCloses
  BY <1>12 DEF ChannelCloses, ActorPcs, locals, channels, shared
<1>13. CASE LeaveLoop
  <2>1. snapshot' \in Snapshots
    BY <1>13 DEF LeaveLoop, Snapshots, Lifecycles
  <2>2. runtime' \in Runtimes
    BY <1>13, ClosedRuntime DEF LeaveLoop
  <2> QED  BY <1>13, <2>1, <2>2 DEF LeaveLoop, ActorPcs, locals, channels, shared
<1>14. CASE EmergencyInterrupts
  <2>1. client' \in [Clients -> ClientStates] /\ current' \in Envelopes
    BY <1>14, ReplyType DEF EmergencyInterrupts, Results
  <2>2. snapshot' \in Snapshots
    <3>1. (snapshot.failed \/ pc = "starting") \in BOOLEAN
      BY DEF Snapshots
    <3> QED  BY <1>14, <3>1, PublishType DEF EmergencyInterrupts, Lifecycles
  <2>3. runtime' \in Runtimes
    BY <1>14, ClosedRuntime DEF EmergencyInterrupts
  <2> QED  BY <1>14, <2>1, <2>2, <2>3 DEF EmergencyInterrupts, ActorPcs, locals, channels, shared
<1>15. CASE LastCloseEnds
  <2>1. PICK browser \in {runtime.browser, "down"}, failed \in BOOLEAN :
           /\ runtime' = [runtime EXCEPT !.browser = browser]
           /\ Publish("Stopped", snapshot.failed \/ failed)
    BY <1>15 DEF LastCloseEnds
  <2>2. snapshot' \in Snapshots
    <3>1. (snapshot.failed \/ failed) \in BOOLEAN
      BY DEF Snapshots
    <3> QED  BY <2>1, <3>1, PublishType DEF Lifecycles
  <2>3. runtime' \in Runtimes
    BY <2>1 DEF Runtimes
  <2> QED  BY <1>15, <2>2, <2>3 DEF LastCloseEnds, ActorPcs, locals, channels, shared
<1>16. CASE DropRuntime
  BY <1>16 DEF DropRuntime, Runtimes, ActorPcs, locals, channels, shared
<1>17. CASE AnnounceStopped
  BY <1>17 DEF AnnounceStopped, ActorPcs, locals, channels, shared
<1>18. CASE ActorReturns
  BY <1>18, UnansweredType DEF ActorReturns, ActorPcs, locals, channels, shared
<1>19. CASE AbortDrops
  BY <1>19 DEF AbortDrops, Runtimes, ActorPcs, locals, channels, shared
<1>20. CASE PolicyBreaks
  BY <1>20 DEF PolicyBreaks, Runtimes, locals, channels, shared
<1>21. CASE DropHandles
  BY <1>21 DEF DropHandles, actorVars, locals, channels, shared
<1>22. ASSUME NEW c \in Clients, CallElement(c) \/ CallOther(c)
       PROVE  TypeOK'
  <2> USE DEF actorVars, locals, channels, shared
  <2>1. PICK call \in Requests \cup {"ShutdownWorker"}, ref \in Refs : Call(c, call, ref)
    BY <1>22 DEF CallElement, CallOther, Calls, Requests, Commands, NoRef, Refs
  <2>2. client' \in [Clients -> ClientStates]
    <3>1. NoRef \in Refs
      BY DEF NoRef, Refs
    <3>2. client[c] \in ClientStates
      OBVIOUS
    <3>3. \A state \in {"join", "subscribe", "send"}, result \in {"Failed", "Ok", "None"}, r \in Refs :
             [pc |-> state, call |-> call, ref |-> r, result |-> result] \in ClientStates
      BY DEF ClientStates, ClientPcs, Calls, Results
    <3> QED  BY <2>1, <3>1, <3>2, <3>3 DEF Call
  <2> QED  BY <2>1, <2>2 DEF Call, NewCall
<1>23. ASSUME NEW c \in Clients, CallAbort(c)
       PROVE  TypeOK'
  <2>1. client' \in [Clients -> ClientStates]
    <3>1. /\ [pc |-> "done", call |-> "AbortNow", result |-> "Ok", ref |-> NoRef] \in ClientStates
          /\ [pc |-> "finishWait", call |-> "EmergencyStop", result |-> "Ok", ref |-> NoRef] \in ClientStates
      BY DEF ClientStates, ClientPcs, Calls, Results, NoRef, Refs
    <3> QED  BY <1>23, <3>1 DEF CallAbort
  <2> QED  BY <1>23, <2>1 DEF CallAbort, NewCall, actorVars, locals, channels, shared
<1>24. ASSUME NEW c \in Clients, Enqueue(c)
       PROVE  TypeOK'
  <2>1. client' \in [Clients -> ClientStates]
    BY <1>24, GotoType DEF Enqueue, ClientPcs
  <2>2. queue' \in Seq(Envelopes)
    <3>1. client[c] \in ClientStates /\ client[c].pc = "send"
      BY <1>24 DEF Enqueue
    <3>2. [from |-> c, ref |-> client[c].ref,
           cmd |-> IF client[c].call = "ShutdownWorker" THEN "Shutdown" ELSE client[c].call]
          \in Envelopes
      BY <3>1 DEF Envelopes, ClientStates, Requests, Commands
    <3> QED  BY <1>24, <3>2 DEF Enqueue
  <2> QED  BY <1>24, <2>1, <2>2 DEF Enqueue, actorVars, locals, channels, shared
<1>25. ASSUME NEW c \in Clients, Proceed(c)
       PROVE  TypeOK'
  <2> USE DEF actorVars, locals, channels, shared
  <2>1. CASE EnqueueDevtools(c)
    BY <2>1, GotoType DEF EnqueueDevtools, ClientPcs
  <2>2. CASE SendFails(c)
    BY <2>2, AnsweredType DEF SendFails, Results
  <2>3. CASE StopWaitEnds(c)
    <3>1. client' \in [Clients -> ClientStates]
      <4>1. client[c] \in ClientStates
        OBVIOUS
      <4>2. (IF ~stopped /\ client[c].result = "Ok" THEN "WorkerStopped" ELSE client[c].result) \in Results
        BY <4>1 DEF ClientStates, Results
      <4>3. client' = [client EXCEPT ![c] = [client[c] EXCEPT !.pc = "join",
                !.result = IF ~stopped /\ client[c].result = "Ok" THEN "WorkerStopped" ELSE client[c].result]]
        BY <2>3 DEF StopWaitEnds
      <4>4. \A result \in Results : [client[c] EXCEPT !.pc = "join", !.result = result] \in ClientStates
        BY <4>1 DEF ClientStates, ClientPcs
      <4> QED  BY <4>1, <4>2, <4>3, <4>4
    <3> QED  BY <2>3, <3>1 DEF StopWaitEnds
  <2>4. CASE FinishWaitEnds(c)
    BY <2>4, GotoType DEF FinishWaitEnds, ClientPcs
  <2>5. CASE AbortTooLate(c)
    BY <2>5, GotoType DEF AbortTooLate, ClientPcs
  <2>6. CASE HardAbort(c)
    <3>1. client' \in [Clients -> ClientStates]
      <4>1. Unanswered \in [Clients -> ClientStates]
        BY UnansweredType
      <4>2. [Unanswered[c] EXCEPT !.pc = "join"] \in ClientStates
        <5>1. Unanswered[c] \in ClientStates
          BY <4>1
        <5> QED  BY <5>1, MovedType DEF ClientPcs
      <4>3. client' = [Unanswered EXCEPT ![c] = [Unanswered[c] EXCEPT !.pc = "join"]]
        BY <2>6 DEF HardAbort
      <4> QED  BY <4>1, <4>2, <4>3
    <3> QED  BY <2>6, <3>1, NoEnvelopeType DEF HardAbort, ActorPcs
  <2>7. CASE TakeJoin(c)
    <3>1. client' \in [Clients -> ClientStates]
      BY <2>7, GotoType DEF TakeJoin, ClientPcs
    <3>2. join' \in Joins
      BY <2>7 DEF TakeJoin, Joins
    <3> QED  BY <2>7, <3>1, <3>2 DEF TakeJoin
  <2>8. CASE Joined(c)
    BY <2>8, GotoType DEF Joined, ClientPcs, Joins
  <2> QED  BY <1>25, <2>1, <2>2, <2>3, <2>4, <2>5, <2>6, <2>7, <2>8 DEF Proceed
<1>26. ASSUME NEW c \in Clients, Cancel(c)
       PROVE  TypeOK'
  <2>1. \A e \in Envelopes : Orphaned(e, c) \in Envelopes
    BY DEF Orphaned, Envelopes
  <2>2. client' \in [Clients -> ClientStates]
    BY <1>26 DEF Cancel, ClientStates, ClientPcs, Calls, Results, NoRef, Refs
  <2>3. queue' \in Seq(Envelopes) /\ devtools' \in Seq(Clients \cup {Nobody})
    <3>1. queue' = [i \in 1 .. Len(queue) |-> Orphaned(queue[i], c)]
      BY <1>26 DEF Cancel
    <3>2. devtools' = [i \in 1 .. Len(devtools) |-> IF devtools[i] = c THEN Nobody ELSE devtools[i]]
      BY <1>26 DEF Cancel
    <3>3. Len(queue) \in Nat /\ \A i \in 1 .. Len(queue) : queue'[i] \in Envelopes
      BY <2>1, <3>1
    <3>4. Len(devtools) \in Nat /\ \A i \in 1 .. Len(devtools) : devtools'[i] \in Clients \cup {Nobody}
      BY <3>2
    <3> QED  BY <3>1, <3>2, <3>3, <3>4
  <2> QED  BY <1>26, <2>1, <2>2, <2>3 DEF Cancel, Joins, actorVars, locals, channels, shared
<1>27. CASE UNCHANGED vars
  BY <1>27 DEF vars, locals, channels, shared
<1> QED
  BY <1>1, <1>2, <1>3, <1>4, <1>5, <1>6, <1>7, <1>8, <1>9, <1>10, <1>11, <1>12, <1>13, <1>14,
     <1>15, <1>16, <1>17, <1>18, <1>19, <1>20, <1>21, <1>22, <1>23, <1>24, <1>25, <1>26, <1>27
  DEF Next, ActorStep

\* Every variable keeps its type (the actor, its channels, its callers).
THEOREM TypeCorrect == Spec => []TypeOK
BY TypeInit, TypeNext, PTL DEF Spec

-----------------------------------------------------------------------------
(***************************************************************************)
(* Safety for every value of the constants.  None of the properties is     *)
(* inductive: each holds because of where the actor is when it looks at    *)
(* the lifecycle, at the count of closes and at the epoch.  Control,       *)
(* Sound, ClosesOnce and RefsCurrent say that, and together with TypeOK    *)
(* they are the inductive invariant.                                       *)
(***************************************************************************)

Lifecycle == snapshot.lifecycle

\* The published lifecycle is the one that belongs to the actor's await.
Control ==
    /\ pc = "starting" => Lifecycle = "Starting" /\ ~unconfirmed
    /\ pc = "restart" => Lifecycle = "Restarting" /\ ~unconfirmed
    /\ pc = "select" => Lifecycle \in {"Ready", "Degraded"}
    /\ pc \in {"work", "devtools"} => Lifecycle = "Ready"
    /\ pc = "leave" => Lifecycle \in {"Ready", "Degraded", "Stopped"}
    /\ pc \in {"shutdownClose", "finalClose", "emergencyClose"} => Lifecycle = "ShuttingDown"
    /\ pc \in {"drop", "announce", "return", "finished"} => Lifecycle = "Stopped"
    /\ unconfirmed => Lifecycle \notin {"Ready", "Restarting"}

\* A worker that says it is ready, and serves, has a browser that never failed.
Sound ==
    /\ pc = "starting" => ~runtime.tainted
    /\ Lifecycle = "Ready" /\ pc \in {"select", "work", "devtools"}
          => runtime.browser = "up" /\ ~runtime.tainted

\* How often close() was called, by where the actor is.
ClosesOnce ==
    /\ pc \in {"starting", "select", "restart", "work", "devtools"}
        => runtime.closes = 0 /\ ~attempted
    /\ pc = "shutdownClose" => runtime.closes = 1 /\ attempted
    /\ pc = "leave" => /\ runtime.closes = IF attempted THEN 1 ELSE 0
                       /\ Lifecycle = "Stopped" => attempted
                       /\ Lifecycle = "Ready" => ~attempted
    /\ pc = "finalClose" => runtime.closes = 1
    /\ pc \in {"emergencyClose", "drop", "announce", "return", "finished"}
        => runtime.closes \in {1, 2}
    /\ runtime.closes \in {0, 1, 2}
    /\ runtime.closes = 2 => emergency
    /\ runtime.closes > 0 => Lifecycle \notin {"Starting", "Ready", "Restarting"}
    /\ stopped => pc \in {"return", "finished"}

\* References are ones the worker gave out, in every envelope that is queued or in
\* hand and in every call that waits to be queued.
Sent == {current} \cup {queue[i] : i \in DOMAIN queue}
Traced ==
    /\ \A e \in Sent : e.cmd = "Element" => e.ref \in refs
    /\ \A c \in Clients :
          client[c].pc = "send" /\ client[c].call = "Element" => client[c].ref \in refs

\* A reference to a document that was replaced is one of an epoch that is over.
Current ==
    /\ pc = "starting" => refs = {}
    /\ \A r \in refs : r.epoch <= snapshot.epoch
    /\ \A r \in refs : Lifecycle = "Ready" /\ r.epoch = snapshot.epoch => r.doc = runtime.doc
    /\ pc = "restart" => \A r \in refs : r.epoch < snapshot.epoch
    /\ pc = "work" /\ current.cmd = "Element" => current.ref.epoch = snapshot.epoch

Actor == Control /\ Sound /\ ClosesOnce
IInv == TypeOK /\ Actor /\ Traced /\ Current

-----------------------------------------------------------------------------
(* The actor's side of the invariant *)

\* A worker that was spawned satisfies the part of the invariant about the actor.
LEMMA ActorInit == Init => Actor
BY DEF Init, Actor, Control, Sound, ClosesOnce, Lifecycle

\* Callers change nothing of the actor but to abort it, and recall no emergency.
LEMMA CallersLeaveActor ==
    ASSUME NEW c \in Clients,
           \/ CallElement(c) \/ CallOther(c) \/ CallAbort(c)
           \/ Enqueue(c) \/ Proceed(c) \/ Cancel(c)
    PROVE  (UNCHANGED actorVars \/ HardAbort(c)) /\ (emergency => emergency')
<1> USE DEF actorVars, shared
<1>1. CASE Proceed(c)
  BY <1>1 DEF Proceed, EnqueueDevtools, SendFails, StopWaitEnds, FinishWaitEnds,
     AbortTooLate, TakeJoin, Joined, HardAbort
<1>2. CASE CallElement(c) \/ CallOther(c)
  BY <1>2 DEF CallElement, CallOther, Call
<1> QED  BY <1>1, <1>2 DEF CallAbort, Enqueue, Cancel

\* Every step keeps it.
LEMMA ActorNext == TypeOK /\ Actor /\ [Next]_vars => Actor'
<1> SUFFICES ASSUME TypeOK, Actor, [Next]_vars PROVE Actor'
  OBVIOUS
<1> USE DEF Actor, Control, Sound, ClosesOnce, Lifecycle
<1>1. snapshot \in Snapshots /\ runtime \in Runtimes /\ snapshot.lifecycle \in Lifecycles
  BY DEF TypeOK, Snapshots
<1>2. CASE StartSucceeds
  BY <1>1, <1>2 DEF StartSucceeds, Publish, Snapshots, Runtimes, locals, shared
<1>3. CASE StartFails
  BY <1>1, <1>3 DEF StartFails, Degrade, Publish, Snapshots, Runtimes, shared
<1>4. ASSUME NEW e, HandleCommand(e) PROVE Actor'
  <2> USE DEF locals, shared, Receive
  <2>1. CASE RefuseCommand(e)
    BY <1>1, <2>1 DEF RefuseCommand
  <2>2. CASE FailOnPolicy(e)
    BY <1>1, <2>2 DEF FailOnPolicy, Degrade, Publish, Snapshots, Runtimes
  <2>3. CASE RejectArgument(e)
    BY <2>3 DEF RejectArgument
  <2>4. CASE StartCommand(e)
    BY <1>1, <2>4 DEF StartCommand, Admits, Refuses, Rotates
  <2>5. CASE StartRestart(e)
    BY <1>1, <2>5 DEF StartRestart, Admits, Refuses, Rotates, Snapshots, Runtimes
  <2>6. CASE StartShutdown(e)
    BY <1>1, <2>6 DEF StartShutdown, Admits, Snapshots, Runtimes
  <2> QED  BY <1>4, <2>1, <2>2, <2>3, <2>4, <2>5, <2>6 DEF HandleCommand
<1>5. CASE RestartSucceeds
  BY <1>1, <1>5 DEF RestartSucceeds, Publish, Snapshots, Runtimes, locals, shared
<1>6. CASE RestartFails
  BY <1>1, <1>6 DEF RestartFails, Degrade, Publish, Snapshots, Runtimes, locals, shared
<1>7. CASE WorkSucceeds
  BY <1>1, <1>7 DEF WorkSucceeds, AfterWork, PolicyHealthy, Snapshots, Runtimes, locals, shared
<1>8. CASE WorkMissing
  BY <1>1, <1>8 DEF WorkMissing, Publish, Snapshots, Runtimes, locals, shared
<1>9. CASE WorkFails
  BY <1>1, <1>9 DEF WorkFails, Degrade, Publish, Snapshots, Runtimes, locals, shared
<1>10. CASE ShutdownEnds
  BY <1>1, <1>10 DEF ShutdownEnds, Degrade, Publish, Snapshots, Runtimes, locals, shared
<1>11. CASE ServeDevtools
  BY <1>1, <1>11 DEF ServeDevtools, locals, shared
<1>12. CASE DevtoolsAnswers
  BY <1>1, <1>12 DEF DevtoolsAnswers, locals, shared
<1>13. CASE ChannelCloses
  BY <1>1, <1>13 DEF ChannelCloses, locals, shared
<1>14. CASE LeaveLoop
  BY <1>1, <1>14 DEF LeaveLoop, CloseDone, Snapshots, Runtimes, locals, shared
<1>15. CASE EmergencyInterrupts
  BY <1>1, <1>15 DEF EmergencyInterrupts, Interruptible, Busy, Publish, Snapshots, Runtimes, locals, shared
<1>16. CASE LastCloseEnds
  BY <1>1, <1>16 DEF LastCloseEnds, Publish, Snapshots, Runtimes, locals, shared
<1>17. CASE DropRuntime
  BY <1>1, <1>17 DEF DropRuntime, Runtimes, locals, shared
<1>18. CASE AnnounceStopped
  BY <1>18 DEF AnnounceStopped, locals, shared
<1>19. CASE ActorReturns
  BY <1>19 DEF ActorReturns, locals, shared
<1>20. CASE AbortDrops
  BY <1>1, <1>20 DEF AbortDrops, Runtimes, locals, shared
<1>21. CASE PolicyBreaks
  BY <1>1, <1>21 DEF PolicyBreaks, Runtimes, locals, shared
<1>22. CASE DropHandles
  BY <1>22 DEF DropHandles, actorVars, locals
<1>23. ASSUME NEW c \in Clients,
              \/ CallElement(c) \/ CallOther(c) \/ CallAbort(c)
              \/ Enqueue(c) \/ Proceed(c) \/ Cancel(c)
       PROVE  Actor'
  <2>1. emergency => emergency'
    BY <1>23, CallersLeaveActor
  <2>2. CASE UNCHANGED actorVars
    BY <2>1, <2>2 DEF actorVars, locals
  <2>3. CASE HardAbort(c)
    BY <2>1, <2>3 DEF HardAbort, Gone, Atomic, locals, shared
  <2> QED  BY <1>23, <2>2, <2>3, CallersLeaveActor
<1>24. CASE UNCHANGED vars
  BY <1>24 DEF vars, locals, shared
<1> QED
  BY <1>2, <1>3, <1>4, <1>5, <1>6, <1>7, <1>8, <1>9, <1>10, <1>11, <1>12, <1>13, <1>14,
     <1>15, <1>16, <1>17, <1>18, <1>19, <1>20, <1>21, <1>22, <1>23, <1>24
  DEF Next, ActorStep

-----------------------------------------------------------------------------
(* The references that callers hold *)

\* Before the first call no reference exists.
LEMMA RefsInit == Init => Traced /\ Current
<1> SUFFICES ASSUME Init PROVE Traced /\ Current
  OBVIOUS
<1>1. Sent = {NoEnvelope}
  BY DEF Init, Sent
<1> QED  BY <1>1 DEF Init, Traced, Current, NoEnvelope

\* An action that keeps the callers that are sending, gives out no reference and
\* has envelopes only from before keeps the trace.
LEMMA TracedKept ==
    ASSUME Traced, refs \subseteq refs',
           \A e \in Sent' : e \in Sent \/ e.cmd # "Element",
           \A c \in Clients : client'[c].pc = "send" => client'[c] = client[c]
    PROVE  Traced'
BY DEF Traced

\* Answers and the end of the actor leave no caller sending that was not.
LEMMA AnsweredSends ==
    ASSUME client \in [Clients -> ClientStates], NEW d, NEW result
    PROVE  \A c \in Clients :
              Answered(d, result)[c].pc = "send" => Answered(d, result)[c] = client[c]
BY DEF Answered, Received, ClientStates

\* Dropped envelopes leave the callers that are about to send as they were.
LEMMA UnansweredSends ==
    ASSUME client \in [Clients -> ClientStates]
    PROVE  \A c \in Clients : Unanswered[c].pc = "send" => Unanswered[c] = client[c]
BY DEF Unanswered, Received, ClientStates

\* A reply leaves the callers that are about to send as they were.
LEMMA ReplySends ==
    ASSUME client \in [Clients -> ClientStates], NEW result, Reply(result)
    PROVE  /\ \A c \in Clients : client'[c].pc = "send" => client'[c] = client[c]
           /\ current'.cmd # "Element"
BY AnsweredSends DEF Reply, NoEnvelope

\* A caller that moves elsewhere than to the send leaves the senders a subset of what they were.
LEMMA GotoSends ==
    ASSUME client \in [Clients -> ClientStates], NEW d \in Clients, NEW p, p # "send", Goto(d, p)
    PROVE  \A c \in Clients : client'[c].pc = "send" => client'[c] = client[c]
BY DEF Goto, ClientStates

\* What is left of the queue was queued, and so was the envelope in hand.
LEMMA ReceivedSent ==
    ASSUME queue \in Seq(Envelopes), NEW e, Receive(e),
           current' = e \/ current' = current \/ current'.cmd # "Element"
    PROVE  \A f \in Sent' : f \in Sent \/ f.cmd # "Element"
<1>1. queue # <<>> /\ e = Head(queue) /\ queue' = Tail(queue)
  BY DEF Receive
<1>2. e \in Sent
  BY <1>1 DEF Sent
<1>3. \A i \in DOMAIN queue' : i + 1 \in DOMAIN queue /\ queue'[i] = queue[i + 1]
  BY <1>1
<1> QED  BY <1>2, <1>3 DEF Sent

\* Every reference in flight was handed out by this worker, after every step.
LEMMA TracedNext == TypeOK /\ Traced /\ [Next]_vars => Traced'
<1> SUFFICES ASSUME TypeOK, Traced, [Next]_vars PROVE Traced'
  OBVIOUS
<1>1. client \in [Clients -> ClientStates] /\ queue \in Seq(Envelopes)
  BY DEF TypeOK
<1>2. ASSUME NEW e, HandleCommand(e) PROVE Traced'
  <2>1. Receive(e) /\ refs' = refs
    BY <1>2 DEF HandleCommand, RefuseCommand, FailOnPolicy, RejectArgument, StartCommand,
       StartRestart, StartShutdown, Admits
  <2>2. current' \in {e, current}
    BY <1>2 DEF HandleCommand, RefuseCommand, FailOnPolicy, RejectArgument, StartCommand,
       StartRestart, StartShutdown
  <2>3. client' = client \/ \E result : client' = Answered(e.from, result)
    BY <1>2 DEF HandleCommand, RefuseCommand, FailOnPolicy, RejectArgument, StartCommand,
       StartRestart, StartShutdown
  <2> QED  BY <1>1, <2>1, <2>2, <2>3, ReceivedSent, AnsweredSends, TracedKept
<1>3. CASE RestartSucceeds \/ RestartFails \/ WorkSucceeds \/ WorkMissing \/ WorkFails
           \/ ShutdownEnds \/ DevtoolsAnswers \/ EmergencyInterrupts
  <2>1. queue' = queue /\ refs \subseteq refs'
    BY <1>3 DEF RestartSucceeds, RestartFails, WorkSucceeds, WorkMissing, WorkFails,
       ShutdownEnds, DevtoolsAnswers, EmergencyInterrupts, channels
  <2>2. UNCHANGED <<client, current>> \/ \E result : Reply(result)
    BY <1>3 DEF RestartSucceeds, RestartFails, WorkSucceeds, WorkMissing, WorkFails,
       ShutdownEnds, DevtoolsAnswers, EmergencyInterrupts
  <2>3. /\ \A c \in Clients : client'[c].pc = "send" => client'[c] = client[c]
        /\ current' = current \/ current'.cmd # "Element"
    BY <1>1, <2>2, ReplySends
  <2>4. \A e \in Sent' : e \in Sent \/ e.cmd # "Element"
    BY <2>1, <2>3 DEF Sent
  <2> QED  BY <2>1, <2>3, <2>4, TracedKept
<1>4. CASE ServeDevtools
  <2>1. queue' = queue /\ refs' = refs /\ (current' = current \/ current'.cmd # "Element")
    BY <1>4 DEF ServeDevtools, NoEnvelope
  <2>2. \A c \in Clients : client'[c].pc = "send" => client'[c] = client[c]
    BY <1>1, <1>4, AnsweredSends DEF ServeDevtools
  <2>3. \A e \in Sent' : e \in Sent \/ e.cmd # "Element"
    BY <2>1 DEF Sent
  <2> QED  BY <2>1, <2>2, <2>3, TracedKept
<1>5. CASE UNCHANGED <<queue, current, refs, client>>
  BY <1>5 DEF Traced, Sent
<1>6. CASE ActorReturns
  <2>1. refs' = refs /\ Sent' = {current}
    BY <1>6 DEF ActorReturns, Sent
  <2> QED  BY <1>1, <1>6, <2>1, UnansweredSends, TracedKept DEF ActorReturns, Sent
<1>7. ASSUME NEW c \in Clients, CallElement(c) \/ CallOther(c)
      PROVE  Traced'
  <2>1. PICK call, ref : Call(c, call, ref) /\ (call = "Element" => ref \in refs)
    BY <1>7 DEF CallElement, CallOther
  <2>2. client'[c].pc = "send" /\ client'[c].call = "Element" => client'[c].ref \in refs
    BY <1>1, <2>1 DEF Call
  <2>3. \A d \in Clients \ {c} : client'[d] = client[d]
    BY <1>1, <2>1 DEF Call
  <2>4. UNCHANGED <<queue, current, refs>>
    BY <2>1 DEF Call, actorVars, channels
  <2> QED  BY <2>2, <2>3, <2>4 DEF Traced, Sent
<1>8. ASSUME NEW c \in Clients, CallAbort(c) PROVE Traced'
  <2>1. \A d \in Clients : client'[d].pc = "send" => client'[d] = client[d]
    BY <1>1, <1>8 DEF CallAbort
  <2> QED  BY <1>8, <2>1 DEF CallAbort, Traced, Sent, actorVars, channels
<1>9. ASSUME NEW c \in Clients, Enqueue(c) PROVE Traced'
  <2>1. PICK e : /\ queue' = Append(queue, e)
                 /\ e.cmd = "Element" => client[c].call = "Element"
                 /\ e.ref = client[c].ref
    BY <1>9 DEF Enqueue
  <2>2. e.cmd = "Element" => e.ref \in refs
    BY <1>9, <2>1 DEF Enqueue, Traced
  <2>3. \A i \in DOMAIN queue' : queue'[i] = e \/ (i \in DOMAIN queue /\ queue'[i] = queue[i])
    BY <1>1, <2>1
  <2>4. \A d \in Clients : client'[d].pc = "send" => client'[d] = client[d]
    BY <1>1, <1>9, GotoSends DEF Enqueue
  <2>5. UNCHANGED <<current, refs>>
    BY <1>9 DEF Enqueue, actorVars
  <2> QED  BY <2>2, <2>3, <2>4, <2>5 DEF Traced, Sent
<1>10. ASSUME NEW c \in Clients, Proceed(c) PROVE Traced'
  <2>1. \A d \in Clients : client'[d].pc = "send" => client'[d] = client[d]
    <3>1. CASE EnqueueDevtools(c) \/ FinishWaitEnds(c) \/ AbortTooLate(c) \/ TakeJoin(c) \/ Joined(c)
      BY <1>1, <3>1, GotoSends DEF EnqueueDevtools, FinishWaitEnds, AbortTooLate, TakeJoin, Joined
    <3>2. CASE SendFails(c)
      BY <1>1, <3>2, AnsweredSends DEF SendFails
    <3>3. CASE StopWaitEnds(c)
      BY <1>1, <3>3 DEF StopWaitEnds, ClientStates
    <3>4. CASE HardAbort(c)
      BY <1>1, <3>4, UnansweredSends, UnansweredType DEF HardAbort, ClientStates
    <3> QED  BY <1>10, <3>1, <3>2, <3>3, <3>4 DEF Proceed
  <2>2. refs' = refs
    BY <1>10 DEF Proceed, EnqueueDevtools, SendFails, StopWaitEnds, FinishWaitEnds,
       AbortTooLate, HardAbort, TakeJoin, Joined, actorVars
  <2>3. UNCHANGED <<queue, current>> \/ (queue' = <<>> /\ current' = NoEnvelope)
    BY <1>10 DEF Proceed, EnqueueDevtools, SendFails, StopWaitEnds, FinishWaitEnds,
       AbortTooLate, HardAbort, TakeJoin, Joined, channels
  <2>4. \A e \in Sent' : e \in Sent \/ e.cmd # "Element"
    BY <2>3 DEF Sent, NoEnvelope
  <2> QED  BY <2>1, <2>2, <2>4, TracedKept
<1>11. ASSUME NEW c \in Clients, Cancel(c) PROVE Traced'
  <2>1. \A e \in Envelopes : Orphaned(e, c).cmd = e.cmd /\ Orphaned(e, c).ref = e.ref
    BY DEF Orphaned, Envelopes
  <2>2. /\ current \in Envelopes /\ current' = Orphaned(current, c)
        /\ \A i \in DOMAIN queue' : /\ i \in DOMAIN queue /\ queue[i] \in Envelopes
                                    /\ queue'[i] = Orphaned(queue[i], c)
    BY <1>1, <1>11 DEF Cancel, TypeOK
  <2>3. \A e \in Sent' : e.cmd = "Element" => e.ref \in refs
    BY <2>1, <2>2 DEF Sent, Traced
  <2>4. \A d \in Clients : client'[d].pc = "send" => client'[d] = client[d]
    BY <1>1, <1>11 DEF Cancel
  <2>5. refs' = refs
    BY <1>11 DEF Cancel, actorVars
  <2> QED  BY <2>3, <2>4, <2>5 DEF Traced
<1>12. CASE \/ StartSucceeds \/ StartFails \/ ChannelCloses \/ LeaveLoop \/ LastCloseEnds
            \/ DropRuntime \/ AnnounceStopped \/ AbortDrops \/ PolicyBreaks \/ DropHandles
            \/ UNCHANGED vars
  BY <1>5, <1>12 DEF StartSucceeds, StartFails, ChannelCloses, LeaveLoop, LastCloseEnds,
     DropRuntime, AnnounceStopped, AbortDrops, PolicyBreaks, DropHandles, vars, actorVars, channels
<1> QED
  BY <1>2, <1>3, <1>4, <1>6, <1>7, <1>8, <1>9, <1>10, <1>11, <1>12 DEF Next, ActorStep

\* The epoch moves when the document may have, or the lifecycle leaves Ready.
LEMMA CurrentNext == TypeOK /\ Actor /\ Traced /\ Current /\ [Next]_vars => Current'
<1> SUFFICES ASSUME TypeOK, Actor, Traced, Current, [Next]_vars PROVE Current'
  OBVIOUS
<1> USE DEF Current, Lifecycle
<1>1. /\ snapshot \in Snapshots /\ runtime \in Runtimes
      /\ snapshot.epoch \in Nat /\ runtime.doc \in Nat
      /\ \A r \in refs : r \in Refs /\ r.epoch \in Nat
  BY DEF TypeOK, Snapshots, Runtimes, Refs
<1>2. CASE StartSucceeds \/ StartFails
  BY <1>1, <1>2 DEF StartSucceeds, StartFails, Degrade, Publish, Snapshots, Runtimes, Actor, Control
<1>3. ASSUME NEW e, HandleCommand(e) PROVE Current'
  <2> USE DEF Receive
  <2>1. CASE RefuseCommand(e) \/ RejectArgument(e)
    BY <1>1, <2>1 DEF RefuseCommand, RejectArgument, Admits
  <2>2. CASE FailOnPolicy(e)
    BY <1>1, <2>2 DEF FailOnPolicy, Degrade, Publish, Snapshots, Runtimes
  <2>3. CASE StartCommand(e)
    BY <1>1, <2>3 DEF StartCommand, IsStale, Admits
  <2>4. CASE StartRestart(e)
    BY <1>1, <2>4 DEF StartRestart, Snapshots
  <2>5. CASE StartShutdown(e)
    BY <1>1, <2>5 DEF StartShutdown, Snapshots, Runtimes
  <2> QED  BY <1>3, <2>1, <2>2, <2>3, <2>4, <2>5 DEF HandleCommand
<1>4. CASE RestartSucceeds
  BY <1>1, <1>4 DEF RestartSucceeds, Publish, Snapshots, Runtimes
<1>5. CASE RestartFails
  BY <1>1, <1>5 DEF RestartFails, Degrade, Publish, Snapshots, Runtimes
<1>6. CASE WorkSucceeds
  BY <1>1, <1>6 DEF WorkSucceeds, AfterWork, Replaces, Snapshots, Runtimes, Actor, Control
<1>7. CASE WorkMissing
  BY <1>1, <1>7 DEF WorkMissing, Publish, Snapshots, Runtimes, Actor, Control
<1>8. CASE WorkFails
  BY <1>1, <1>8 DEF WorkFails, Degrade, Publish, Snapshots, Runtimes
<1>9. CASE ShutdownEnds
  BY <1>1, <1>9 DEF ShutdownEnds, Degrade, Publish, Snapshots, Runtimes
<1>10. CASE ServeDevtools \/ DevtoolsAnswers \/ ChannelCloses
  BY <1>1, <1>10 DEF ServeDevtools, DevtoolsAnswers, ChannelCloses, Reply, NoEnvelope
<1>11. CASE LeaveLoop \/ LastCloseEnds
  BY <1>1, <1>11 DEF LeaveLoop, LastCloseEnds, Publish, Snapshots, Runtimes
<1>12. CASE EmergencyInterrupts
  BY <1>1, <1>12 DEF EmergencyInterrupts, Publish, Snapshots, Runtimes
<1>13. CASE DropRuntime \/ AbortDrops \/ PolicyBreaks
  BY <1>1, <1>13 DEF DropRuntime, AbortDrops, PolicyBreaks, Runtimes
<1>14. CASE AnnounceStopped \/ ActorReturns \/ DropHandles \/ UNCHANGED vars
  BY <1>14 DEF AnnounceStopped, ActorReturns, DropHandles, actorVars, vars
<1>15. ASSUME NEW c \in Clients,
              \/ CallElement(c) \/ CallOther(c) \/ CallAbort(c)
              \/ Enqueue(c) \/ Proceed(c) \/ Cancel(c)
       PROVE  Current'
  <2>1. CASE HardAbort(c)
    BY <1>1, <2>1 DEF HardAbort
  <2>2. CASE UNCHANGED <<actorVars, current>>
    BY <2>2 DEF actorVars
  <2>3. CASE Cancel(c)
    <3>1. current'.cmd = current.cmd /\ current'.ref = current.ref
      BY <2>3 DEF Cancel, Orphaned, TypeOK, Envelopes
    <3> QED  BY <2>3, <3>1 DEF Cancel, actorVars
  <2> QED
    BY <1>15, <2>1, <2>2, <2>3 DEF CallElement, CallOther, Call, CallAbort, Enqueue, Proceed,
       EnqueueDevtools, SendFails, StopWaitEnds, FinishWaitEnds, AbortTooLate, TakeJoin, Joined
<1> QED
  BY <1>2, <1>3, <1>4, <1>5, <1>6, <1>7, <1>8, <1>9, <1>10, <1>11, <1>12, <1>13, <1>14, <1>15
  DEF Next, ActorStep

-----------------------------------------------------------------------------
(* The theorems *)

\* The inductive invariant holds in every reachable state of every instance.
THEOREM Invariance == Spec => []IInv
<1>1. Init => IInv
  BY TypeInit, ActorInit, RefsInit DEF IInv
<1>2. IInv /\ [Next]_vars => IInv'
  BY TypeNext, ActorNext, TracedNext, CurrentNext DEF IInv
<1> QED  BY <1>1, <1>2, PTL DEF Spec

\* A command on an element runs in the document the element was resolved in,
\* whatever failed, timed out or was restarted since (validate_element_epoch).
THEOREM ElementsAreCurrent == Spec => []ElementActsOnItsDocument
<1>1. IInv => ElementActsOnItsDocument
  BY DEF IInv, Actor, Control, Traced, Current, Sent, Lifecycle, ElementActsOnItsDocument
<1> QED  BY <1>1, Invariance, PTL

\* A command reaches only a runtime that did not fail since its last (re)start
\* (handle_command, restart_runtime).
THEOREM WorkIsSound == Spec => []WorkOnSoundRuntime
<1>1. IInv => WorkOnSoundRuntime
  BY DEF IInv, Actor, Control, Sound, Lifecycle, WorkOnSoundRuntime
<1> QED  BY <1>1, Invariance, PTL

\* After an unconfirmed startup the worker neither serves nor restarts.
THEOREM UnconfirmedIsFinal == Spec => []UnconfirmedNeverServes
<1>1. IInv => UnconfirmedNeverServes
  BY DEF IInv, Actor, Control, Lifecycle, UnconfirmedNeverServes
<1> QED  BY <1>1, Invariance, PTL

\* The runtime is closed once on an orderly way out, at most twice otherwise, and
\* never left unclosed when the stopped flag is raised (run_actor).
THEOREM ClosedOnce == Spec => []OrderlyExitClosesOnce
<1>1. IInv => OrderlyExitClosesOnce
  BY DEF IInv, Actor, ClosesOnce, OrderlyExitClosesOnce
<1> QED  BY <1>1, Invariance, PTL

\* A worker that was told to close is never again published as usable.
THEOREM ClosingIsFinal == Spec => []NeverBackFromStopping
<1>1. IInv => NeverBackFromStopping
  BY DEF IInv, Actor, ClosesOnce, Lifecycle, NeverBackFromStopping
<1> QED  BY <1>1, Invariance, PTL

-----------------------------------------------------------------------------
(***************************************************************************)
(* What the owner of a worker's handle may rely on.  The inductive         *)
(* invariant gives the phase each action of the actor starts in.  Only     *)
(* safety is proved; that the phases end is liveness.                      *)
(***************************************************************************)

-----------------------------------------------------------------------------
(***************************************************************************)
(* Worker implements WorkerContract: every step of the actor is, for the   *)
(* owner of the handle, one of the contract's steps or none at all.        *)
(***************************************************************************)

\* The contract's state, as Contract defines it.
Seen == [phase |-> Phase, condemned |-> unconfirmed, live |-> runtime.browser = "up"]

\* The phase of each part of the actor's life.
Phased ==
    /\ pc = "starting" => Phase = "starting"
    /\ pc = "restart" => Phase = "restarting"
    /\ pc \in {"work", "devtools"} => Phase = "ready"
    /\ pc = "select" => Phase = IF Lifecycle = "Ready" THEN "ready" ELSE "degraded"
    /\ pc \in {"shutdownClose", "finalClose", "emergencyClose"} => Phase = "closing"
    /\ pc = "leave" => Phase = IF Lifecycle = "Stopped" THEN "stopped" ELSE "closing"
    /\ pc = "drop" => Phase = "stopped"
    /\ pc = "aborting" => Phase = IF Lifecycle = "Stopped" THEN "stopped" ELSE "closing"
    /\ pc \in {"announce", "return", "finished", "aborted"} => Phase = "released"

\* The phase a state shows the contract is determined by the published lifecycle and the await.
LEMMA PhaseOf == Control => Phased
BY DEF Control, Phase, Phased, Lifecycle

\* The same for the state after a step.
LEMMA NextPhaseOf == Control' => Phased'
BY DEF Control, Phase, Phased, Lifecycle

\* A spawned worker starts where the contract starts (spawn_with_runtime_and_timeouts).
LEMMA SeenInit == Init => Contract!Init
<1> SUFFICES ASSUME Init PROVE Contract!Init
  OBVIOUS
<1>1. Phase = "starting"
  BY DEF Init, Phase
<1>2. unconfirmed = FALSE
  BY DEF Init
<1>3. (runtime.browser = "up") = FALSE
  BY DEF Init
<1> QED  BY <1>1, <1>2, <1>3 DEF Contract!Init, Contract!Spawned

-----------------------------------------------------------------------------
(* The contract's steps from <<p, u, l>> to <<q, v, m>>, field by field. *)

Up == runtime.browser = "up"

Allowed(p, u, l, q, v, m) ==
    \/ p = "starting" /\ q = "ready" /\ v = u /\ m = TRUE
    \/ p = "starting" /\ q = "degraded" /\ v = TRUE /\ m \in BOOLEAN
    \/ p = "ready" /\ q = "degraded" /\ v = u /\ m = l
    \/ p \in {"ready", "degraded"} /\ u = FALSE /\ q = "restarting" /\ v = u /\ m = l
    \/ p = "restarting" /\ q = "ready" /\ v = u /\ m = TRUE
    \/ p = "restarting" /\ q = "degraded" /\ v = u /\ m \in BOOLEAN
    \/ p \notin {"stopped", "released"} /\ q = "closing" /\ v = u /\ m \in {l, FALSE}
    \/ p = "closing" /\ q = "stopped" /\ v = u /\ m \in {l, FALSE}
    \/ p \in {"closing", "stopped"} /\ q = "released" /\ v = u /\ m = FALSE

StepsFrom(w) ==
    Contract!Started(w) \cup Contract!Restarted(w) \cup Contract!Stopped(w)
       \cup Contract!Released(w) \cup Contract!Degraded(w)
       \cup Contract!Restarting(w) \cup Contract!Closing(w)

\* Between two phases the contract's step exists for every pair the actor can take.
LEMMA AllowedSteps ==
    ASSUME NEW p, NEW u, NEW l, NEW q, NEW v, NEW m, Allowed(p, u, l, q, v, m)
    PROVE  [phase |-> q, condemned |-> v, live |-> m] \in
              StepsFrom([phase |-> p, condemned |-> u, live |-> l])
BY DEF Allowed, StepsFrom, Contract!Turned, Contract!Started, Contract!Restarted,
   Contract!Stopped, Contract!Released, Contract!Degraded, Contract!Restarting, Contract!Closing

\* A pair of phases that is allowed is a step of the contract seen through the mapping.
LEMMA Steps ==
    ASSUME Allowed(Phase, unconfirmed, Up, Phase', unconfirmed', Up')
    PROVE  Contract!Next
BY AllowedSteps DEF Contract!Next, Contract!Settle, StepsFrom, Up

\* A step that moves neither the phase nor the browser is a stutter of the contract.
LEMMA Stutters ==
    ASSUME Phase' = Phase, unconfirmed' = unconfirmed, runtime'.browser = runtime.browser
    PROVE  UNCHANGED Seen
BY DEF Seen

\* The steps that the owner does not see.
LEMMA Unseen ==
    ASSUME UNCHANGED <<pc, unconfirmed>>, snapshot'.lifecycle = snapshot.lifecycle,
           runtime'.browser = runtime.browser
    PROVE  UNCHANGED Seen
BY Stutters DEF Phase

\* Every step of the worker is a step of the contract or a stutter.
LEMMA ContractNext == IInv /\ IInv' /\ [Next]_vars => Contract!Next \/ UNCHANGED Seen
<1> SUFFICES ASSUME IInv, IInv', [Next]_vars PROVE Contract!Next \/ UNCHANGED Seen
  OBVIOUS
<1>1. Control /\ Control' /\ Phased /\ Phased'
  BY PhaseOf, NextPhaseOf DEF IInv, Actor
<1>2. snapshot \in Snapshots /\ runtime \in Runtimes /\ pc \in ActorPcs
  BY DEF IInv, TypeOK
<1> USE <1>1, <1>2 DEF Phased, Lifecycle, locals, shared
<1>3. CASE StartSucceeds
  <2>1. Phase = "starting" /\ Phase' = "ready" /\ unconfirmed' = unconfirmed /\ runtime'.browser = "up"
    BY <1>3 DEF StartSucceeds, Publish, Snapshots, Runtimes
  <2> QED  BY <2>1, Steps DEF Allowed, Up
<1>4. CASE StartFails
  <2>1. Phase = "starting" /\ Phase' = "degraded" /\ unconfirmed' = TRUE
    BY <1>4 DEF StartFails, Degrade, Publish, Snapshots, Runtimes
  <2> QED  BY <2>1, Steps DEF Allowed, Up
<1>5. ASSUME NEW e, HandleCommand(e) PROVE Contract!Next \/ UNCHANGED Seen
  <2> USE DEF Receive
  <2>1. CASE RefuseCommand(e)
    <3>1. /\ Phase \in {"ready", "degraded"} /\ Phase' \in {Phase, "closing"}
          /\ UNCHANGED <<unconfirmed, runtime>>
      BY <2>1 DEF RefuseCommand, Control
    <3>2. CASE Phase' = Phase
      BY <3>1, <3>2, Stutters
    <3>3. CASE Phase' = "closing"
      BY <3>1, <3>3, Steps DEF Allowed, Up
    <3> QED  BY <3>1, <3>2, <3>3
  <2>2. CASE FailOnPolicy(e)
    <3>1. /\ Phase = "ready" /\ Phase' = "degraded" /\ unconfirmed' = unconfirmed
          /\ runtime'.browser = runtime.browser
      BY <2>2 DEF FailOnPolicy, Refuses, PolicyBlocks, Control, Degrade, Publish, Snapshots, Runtimes
    <3> QED  BY <3>1, Steps DEF Allowed, Up
  <2>3. CASE RejectArgument(e)
    BY <2>3, Unseen DEF RejectArgument
  <2>4. CASE StartCommand(e)
    <3>1. Phase = "ready" /\ Phase' = "ready" /\ UNCHANGED <<unconfirmed, runtime>>
      BY <2>4 DEF StartCommand, Admits, Control
    <3> QED  BY <3>1, Stutters
  <2>5. CASE StartRestart(e)
    <3>1. /\ Phase \in {"ready", "degraded"} /\ Phase' = "restarting"
          /\ ~unconfirmed /\ UNCHANGED unconfirmed /\ runtime'.browser = runtime.browser
      BY <2>5 DEF StartRestart, Admits, Control, Runtimes
    <3>2. unconfirmed = FALSE
      BY <3>1 DEF IInv, TypeOK
    <3> QED  BY <3>1, <3>2, Steps DEF Allowed, Up
  <2>6. CASE StartShutdown(e)
    <3>1. /\ Phase \in {"ready", "degraded"} /\ Phase' = "closing"
          /\ unconfirmed' = unconfirmed /\ runtime'.browser = runtime.browser
      BY <2>6 DEF StartShutdown, Admits, Control, Runtimes
    <3> QED  BY <3>1, Steps DEF Allowed, Up
  <2> QED  BY <1>5, <2>1, <2>2, <2>3, <2>4, <2>5, <2>6 DEF HandleCommand
<1>6. CASE RestartSucceeds
  <2>1. Phase = "restarting" /\ Phase' = "ready" /\ unconfirmed' = unconfirmed /\ runtime'.browser = "up"
    BY <1>6 DEF RestartSucceeds, Publish, Snapshots, Runtimes
  <2> QED  BY <2>1, Steps DEF Allowed, Up
<1>7. CASE RestartFails
  <2>1. Phase = "restarting" /\ Phase' = "degraded" /\ unconfirmed' = unconfirmed
    BY <1>7 DEF RestartFails, Degrade, Publish, Snapshots, Runtimes
  <2> QED  BY <2>1, Steps DEF Allowed, Up
<1>8. CASE WorkSucceeds \/ WorkMissing \/ WorkFails
  <2>1. /\ Phase = "ready" /\ Phase' \in {"ready", "degraded"} /\ unconfirmed' = unconfirmed
        /\ runtime'.browser = runtime.browser
    BY <1>8 DEF WorkSucceeds, WorkMissing, WorkFails, AfterWork, Control, Runtimes
  <2>2. CASE Phase' = "ready"
    BY <2>1, <2>2, Stutters
  <2>3. CASE Phase' = "degraded"
    BY <2>1, <2>3, Steps DEF Allowed, Up
  <2> QED  BY <2>1, <2>2, <2>3
<1>9. CASE ShutdownEnds
  <2>1. /\ Phase = "closing" /\ Phase' \in {"closing", "stopped"} /\ unconfirmed' = unconfirmed
        /\ runtime'.browser \in {runtime.browser, "down"}
    BY <1>9 DEF ShutdownEnds, Control, Runtimes
  <2> QED  BY <2>1, Steps DEF Allowed, Up
<1>10. CASE ServeDevtools \/ DevtoolsAnswers
  <2>1. Phase' = Phase /\ UNCHANGED <<unconfirmed, runtime>>
    BY <1>10 DEF ServeDevtools, DevtoolsAnswers, Control
  <2> QED  BY <2>1, Stutters
<1>11. CASE ChannelCloses
  <2>1. /\ Phase \in {"ready", "degraded"} /\ Phase' = "closing"
        /\ UNCHANGED <<unconfirmed, runtime>>
    BY <1>11 DEF ChannelCloses, Control
  <2> QED  BY <2>1, Steps DEF Allowed, Up
<1>12. CASE LeaveLoop
  <2>1. /\ Phase \in {"closing", "stopped"} /\ (Phase = "stopped" => Phase' = "stopped")
        /\ Phase' \in {"closing", "stopped"}
        /\ unconfirmed' = unconfirmed /\ runtime'.browser = runtime.browser
    BY <1>12 DEF LeaveLoop, CloseDone, Runtimes
  <2>2. CASE Phase' = Phase
    BY <2>1, <2>2, Stutters
  <2>3. CASE Phase = "closing" /\ Phase' = "stopped"
    BY <2>1, <2>3, Steps DEF Allowed, Up
  <2> QED  BY <2>1, <2>2, <2>3
<1>13. CASE EmergencyInterrupts
  <2>1. /\ Phase \notin {"stopped", "released"} /\ Phase' = "closing"
        /\ unconfirmed' = unconfirmed /\ runtime'.browser = runtime.browser
    BY <1>13 DEF EmergencyInterrupts, Interruptible, Busy, Runtimes
  <2> QED  BY <2>1, Steps DEF Allowed, Up
<1>14. CASE LastCloseEnds
  <2>1. /\ Phase = "closing" /\ Phase' = "stopped" /\ unconfirmed' = unconfirmed
        /\ runtime'.browser \in {runtime.browser, "down"}
    BY <1>14 DEF LastCloseEnds, Runtimes
  <2> QED  BY <2>1, Steps DEF Allowed, Up
<1>15. CASE DropRuntime \/ AbortDrops
  <2>1. /\ Phase \in {"closing", "stopped"} /\ Phase' = "released" /\ unconfirmed' = unconfirmed
        /\ runtime'.browser = "down"
    BY <1>15 DEF DropRuntime, AbortDrops, Runtimes
  <2> QED  BY <2>1, Steps DEF Allowed, Up
<1>16. CASE AnnounceStopped \/ ActorReturns
  <2>1. Phase' = Phase /\ UNCHANGED <<unconfirmed, runtime>>
    BY <1>16 DEF AnnounceStopped, ActorReturns
  <2> QED  BY <2>1, Stutters
<1>17. CASE PolicyBreaks \/ DropHandles \/ UNCHANGED vars
  BY <1>17, Unseen DEF PolicyBreaks, DropHandles, actorVars, vars, Runtimes
<1>18. ASSUME NEW c \in Clients,
              \/ CallElement(c) \/ CallOther(c) \/ CallAbort(c)
              \/ Enqueue(c) \/ Proceed(c) \/ Cancel(c)
       PROVE  Contract!Next \/ UNCHANGED Seen
  <2>1. CASE UNCHANGED actorVars
    BY <2>1, Unseen DEF actorVars
  <2>2. CASE HardAbort(c)
    <3>1. /\ Phase \notin {"stopped", "released"} /\ Phase' = "closing"
          /\ UNCHANGED <<unconfirmed, runtime>>
      BY <2>2 DEF HardAbort, Gone, Atomic, Control, ActorPcs, Interruptible, Busy
    <3> QED  BY <3>1, Steps DEF Allowed, Up
  <2> QED  BY <1>18, <2>1, <2>2, CallersLeaveActor
<1> QED
  BY <1>3, <1>4, <1>5, <1>6, <1>7, <1>8, <1>9, <1>10, <1>11, <1>12, <1>13, <1>14,
     <1>15, <1>16, <1>17, <1>18
  DEF Next, ActorStep

\* Whatever its callers, its browser and its commands do, the worker takes only the
\* steps that its owner, the station, is written for: it serves while it is ready,
\* is repaired only through a restart, never after an unconfirmed startup, and once
\* it closes it ends up released (run_actor, handle_command, abort_now).
THEOREM WorkerImplementsContract == Spec => ImplementsContractSteps
<1>1. Init => Contract!Init
  BY SeenInit
<1>2. IInv /\ IInv' /\ [Next]_vars => [Contract!Next]_Seen
  BY ContractNext
<1> QED  BY <1>1, <1>2, Invariance, PTL DEF Spec, ImplementsContractSteps, Contract!Spec, Seen

-----------------------------------------------------------------------------
(***************************************************************************)
(* A call of shutdown() or wait_aborted() that returns has waited for the  *)
(* actor: whoever takes the JoinHandle keeps the lock until the task       *)
(* ended, and everybody else waits for the lock.  Who gives up while it    *)
(* awaits the handle drops it, and the next one finds nothing to wait for; *)
(* who gives up anywhere else changes nothing of this.  The argument needs *)
(* that an envelope whose caller has not given up is of one that waits for *)
(* it, for an answer to move nobody else.                                  *)
(***************************************************************************)

Ended == pc \in {"finished", "aborted"}

\* The runtime is dropped before the actor ends, and nothing starts it again.
ReleasedAtEnd == pc \in {"announce", "return"} \/ Ended => runtime.browser = "down"

\* An envelope is nobody's any more, or of a caller that waits for its answer;
\* a caller has at most one envelope.
Pending ==
    /\ \A i \in DOMAIN queue : queue[i].from # Nobody => client[queue[i].from].pc = "reply"
    /\ \A i, j \in DOMAIN queue :
          queue[i].from # Nobody /\ queue[i].from = queue[j].from => i = j
    /\ \A i \in DOMAIN devtools : devtools[i] # Nobody => client[devtools[i]].pc = "subscribed"
    /\ \A i, j \in DOMAIN devtools :
          devtools[i] # Nobody /\ devtools[i] = devtools[j] => i = j
    /\ current.from # Nobody =>
          /\ client[current.from].pc \in {"reply", "subscribed"}
          /\ \A i \in DOMAIN queue : queue[i].from # current.from
          /\ \A i \in DOMAIN devtools : devtools[i] # current.from
    /\ current.from # Nobody => pc \in Busy \cup {"devtools"}

\* Who holds the lock joins; once the handle is taken and the lock is free, or a
\* call returned that waits for the end, the actor ended, or the handle was dropped
\* by a caller that gave up.
Waits ==
    /\ \A c \in Clients : client[c].pc \in {"send", "subscribe", "reply", "subscribed"}
          => client[c].call \in Requests \cup {"ShutdownWorker"}
    /\ \A c \in Clients : client[c].pc = "joining" <=> join.holder = c
    /\ join.holder # Nobody => join.taken
    /\ join.taken /\ join.holder = Nobody => Ended \/ join.dropped
    /\ \A c \in Clients :
          client[c].pc = "done" /\ client[c].call \in {"ShutdownWorker", "EmergencyStop"}
             => Ended \/ join.dropped

-----------------------------------------------------------------------------
(* The actor *)

\* A task that ended does not run again.
LEMMA EndedStays == [Next]_vars /\ Ended => Ended'
<1> SUFFICES ASSUME [Next]_vars, Ended PROVE Ended'
  OBVIOUS
<1>1. ASSUME NEW e, HandleCommand(e) PROVE FALSE
  BY <1>1 DEF HandleCommand, RefuseCommand, FailOnPolicy, RejectArgument, StartCommand,
     StartRestart, StartShutdown, Admits, Receive, Ended
<1>2. CASE UNCHANGED vars \/ DropHandles \/ PolicyBreaks
  BY <1>2 DEF vars, DropHandles, PolicyBreaks, actorVars, Ended
<1>3. ASSUME NEW c \in Clients,
             \/ CallElement(c) \/ CallOther(c) \/ CallAbort(c)
             \/ Enqueue(c) \/ Proceed(c) \/ Cancel(c)
      PROVE  Ended'
  BY <1>3, CallersLeaveActor DEF actorVars, HardAbort, Gone, Ended
<1> QED
  BY <1>1, <1>2, <1>3 DEF Next, ActorStep, StartSucceeds, StartFails, RestartSucceeds,
     RestartFails, WorkSucceeds, WorkMissing, WorkFails, ShutdownEnds, ServeDevtools,
     DevtoolsAnswers, ChannelCloses, LeaveLoop, EmergencyInterrupts, LastCloseEnds, DropRuntime,
     AnnounceStopped, ActorReturns, AbortDrops, Interruptible, Busy, Ended

\* No step brings the browser back once the actor is past its close.
LEMMA ReleasedNext == TypeOK /\ ReleasedAtEnd /\ [Next]_vars => ReleasedAtEnd'
<1> SUFFICES ASSUME TypeOK, ReleasedAtEnd, [Next]_vars PROVE ReleasedAtEnd'
  OBVIOUS
<1> USE DEF ReleasedAtEnd, Ended
<1>1. runtime \in Runtimes
  BY DEF TypeOK
<1>2. ASSUME NEW e, HandleCommand(e) PROVE ReleasedAtEnd'
  BY <1>2 DEF HandleCommand, RefuseCommand, FailOnPolicy, RejectArgument, StartCommand,
     StartRestart, StartShutdown, Admits, Receive
<1>3. CASE \/ StartSucceeds \/ StartFails \/ RestartSucceeds \/ RestartFails \/ WorkSucceeds
           \/ WorkMissing \/ WorkFails \/ ShutdownEnds \/ ServeDevtools \/ DevtoolsAnswers
           \/ ChannelCloses \/ LeaveLoop \/ EmergencyInterrupts \/ LastCloseEnds
  BY <1>3 DEF StartSucceeds, StartFails, RestartSucceeds, RestartFails, WorkSucceeds,
     WorkMissing, WorkFails, ShutdownEnds, ServeDevtools, DevtoolsAnswers, ChannelCloses,
     LeaveLoop, EmergencyInterrupts, LastCloseEnds
<1>4. CASE DropRuntime \/ AbortDrops \/ PolicyBreaks
  BY <1>1, <1>4 DEF DropRuntime, AbortDrops, PolicyBreaks, Runtimes
<1>5. CASE AnnounceStopped \/ ActorReturns \/ DropHandles \/ UNCHANGED vars
  BY <1>5 DEF AnnounceStopped, ActorReturns, DropHandles, actorVars, vars
<1>6. ASSUME NEW c \in Clients,
             \/ CallElement(c) \/ CallOther(c) \/ CallAbort(c)
             \/ Enqueue(c) \/ Proceed(c) \/ Cancel(c)
      PROVE  ReleasedAtEnd'
  BY <1>6, CallersLeaveActor DEF actorVars, HardAbort
<1> QED  BY <1>2, <1>3, <1>4, <1>5, <1>6 DEF Next, ActorStep

-----------------------------------------------------------------------------
(* Envelopes and the callers that wait for their answers *)

\* An answer moves the caller it is for and nobody else.
LEMMA AnsweredOnly ==
    ASSUME client \in [Clients -> ClientStates], NEW d, NEW result
    PROVE  /\ \A c \in Clients : c # d => Answered(d, result)[c] = client[c]
           /\ d \in Clients =>
                 /\ Answered(d, result)[d].call = client[d].call
                 /\ Answered(d, result)[d].pc =
                       IF client[d].call = "ShutdownWorker" THEN "stopWait" ELSE "done"
BY DEF Answered, Received, ClientStates

\* Who the envelopes are from: a caller, or nobody any more.
LEMMA Froms ==
    ASSUME TypeOK
    PROVE  /\ \A i \in DOMAIN queue : queue[i].from \in Clients \cup {Nobody}
           /\ \A i \in DOMAIN devtools : devtools[i] \in Clients \cup {Nobody}
           /\ current.from \in Clients \cup {Nobody}
<1>1. \A e \in Envelopes : e.from \in Clients \cup {Nobody}
  BY DEF Envelopes
<1>2. queue \in Seq(Envelopes) /\ devtools \in Seq(Clients \cup {Nobody}) /\ current \in Envelopes
  BY DEF TypeOK
<1>3. \A i \in DOMAIN queue : queue[i] \in Envelopes
  BY <1>2
<1>4. \A i \in DOMAIN devtools : devtools[i] \in Clients \cup {Nobody}
  BY <1>2
<1> QED  BY <1>1, <1>2, <1>3, <1>4

\* The actor takes an envelope: it answers it at once, or keeps it in hand.
LEMMA ReceivePending ==
    ASSUME TypeOK, Pending, NEW e, Receive(e), devtools' = devtools,
           \/ UNCHANGED current /\ \E result : client' = Answered(e.from, result)
           \/ current' = e /\ pc' \in Busy /\ UNCHANGED client
    PROVE  Pending'
<1>1. client \in [Clients -> ClientStates] /\ queue \in Seq(Envelopes)
  BY DEF TypeOK
<1>2. /\ 1 \in DOMAIN queue /\ e = queue[1] /\ pc = "select"
      /\ \A i \in DOMAIN queue' : i + 1 \in DOMAIN queue /\ queue'[i] = queue[i + 1] /\ i + 1 # 1 /\ i \in Nat
  BY <1>1 DEF Receive
<1>3. current.from = Nobody /\ e.from \in Clients \cup {Nobody}
  BY <1>2, Froms DEF Pending, Busy
<1>4. /\ \A i \in DOMAIN queue' : queue'[i].from # Nobody => client[queue'[i].from].pc = "reply"
      /\ e.from # Nobody => /\ client[e.from].pc = "reply"
                            /\ \A i \in DOMAIN queue' : queue'[i].from # e.from
                            /\ \A i \in DOMAIN devtools : devtools[i] # e.from
  BY <1>2 DEF Pending
<1>5. \A i, j \in DOMAIN queue' :
         queue'[i].from # Nobody /\ queue'[i].from = queue'[j].from => i = j
  <2> SUFFICES ASSUME NEW i \in DOMAIN queue', NEW j \in DOMAIN queue',
                      queue'[i].from # Nobody, queue'[i].from = queue'[j].from
               PROVE  i = j
    OBVIOUS
  <2>1. i + 1 = j + 1
    BY <1>2 DEF Pending
  <2> QED  BY <1>2, <2>1
<1>6. CASE UNCHANGED current /\ \E result : client' = Answered(e.from, result)
  <2>1. \A c \in Clients : c # e.from => client'[c] = client[c]
    BY <1>1, <1>6, AnsweredOnly
  <2>2. \A i \in DOMAIN queue' : queue'[i].from \in Clients \cup {Nobody}
    BY <1>2, Froms
  <2>3. \A i \in DOMAIN devtools : devtools[i] \in Clients \cup {Nobody}
    BY DEF TypeOK
  <2> QED  BY <1>3, <1>4, <1>5, <1>6, <2>1, <2>2, <2>3 DEF Pending
<1>7. CASE current' = e /\ pc' \in Busy /\ UNCHANGED client
  BY <1>4, <1>5, <1>7 DEF Pending
<1> QED  BY <1>6, <1>7

\* The actor answers the envelope in hand, or drops it.
LEMMA ReplyPending ==
    ASSUME TypeOK, Pending, NEW result, Reply(result), UNCHANGED <<queue, devtools>>
    PROVE  Pending'
<1>1. client \in [Clients -> ClientStates]
  BY DEF TypeOK
<1>2. \A c \in Clients : c # current.from => client'[c] = client[c]
  BY <1>1, AnsweredOnly DEF Reply
<1>3. current'.from = Nobody
  BY DEF Reply, NoEnvelope
<1>4. /\ \A i \in DOMAIN queue : queue[i].from \in Clients \cup {Nobody}
      /\ \A i \in DOMAIN devtools : devtools[i] \in Clients \cup {Nobody}
  BY Froms
<1>5. /\ \A i \in DOMAIN queue : queue[i].from # Nobody => queue[i].from # current.from
      /\ \A i \in DOMAIN devtools : devtools[i] # Nobody => devtools[i] # current.from
  BY DEF Pending
<1> QED  BY <1>2, <1>3, <1>4, <1>5 DEF Pending

\* Whoever moves on without an envelope leaves those of the others alone.
LEMMA MovePending ==
    ASSUME TypeOK, Pending, NEW c \in Clients, client[c].pc \notin {"reply", "subscribed"},
           \A d \in Clients \ {c} : client'[d] = client[d],
           UNCHANGED <<pc, current, queue, devtools>>
    PROVE  Pending'
<1>1. /\ \A i \in DOMAIN queue : queue[i].from \in Clients \cup {Nobody}
      /\ \A i \in DOMAIN devtools : devtools[i] \in Clients \cup {Nobody}
      /\ current.from \in Clients \cup {Nobody}
  BY Froms
<1> QED  BY <1>1 DEF Pending

\* An envelope keeps one waiting caller of its own, or loses it for good.
LEMMA PendingNext == TypeOK /\ Pending /\ [Next]_vars => Pending'
<1> SUFFICES ASSUME TypeOK, Pending, [Next]_vars PROVE Pending'
  OBVIOUS
<1>0. /\ \A i \in DOMAIN queue : queue[i].from \in Clients \cup {Nobody}
      /\ \A i \in DOMAIN devtools : devtools[i] \in Clients \cup {Nobody}
  BY Froms
<1>1. /\ client \in [Clients -> ClientStates] /\ queue \in Seq(Envelopes)
      /\ devtools \in Seq(Clients \cup {Nobody}) /\ current.from \in Clients \cup {Nobody}
  BY Froms DEF TypeOK
<1>2. ASSUME NEW e, HandleCommand(e) PROVE Pending'
  <2>1. Receive(e) /\ devtools' = devtools
    BY <1>2 DEF HandleCommand, RefuseCommand, FailOnPolicy, RejectArgument, StartCommand,
       StartRestart, StartShutdown, Admits
  <2>2. \/ UNCHANGED current /\ \E result : client' = Answered(e.from, result)
        \/ current' = e /\ pc' \in Busy /\ UNCHANGED client
    BY <1>2 DEF HandleCommand, RefuseCommand, FailOnPolicy, RejectArgument, StartCommand,
       StartRestart, StartShutdown, Busy
  <2> QED  BY <2>1, <2>2, ReceivePending
<1>3. CASE RestartSucceeds \/ RestartFails \/ WorkSucceeds \/ WorkMissing \/ WorkFails
           \/ ShutdownEnds \/ DevtoolsAnswers \/ EmergencyInterrupts
  <2>1. UNCHANGED <<queue, devtools>>
    BY <1>3 DEF RestartSucceeds, RestartFails, WorkSucceeds, WorkMissing, WorkFails,
       ShutdownEnds, DevtoolsAnswers, EmergencyInterrupts, channels
  <2>2. \/ \E result : Reply(result)
        \/ UNCHANGED <<client, current>> /\ (pc' \in Busy \/ pc \notin Busy \cup {"devtools"})
    BY <1>3 DEF RestartSucceeds, RestartFails, WorkSucceeds, WorkMissing, WorkFails,
       ShutdownEnds, DevtoolsAnswers, EmergencyInterrupts, Busy, Interruptible
  <2>3. CASE \E result : Reply(result)
    BY <2>1, <2>3, ReplyPending
  <2>4. CASE UNCHANGED <<client, current>> /\ (pc' \in Busy \/ pc \notin Busy \cup {"devtools"})
    BY <2>1, <2>4 DEF Pending
  <2> QED  BY <2>2, <2>3, <2>4
<1>4. CASE ServeDevtools
  <2>1. /\ 1 \in DOMAIN devtools /\ Head(devtools) = devtools[1] /\ pc = "select" /\ queue' = queue
        /\ \A i \in DOMAIN devtools' : /\ i + 1 \in DOMAIN devtools /\ devtools'[i] = devtools[i + 1]
                                      /\ i + 1 # 1 /\ i \in Nat
    BY <1>1, <1>4 DEF ServeDevtools
  <2>2. /\ \A i \in DOMAIN devtools' : devtools'[i] # Nobody => client[devtools'[i]].pc = "subscribed"
        /\ Head(devtools) # Nobody =>
              /\ client[Head(devtools)].pc = "subscribed"
              /\ \A i \in DOMAIN devtools' : devtools'[i] # Head(devtools)
              /\ \A i \in DOMAIN queue : queue[i].from # Head(devtools)
        /\ current.from = Nobody
    BY <2>1 DEF Pending, Busy
  <2>3. \A i, j \in DOMAIN devtools' : devtools'[i] # Nobody /\ devtools'[i] = devtools'[j] => i = j
    <3> SUFFICES ASSUME NEW i \in DOMAIN devtools', NEW j \in DOMAIN devtools',
                        devtools'[i] # Nobody, devtools'[i] = devtools'[j]
                 PROVE  i = j
      OBVIOUS
    <3>1. i + 1 = j + 1
      BY <2>1 DEF Pending
    <3> QED  BY <2>1, <3>1
  <2>4. \/ UNCHANGED current /\ \E result : client' = Answered(Head(devtools), result)
        \/ current'.from = Head(devtools) /\ pc' = "devtools" /\ UNCHANGED client
    BY <1>4 DEF ServeDevtools, NoEnvelope
  <2>5. CASE UNCHANGED current /\ \E result : client' = Answered(Head(devtools), result)
    <3>1. \A c \in Clients : c # Head(devtools) => client'[c] = client[c]
      BY <1>1, <2>5, AnsweredOnly
    <3> QED  BY <1>0, <2>1, <2>2, <2>3, <2>5, <3>1 DEF Pending
  <2>6. CASE current'.from = Head(devtools) /\ pc' = "devtools" /\ UNCHANGED client
    BY <2>1, <2>2, <2>3, <2>6 DEF Pending
  <2> QED  BY <2>4, <2>5, <2>6
<1>5. CASE \/ StartSucceeds \/ StartFails \/ ChannelCloses \/ LeaveLoop \/ LastCloseEnds
           \/ DropRuntime \/ AnnounceStopped \/ AbortDrops \/ PolicyBreaks \/ DropHandles
           \/ UNCHANGED vars
  <2>1. UNCHANGED <<client, current, queue, devtools>>
    BY <1>5 DEF StartSucceeds, StartFails, ChannelCloses, LeaveLoop, LastCloseEnds, DropRuntime,
       AnnounceStopped, AbortDrops, PolicyBreaks, DropHandles, vars, channels
  <2>2. pc' = pc \/ pc \notin Busy \cup {"devtools"}
    BY <1>5 DEF StartSucceeds, StartFails, ChannelCloses, LeaveLoop, LastCloseEnds, DropRuntime,
       AnnounceStopped, AbortDrops, PolicyBreaks, DropHandles, vars, actorVars, Busy
  <2> QED  BY <2>1, <2>2 DEF Pending
<1>6. CASE ActorReturns
  <2>1. queue' = <<>> /\ devtools' = <<>> /\ current' = current /\ pc = "return"
    BY <1>6 DEF ActorReturns
  <2> QED  BY <2>1 DEF Pending, Busy
<1>7. ASSUME NEW c \in Clients, HardAbort(c) PROVE Pending'
  <2>1. queue' = <<>> /\ devtools' = <<>> /\ current' = NoEnvelope
    BY <1>7 DEF HardAbort
  <2> QED  BY <2>1 DEF Pending, NoEnvelope
<1>8. ASSUME NEW c \in Clients, Enqueue(c) PROVE Pending'
  <2>1. PICK e : queue' = Append(queue, e) /\ e.from = c
    BY <1>8 DEF Enqueue
  <2>2. /\ client[c].pc = "send" /\ client'[c].pc = "reply" /\ UNCHANGED <<pc, current, devtools>>
        /\ \A d \in Clients \ {c} : client'[d] = client[d]
    BY <1>1, <1>8 DEF Enqueue, Goto, actorVars
  <2>3. \A i \in DOMAIN queue' : \/ i = Len(queue) + 1 /\ queue'[i] = e
                                 \/ i \in DOMAIN queue /\ queue'[i] = queue[i]
    BY <1>1, <2>1
  <2>4. /\ \A i \in DOMAIN queue : queue[i].from # c
        /\ \A i \in DOMAIN devtools : devtools[i] # c
        /\ current.from # c
    BY <2>2, WorkerAssumption DEF Pending
  <2>5. \A i, j \in DOMAIN queue' : queue'[i].from # Nobody /\ queue'[i].from = queue'[j].from => i = j
    BY <2>1, <2>3, <2>4 DEF Pending
  <2>6. \A i \in DOMAIN queue' : queue'[i].from # Nobody => client'[queue'[i].from].pc = "reply"
    BY <1>0, <2>1, <2>2, <2>3 DEF Pending
  <2>7. \A i \in DOMAIN devtools : devtools[i] # Nobody => client'[devtools[i]].pc = "subscribed"
    BY <1>0, <2>2, <2>4 DEF Pending
  <2>8. current.from # Nobody =>
           /\ client'[current.from].pc \in {"reply", "subscribed"}
           /\ \A i \in DOMAIN queue' : queue'[i].from # current.from
    BY <1>1, <2>1, <2>2, <2>3, <2>4 DEF Pending
  <2> QED  BY <2>2, <2>5, <2>6, <2>7, <2>8 DEF Pending
<1>9. ASSUME NEW c \in Clients, EnqueueDevtools(c) PROVE Pending'
  <2>1. devtools' = Append(devtools, c)
    BY <1>9 DEF EnqueueDevtools
  <2>2. /\ client[c].pc = "subscribe" /\ client'[c].pc = "subscribed" /\ UNCHANGED <<pc, current, queue>>
        /\ \A d \in Clients \ {c} : client'[d] = client[d]
    BY <1>1, <1>9 DEF EnqueueDevtools, Goto, actorVars
  <2>3. \A i \in DOMAIN devtools' : \/ i = Len(devtools) + 1 /\ devtools'[i] = c
                                    \/ i \in DOMAIN devtools /\ devtools'[i] = devtools[i]
    BY <1>1, <2>1
  <2>4. \A i, j \in DOMAIN devtools' : devtools'[i] # Nobody /\ devtools'[i] = devtools'[j] => i = j
    <3>1. \A i \in DOMAIN devtools : devtools[i] # c
      BY <2>2, WorkerAssumption DEF Pending
    <3> QED  BY <2>3, <3>1 DEF Pending
  <2>5. \A i \in DOMAIN devtools' : devtools'[i] # Nobody => client'[devtools'[i]].pc = "subscribed"
    BY <1>0, <2>2, <2>3 DEF Pending
  <2>6. \A i \in DOMAIN queue' : queue'[i].from # Nobody => client'[queue'[i].from].pc = "reply"
    BY <1>0, <2>2 DEF Pending
  <2>7. current'.from # Nobody => \A i \in DOMAIN devtools' : devtools'[i] # current'.from
    BY <1>1, <2>2, <2>3 DEF Pending
  <2> QED  BY <1>1, <2>2, <2>4, <2>5, <2>6, <2>7, WorkerAssumption DEF Pending
<1>10. ASSUME NEW c \in Clients,
              \/ CallElement(c) \/ CallOther(c) \/ CallAbort(c) \/ SendFails(c) \/ StopWaitEnds(c)
              \/ FinishWaitEnds(c) \/ AbortTooLate(c) \/ TakeJoin(c) \/ Joined(c)
       PROVE  Pending'
  <2>1. client[c].pc \notin {"reply", "subscribed"}
    BY <1>10 DEF CallElement, CallOther, Call, CallAbort, NewCall, Calling, SendFails, StopWaitEnds,
       FinishWaitEnds, AbortTooLate, TakeJoin, Joined
  <2>2. UNCHANGED <<pc, current, queue, devtools>>
    BY <1>10 DEF CallElement, CallOther, Call, CallAbort, SendFails, StopWaitEnds,
       FinishWaitEnds, AbortTooLate, TakeJoin, Joined, actorVars, channels
  <2>3. \A d \in Clients \ {c} : client'[d] = client[d]
    BY <1>1, <1>10, AnsweredOnly DEF CallElement, CallOther, Call, CallAbort, SendFails, StopWaitEnds,
       FinishWaitEnds, AbortTooLate, TakeJoin, Joined, Goto
  <2> QED  BY <1>1, <2>1, <2>2, <2>3, MovePending
<1>11. ASSUME NEW c \in Clients, Cancel(c) PROVE Pending'
  <2>1. /\ pc' = pc /\ \A d \in Clients \ {c} : client'[d] = client[d]
        /\ DOMAIN queue' = DOMAIN queue /\ DOMAIN devtools' = DOMAIN devtools
    BY <1>1, <1>11 DEF Cancel, actorVars
  <2>2. \A i \in DOMAIN queue : queue'[i].from = IF queue[i].from = c THEN Nobody ELSE queue[i].from
    <3>1. \A e \in Envelopes : Orphaned(e, c).from = IF e.from = c THEN Nobody ELSE e.from
      BY DEF Orphaned, Envelopes
    <3>2. \A i \in DOMAIN queue : queue[i] \in Envelopes /\ queue'[i] = Orphaned(queue[i], c)
      BY <1>1, <1>11 DEF Cancel
    <3> QED  BY <3>1, <3>2
  <2>3. \A i \in DOMAIN devtools : devtools'[i] = IF devtools[i] = c THEN Nobody ELSE devtools[i]
    BY <1>11 DEF Cancel
  <2>4. current'.from = IF current.from = c THEN Nobody ELSE current.from
    BY <1>11 DEF Cancel, Orphaned, TypeOK, Envelopes
  <2> QED  BY <1>0, <1>1, <2>1, <2>2, <2>3, <2>4 DEF Pending
<1> QED
  BY <1>2, <1>3, <1>4, <1>5, <1>6, <1>7, <1>8, <1>9, <1>10, <1>11 DEF Next, ActorStep, Proceed

-----------------------------------------------------------------------------
(* The calls that wait for the actor to end *)

\* A caller stays where it is, or moves as far as its own call lets it; nobody
\* takes the lock or lets go of it.
Awaiting(c) == client[c].pc \in {"send", "subscribe", "reply", "subscribed"}
Advances(c) ==
    /\ client[c].pc # "joining" /\ client'[c].pc # "joining"
    /\ Awaiting(c)' => client'[c].call \in Requests \cup {"ShutdownWorker"}
    /\ client'[c].pc = "done" /\ client'[c].call \in {"ShutdownWorker", "EmergencyStop"}
          => Ended' \/ join'.dropped

\* A caller's step that does not touch the join handle keeps Waits if it goes where it may.
LEMMA GoesWaits ==
    ASSUME Waits, Ended => Ended', UNCHANGED join,
           \A c \in Clients : client'[c] = client[c] \/ Advances(c)
    PROVE  Waits'
BY DEF Waits, Advances, Awaiting

\* A caller that awaited an answer and gets it goes where it may.
LEMMA AnswerGoes ==
    ASSUME Waits, NEW c \in Clients, Awaiting(c), client'[c].call = client[c].call,
           client'[c].pc = IF client[c].call = "ShutdownWorker" THEN "stopWait" ELSE "done"
    PROVE  Advances(c)
BY DEF Waits, Advances, Awaiting, Requests, Commands

\* Goto moves one caller and keeps its call.
LEMMA GotoOnly ==
    ASSUME client \in [Clients -> ClientStates], NEW c \in Clients, NEW p, Goto(c, p)
    PROVE  /\ client'[c].pc = p /\ client'[c].call = client[c].call
           /\ \A d \in Clients : d # c => client'[d] = client[d]
BY DEF Goto, ClientStates

\* Callers whose envelope was dropped go where they may.
LEMMA UnansweredGoes ==
    ASSUME client \in [Clients -> ClientStates], NEW c \in Clients
    PROVE  \/ Unanswered[c] = client[c] /\ client[c].pc \notin {"reply", "subscribed"}
           \/ /\ Awaiting(c) /\ Unanswered[c].call = client[c].call
              /\ Unanswered[c].pc = IF client[c].call = "ShutdownWorker" THEN "stopWait" ELSE "done"
BY DEF Unanswered, Received, ClientStates, Awaiting

\* Whoever finds the handle gone finds the actor ended, or the handle dropped.
LEMMA WaitsNext == TypeOK /\ Pending /\ Waits /\ [Next]_vars => Waits'
<1> SUFFICES ASSUME TypeOK, Pending, Waits, [Next]_vars PROVE Waits'
  OBVIOUS
<1>1. /\ client \in [Clients -> ClientStates] /\ (Ended => Ended')
      /\ queue \in Seq(Envelopes) /\ devtools \in Seq(Clients \cup {Nobody})
  BY EndedStays DEF TypeOK
<1>2. ASSUME UNCHANGED join, NEW d, d \in Clients => Awaiting(d),
             NEW result, client' = Answered(d, result)
      PROVE  Waits'
  <2>1. \A c \in Clients : c # d => client'[c] = client[c]
    BY <1>1, <1>2, AnsweredOnly
  <2>2. d \in Clients => Advances(d)
    BY <1>1, <1>2, AnsweredOnly, AnswerGoes
  <2> QED  BY <1>1, <1>2, <2>1, <2>2, GoesWaits
<1>3. ASSUME UNCHANGED join, NEW result, Reply(result) PROVE Waits'
  <2>1. current.from \in Clients => Awaiting(current.from)
    BY WorkerAssumption DEF Pending, Awaiting
  <2> QED  BY <1>2, <1>3, <2>1 DEF Reply
<1>4. ASSUME UNCHANGED <<join, client>> PROVE Waits'
  BY <1>1, <1>4, GoesWaits
<1>5. ASSUME NEW e, HandleCommand(e) PROVE Waits'
  <2>1. Receive(e) /\ UNCHANGED join
    BY <1>5 DEF HandleCommand, RefuseCommand, FailOnPolicy, RejectArgument, StartCommand,
       StartRestart, StartShutdown, Admits, shared
  <2>2. UNCHANGED client \/ \E result : client' = Answered(e.from, result)
    BY <1>5 DEF HandleCommand, RefuseCommand, FailOnPolicy, RejectArgument, StartCommand,
       StartRestart, StartShutdown
  <2>3. e.from \in Clients => Awaiting(e.from)
    <3>1. 1 \in DOMAIN queue /\ e = queue[1]
      BY <1>1, <2>1 DEF Receive
    <3> QED  BY <3>1, WorkerAssumption DEF Pending, Awaiting
  <2> QED  BY <1>2, <1>4, <2>1, <2>2, <2>3
<1>6. CASE RestartSucceeds \/ RestartFails \/ WorkSucceeds \/ WorkMissing \/ WorkFails
           \/ ShutdownEnds \/ DevtoolsAnswers \/ EmergencyInterrupts
  <2>1. UNCHANGED join
    BY <1>6 DEF RestartSucceeds, RestartFails, WorkSucceeds, WorkMissing, WorkFails,
       ShutdownEnds, DevtoolsAnswers, EmergencyInterrupts, shared
  <2>2. UNCHANGED client \/ \E result : Reply(result)
    BY <1>6 DEF RestartSucceeds, RestartFails, WorkSucceeds, WorkMissing, WorkFails,
       ShutdownEnds, DevtoolsAnswers, EmergencyInterrupts
  <2> QED  BY <1>3, <1>4, <2>1, <2>2
<1>7. CASE ServeDevtools
  <2>1. UNCHANGED join /\ (UNCHANGED client \/ \E result : client' = Answered(Head(devtools), result))
    BY <1>7 DEF ServeDevtools, shared
  <2>2. Head(devtools) \in Clients => Awaiting(Head(devtools))
    <3>1. 1 \in DOMAIN devtools /\ Head(devtools) = devtools[1]
      BY <1>1, <1>7 DEF ServeDevtools
    <3> QED  BY <3>1, WorkerAssumption DEF Pending, Awaiting
  <2> QED  BY <1>2, <1>4, <2>1, <2>2
<1>8. CASE \/ StartSucceeds \/ StartFails \/ ChannelCloses \/ LeaveLoop \/ LastCloseEnds
           \/ DropRuntime \/ AnnounceStopped \/ AbortDrops \/ PolicyBreaks \/ DropHandles
           \/ UNCHANGED vars
  BY <1>4, <1>8 DEF StartSucceeds, StartFails, ChannelCloses, LeaveLoop, LastCloseEnds, DropRuntime,
     AnnounceStopped, AbortDrops, PolicyBreaks, DropHandles, vars, shared
<1>9. CASE ActorReturns
  <2>1. client' = Unanswered /\ UNCHANGED join
    BY <1>9 DEF ActorReturns, shared
  <2>2. \A c \in Clients : client'[c] = client[c] \/ Advances(c)
    BY <1>1, <2>1, UnansweredGoes, AnswerGoes
  <2> QED  BY <1>1, <2>1, <2>2, GoesWaits
<1>10. ASSUME NEW c \in Clients, HardAbort(c) PROVE Waits'
  <2>1. client' = [Unanswered EXCEPT ![c].pc = "join"] /\ UNCHANGED join /\ client[c].pc = "finishWait"
    BY <1>10 DEF HardAbort, shared
  <2>2. Unanswered \in [Clients -> ClientStates]
    BY <1>1, UnansweredType
  <2>3. client'[c].pc = "join" /\ \A d \in Clients : d # c => client'[d] = Unanswered[d]
    BY <2>1, <2>2 DEF ClientStates
  <2>4. Advances(c)
    BY <2>1, <2>3 DEF Advances, Awaiting
  <2>5. \A d \in Clients : d # c => client'[d] = client[d] \/ Advances(d)
    BY <1>1, <2>3, UnansweredGoes, AnswerGoes
  <2> QED  BY <1>1, <2>1, <2>4, <2>5, GoesWaits
<1>11. ASSUME NEW c \in Clients, Enqueue(c) \/ EnqueueDevtools(c) PROVE Waits'
  <2>1. /\ Awaiting(c) /\ client[c].pc \in {"send", "subscribe"} /\ UNCHANGED join
        /\ Goto(c, "reply") \/ Goto(c, "subscribed")
    BY <1>11 DEF Enqueue, EnqueueDevtools, shared, Awaiting
  <2>2. Advances(c)
    BY <1>1, <2>1, GotoOnly DEF Advances, Awaiting, Waits
  <2> QED  BY <1>1, <2>1, <2>2, GotoOnly, GoesWaits
<1>12. ASSUME NEW c \in Clients, SendFails(c) PROVE Waits'
  BY <1>2, <1>12 DEF SendFails, Awaiting, shared
<1>13. ASSUME NEW c \in Clients, CallElement(c) \/ CallOther(c) \/ CallAbort(c) PROVE Waits'
  <2>1. client[c].pc \in {"idle", "done"} /\ UNCHANGED join
    <3>1. client[c].pc \in {"idle", "done"}
      BY <1>13 DEF CallElement, CallOther, Call, CallAbort, NewCall, Calling
    <3> QED  BY <1>13, <3>1 DEF CallElement, CallOther, Call, CallAbort
  <2>2. \A d \in Clients : d # c => client'[d] = client[d]
    BY <1>1, <1>13 DEF CallElement, CallOther, Call, CallAbort
  <2>3. CASE CallElement(c) \/ CallOther(c)
    <3>0. PICK call \in Requests \cup {"ShutdownWorker"} : \E ref : Call(c, call, ref)
      BY <2>3 DEF CallElement, CallOther, Requests, Commands
    <3>1. PICK ref : Call(c, call, ref)
      BY <3>0
    <3>2. client'[c].pc \in {"join", "subscribe", "send"} /\ client'[c].call = call
      BY <1>1, <3>1 DEF Call
    <3>3. Advances(c)
      BY <2>1, <3>2 DEF Advances
    <3> QED  BY <1>1, <2>1, <2>2, <3>3, GoesWaits
  <2>4. CASE CallAbort(c)
    <3>1. \/ client'[c].pc = "done" /\ client'[c].call = "AbortNow"
          \/ client'[c].pc = "finishWait"
      BY <1>1, <2>4 DEF CallAbort
    <3>2. Advances(c)
      BY <2>1, <3>1 DEF Advances, Awaiting
    <3> QED  BY <1>1, <2>1, <2>2, <3>2, GoesWaits
  <2> QED  BY <1>13, <2>3, <2>4
<1>14. ASSUME NEW c \in Clients, StopWaitEnds(c) \/ FinishWaitEnds(c) \/ AbortTooLate(c)
       PROVE  Waits'
  <2>1. client[c].pc \in {"stopWait", "finishWait"} /\ UNCHANGED join
    BY <1>14 DEF StopWaitEnds, FinishWaitEnds, AbortTooLate, shared
  <2>2. client'[c].pc = "join" /\ \A d \in Clients : d # c => client'[d] = client[d]
    <3>1. CASE StopWaitEnds(c)
      BY <1>1, <3>1 DEF StopWaitEnds, ClientStates
    <3>2. CASE Goto(c, "join")
      BY <1>1, <3>2, GotoOnly
    <3> QED  BY <1>14, <3>1, <3>2 DEF FinishWaitEnds, AbortTooLate
  <2>3. Advances(c)
    BY <2>1, <2>2 DEF Advances, Awaiting
  <2> QED  BY <1>1, <2>1, <2>2, <2>3, GoesWaits
<1>15. ASSUME NEW c \in Clients, TakeJoin(c) PROVE Waits'
  <2>1. client[c].pc = "join" /\ join.holder = Nobody
    BY <1>15 DEF TakeJoin
  <2>2. CASE join.taken /\ Goto(c, "done") /\ UNCHANGED join
    <3>1. Advances(c)
      BY <1>1, <2>1, <2>2, GotoOnly DEF Advances, Awaiting, Waits
    <3> QED  BY <1>1, <2>2, <3>1, GotoOnly, GoesWaits
  <2>3. CASE ~join.taken /\ Goto(c, "joining") /\ join' = [join EXCEPT !.taken = TRUE, !.holder = c]
    <3>1. client'[c].pc = "joining" /\ \A d \in Clients : d # c => client'[d] = client[d]
      BY <1>1, <2>3, GotoOnly
    <3>2. \A d \in Clients : client[d].pc # "joining"
      BY <2>1, WorkerAssumption DEF Waits
    <3>3. join'.taken /\ join'.holder = c /\ join'.holder # Nobody /\ join'.dropped = join.dropped
      BY <2>3, WorkerAssumption DEF TypeOK, Joins
    <3> QED  BY <1>1, <3>1, <3>2, <3>3 DEF Waits
  <2> QED  BY <1>15, <2>2, <2>3 DEF TakeJoin
<1>16. ASSUME NEW c \in Clients, Joined(c) PROVE Waits'
  <2>1. client[c].pc = "joining" /\ Ended /\ Goto(c, "done") /\ join' = [join EXCEPT !.holder = Nobody]
    BY <1>16 DEF Joined, Ended
  <2>2. client'[c].pc = "done" /\ \A d \in Clients : d # c => client'[d] = client[d]
    BY <1>1, <2>1, GotoOnly
  <2>3. join'.holder = Nobody /\ join'.dropped = join.dropped
    BY <2>1 DEF TypeOK, Joins
  <2>4. \A d \in Clients : client'[d].pc # "joining"
    BY <2>1, <2>2 DEF Waits
  <2> QED  BY <1>1, <2>1, <2>2, <2>3, <2>4, WorkerAssumption DEF Waits
<1>17. ASSUME NEW c \in Clients, Cancel(c) PROVE Waits'
  <2>1. client'[c].pc = "idle" /\ \A d \in Clients : d # c => client'[d] = client[d]
    BY <1>1, <1>17 DEF Cancel
  <2>2. CASE join.holder = c
    <3>1. join'.taken /\ join'.dropped /\ join'.holder = Nobody
      BY <1>17, <2>2, WorkerAssumption DEF Cancel, Waits, TypeOK, Joins
    <3>2. \A d \in Clients : client'[d].pc # "joining"
      BY <2>1, <2>2 DEF Waits
    <3> QED  BY <1>1, <2>1, <3>1, <3>2, WorkerAssumption DEF Waits
  <2>3. CASE join.holder # c
    <3>1. join' = join /\ client[c].pc # "joining"
      BY <1>17, <2>3 DEF Cancel, Waits
    <3>2. Advances(c)
      BY <2>1, <3>1 DEF Advances, Awaiting
    <3> QED  BY <1>1, <2>1, <3>1, <3>2, GoesWaits
  <2> QED  BY <2>2, <2>3
<1> QED
  BY <1>5, <1>6, <1>7, <1>8, <1>9, <1>10, <1>11, <1>12, <1>13, <1>14, <1>15, <1>16, <1>17
  DEF Next, ActorStep, Proceed

\* The browser is released when shutdown() or wait_aborted() returns, whoever
\* else shuts down, aborts or gives up, unless one who gave up while it awaited
\* the JoinHandle dropped it (wait_actor_finished).
THEOREM ReturnsAreReleased == Spec => []ReturnMeansReleased
<1>1. Init => ReleasedAtEnd /\ Pending /\ Waits
  BY WorkerAssumption DEF Init, ReleasedAtEnd, Ended, Pending, Waits, NoEnvelope
<1>2. TypeOK /\ (ReleasedAtEnd /\ Pending /\ Waits) /\ [Next]_vars => (ReleasedAtEnd /\ Pending /\ Waits)'
  BY ReleasedNext, PendingNext, WaitsNext
<1>3. ReleasedAtEnd /\ Waits => ReturnMeansReleased
  BY DEF ReleasedAtEnd, Waits, ReturnMeansReleased
<1> QED  BY <1>1, <1>2, <1>3, TypeCorrect, PTL DEF Spec

-----------------------------------------------------------------------------
(* WorkerIpc *)

IpcBounds == MaxResident \in Nat \ {0} /\ MaxCaptures \in Nat /\ NoProfile \notin Profiles

\* Where the server is with a capture; where it waits for a worker that is in no table; where
\* the profile it serves has no worker in the table, and where it has one.
Capturing == {"Look", "Settle", "Restart", "Room", "Evict", "Spawn", "Start", "Dismiss", "Navigate",
              "Rotate", "Capture", "Remove", "Renew"}
Outside == {"Start", "Dismiss", "Evict", "Drop"}
Without == {"Room", "Evict", "Spawn", "Start", "Dismiss"}
With == {"Settle", "Restart", "Navigate", "Rotate", "Capture", "Remove", "Renew"}
Good == {"Ok", "TooLarge"}
Capturer == server.at \in Capturing \/ (server.at = "Reply" /\ server.request.kind = "Capture")

IpcShape ==
    /\ pipe \in {"Open", "Closed"} /\ server \in Servers
    /\ resident \in [Profiles -> Slots \cup {NoWorker}]
    /\ used \in [Profiles -> Nat] /\ ticks \in 0..MaxCaptures
    /\ held \in [Slots -> [life : Workers, profile : Profiles \cup {NoProfile}, failed : BOOLEAN]]
    /\ lastServed \in Profiles \cup {NoProfile}
    /\ server.at \in Capturing => server.request.kind = "Capture"

\* Each worker is in the table for its profile, or the one the server waits for.
Tabled ==
    /\ \A p \in Profiles : resident[p] # NoWorker =>
          /\ held[resident[p]].profile = p
          /\ LifePhase(resident[p]) \in {"ready", "degraded", "restarting"}
          /\ held[resident[p]].failed => server.at = "Remove" /\ server.request.profile = p
    /\ \A w \in Slots :
          IF LifePhase(w) = "released" THEN ~ held[w].failed
          ELSE /\ held[w].profile \in Profiles
               /\ \/ resident[held[w].profile] = w
                  \/ server.at \in Outside /\ server.worker = w
                     /\ resident[held[w].profile] = NoWorker
    /\ server.at = "Start" =>
          /\ server.worker \in Slots
          /\ LifePhase(server.worker) \in {"starting", "ready", "degraded"}
          /\ held[server.worker].profile = server.request.profile /\ ~ held[server.worker].failed
    /\ server.at \in Without => resident[server.request.profile] = NoWorker
    /\ server.at \in With => resident[server.request.profile] # NoWorker

\* How many there are.
Counted ==
    /\ IsFiniteSet(Residents)
    /\ Cardinality(Residents) <= MaxResident
    /\ server.at \in Outside \cup {"Spawn"} => Cardinality(Residents) < MaxResident
    /\ server.at = "Done" => Residents = {}

\* Who was served last was used last, but for the profile that is being served.
Recent ==
    /\ \A q \in Profiles : used[q] <= ticks
    /\ Capturer => \A q \in Profiles : q # server.request.profile => used[q] < ticks
    /\ (server.at \in {"Dismiss", "Remove"}) => server.answer \notin Good
    /\ (server.at \in {"Navigate", "Rotate", "Capture"}) => used[server.request.profile] = ticks
    /\ (server.at = "Reply" /\ server.request.kind = "Capture") =>
          IF server.answer \in Good
          THEN resident[server.request.profile] # NoWorker /\ used[server.request.profile] = ticks
          ELSE resident[server.request.profile] = NoWorker
    /\ (lastServed # NoProfile /\ MaxResident > 1 /\ server.at \notin {"Drain", "Drop", "Done"}) =>
          \/ Capturer /\ server.request.profile = lastServed
          \/ /\ resident[lastServed] # NoWorker
             /\ \A q \in Profiles \ {lastServed} :
                   (resident[q] # NoWorker /\ ~ (Capturer /\ q = server.request.profile)) =>
                       used[q] < used[lastServed]

IpcInv == IpcShape /\ Tabled /\ Counted /\ Recent

\* What the events in a worker's life make of it.
LEMMA Lives ==
  ASSUME NEW x \in Workers
  PROVE  /\ \A y \in Started(x) \cup Restarted(x) :
               y \in Workers /\ x.phase \in {"starting", "restarting"}
               /\ y.phase \in {"ready", "degraded"}
         /\ \A y \in Stopped(x) \cup Released(x) :
               y \in Workers /\ x.phase \in {"closing", "stopped"}
               /\ y.phase \in {"stopped", "released"}
         /\ \A y \in Closing(x) : y \in Workers /\ y.phase = "closing"
         /\ \A y \in Restarting(x) : y \in Workers /\ y.phase = "restarting"
         /\ \A y \in Degraded(x) : y \in Workers /\ y.phase = "degraded"
         /\ Spawned \in Workers /\ Spawned.phase = "starting"
         /\ Free \in Workers /\ Free.phase = "released"
<1>0. /\ x.live \in BOOLEAN /\ x.condemned \in BOOLEAN
      /\ \A phase \in Phases, l \in BOOLEAN :
            Turned(x, phase, l) \in Workers /\ Turned(x, phase, l).phase = phase
  BY DEF Workers, Turned
<1>1. \A y \in Started(x) \cup Restarted(x) :
         y \in Workers /\ x.phase \in {"starting", "restarting"}
         /\ y.phase \in {"ready", "degraded"}
  <2>1. \A y \in Started(x) :
           y \in Workers /\ x.phase \in {"starting", "restarting"}
           /\ y.phase \in {"ready", "degraded"}
    <3>1. \A y \in [phase : {"degraded"}, condemned : {TRUE}, live : BOOLEAN] :
             y \in Workers /\ y.phase = "degraded"
      BY DEF Workers, Phases
    <3>2. \A y \in Started(x) :
             /\ x.phase = "starting"
             /\ \/ y = Turned(x, "ready", TRUE)
                \/ y \in [phase : {"degraded"}, condemned : {TRUE}, live : BOOLEAN]
      BY DEF Started
    <3> QED BY <1>0, <3>1, <3>2 DEF Phases
  <2>2. \A y \in Restarted(x) :
           y \in Workers /\ x.phase \in {"starting", "restarting"}
           /\ y.phase \in {"ready", "degraded"}
    BY <1>0 DEF Restarted, Phases
  <2> QED BY <2>1, <2>2
<1>2. \A y \in Stopped(x) \cup Released(x) :
         y \in Workers /\ x.phase \in {"closing", "stopped"} /\ y.phase \in {"stopped", "released"}
  <2>1. \A y \in Stopped(x) :
           y \in Workers /\ x.phase \in {"closing", "stopped"}
           /\ y.phase \in {"stopped", "released"}
    BY <1>0 DEF Stopped, Phases
  <2>2. \A y \in Released(x) :
           y \in Workers /\ x.phase \in {"closing", "stopped"}
           /\ y.phase \in {"stopped", "released"}
    BY <1>0 DEF Released, Phases
  <2> QED BY <2>1, <2>2
<1>3. \A y \in Closing(x) : y \in Workers /\ y.phase = "closing"
  BY <1>0 DEF Closing, Phases
<1>4. /\ \A y \in Restarting(x) : y \in Workers /\ y.phase = "restarting"
      /\ \A y \in Degraded(x) : y \in Workers /\ y.phase = "degraded"
  BY <1>0 DEF Restarting, Degraded, Phases
<1>5. Spawned \in Workers /\ Spawned.phase = "starting" /\ Free \in Workers
      /\ Free.phase = "released"
  BY DEF Spawned, Free, Workers, Phases
<1> QED BY <1>1, <1>2, <1>3, <1>4, <1>5

\* No worker yet.
LEMMA IpcStarts == IpcBounds /\ IpcInit => IpcInv
<1> SUFFICES ASSUME IpcBounds, IpcInit PROVE IpcInv
  OBVIOUS
<1>1. Residents = {} /\ IsFiniteSet(Residents) /\ Cardinality(Residents) = 0
  BY FS_EmptySet DEF IpcInit, Residents
<1>2. IpcShape
  BY DEF IpcInit, IpcBounds, IpcShape, Servers, Ats, Waiting, Controls, Captures, Statuses, Free,
     Workers, Phases,
     Capturing
<1>3. Tabled
  BY DEF IpcInit, IpcBounds, Tabled, Waiting, Free, LifePhase, Life, Outside, Without, With
<1>4. Counted
  BY <1>1 DEF IpcBounds, IpcInit, Waiting, Counted, Outside
<1>5. Recent
  BY DEF IpcInit, Recent, Waiting, Capturer, Capturing
<1> QED BY <1>2, <1>3, <1>4, <1>5 DEF IpcInv

\* The workers in the table, and all of them.
LEMMA WorkersCounted ==
  ASSUME IpcBounds, IpcInv
  PROVE  /\ IsFiniteSet(Held)
         /\ Cardinality(Held) <= MaxResident
         /\ server.at = "Spawn" => Slots \ Held # {}
         /\ \A w, v \in Held : held[w].profile = held[v].profile => w = v
<1> DEFINE T == {resident[p] : p \in Residents}
           O == IF server.at \in Outside THEN {server.worker} ELSE {}
<1>1. IsFiniteSet(Residents) /\ Cardinality(Residents) \in Nat
  BY FS_CardinalityType DEF IpcInv, Counted
<1>2. IsFiniteSet(T) /\ Cardinality(T) <= Cardinality(Residents) /\ Cardinality(T) \in Nat
  <2> DEFINE f == [p \in Residents |-> resident[p]]
  <2>1. f \in Surjection(Residents, T)
    BY DEF Surjection
  <2> QED BY <1>1, <2>1, FS_Surjection, FS_CardinalityType
<1>3. Held \subseteq T \cup O
  <2> SUFFICES ASSUME NEW w \in Held PROVE w \in T \cup O
    OBVIOUS
  <2>1. w \in Slots /\ LifePhase(w) # "released"
    BY DEF Held
  <2>2. CASE resident[held[w].profile] = w
    <3>1. held[w].profile \in Residents
      BY <2>1, <2>2 DEF IpcInv, Tabled, Residents, Slots, NoWorker
    <3> QED BY <2>2, <3>1
  <2>3. CASE server.at \in Outside /\ server.worker = w
    BY <2>3
  <2> QED BY <2>1, <2>2, <2>3 DEF IpcInv, Tabled
<1>4. IsFiniteSet(O) /\ Cardinality(O) = IF server.at \in Outside THEN 1 ELSE 0
  BY FS_Singleton, FS_EmptySet
<1> HIDE DEF T, O
<1>5. IsFiniteSet(T \cup O) /\ Cardinality(T \cup O) <= Cardinality(T) + Cardinality(O)
  <2>1. /\ IsFiniteSet(T \cup O)
        /\ Cardinality(T \cup O) = Cardinality(T) + Cardinality(O) - Cardinality(T \cap O)
    BY <1>2, <1>4, FS_Union
  <2>2. Cardinality(T \cap O) \in Nat
    BY <1>2, FS_Intersection, FS_CardinalityType
  <2>3. Cardinality(O) \in Nat
    BY <1>4
  <2> QED BY <1>2, <2>1, <2>2, <2>3
<1>6. IsFiniteSet(Held) /\ Cardinality(Held) <= Cardinality(T \cup O) /\ Cardinality(Held) \in Nat
      /\ Cardinality(T \cup O) \in Nat
  BY <1>3, <1>5, FS_Subset, FS_CardinalityType
<1>7. Cardinality(Held) <= MaxResident
  BY <1>1, <1>2, <1>4, <1>5, <1>6 DEF IpcInv, Counted, IpcBounds
<1>8. Slots \ Held # {}
  <2>1. Cardinality(Slots) = MaxResident + 1
    <3>1. MaxResident + 1 \in Nat /\ 1 \in Int /\ MaxResident + 1 \in Int
      BY DEF IpcBounds
    <3>2. Cardinality(1..MaxResident + 1) =
             IF 1 > MaxResident + 1 THEN 0 ELSE (MaxResident + 1) - 1 + 1
      BY <3>1, FS_Interval
    <3> QED BY <3>1, <3>2 DEF Slots, IpcBounds
  <2>2. Held \subseteq Slots
    BY DEF Held
  <2>3. ASSUME Slots \ Held = {} PROVE FALSE
    <3>1. Held = Slots
      BY <2>2, <2>3
    <3> QED BY <1>6, <1>7, <2>1, <3>1 DEF IpcBounds
  <2> QED BY <2>3
<1>9. \A w, v \in Held : held[w].profile = held[v].profile => w = v
  BY DEF Held, IpcInv, Tabled, Slots, NoWorker
<1> QED BY <1>6, <1>7, <1>8, <1>9

\* The server moves on, the workers stay.
LEMMA TablesStay ==
  ASSUME IpcInv, UNCHANGED <<resident, held>>,
         server'.request = server.request \/ server'.at \in {"Look", "Reply", "Drain", "Read"},
         server'.at \in Outside => FALSE,
         server.at \in Outside => IsReleased,
         server'.at \in Without => server.at \in Without,
         server'.at \in With => server.at \in With \/ resident[server'.request.profile] # NoWorker,
         server.at = "Remove" => server'.at = "Remove",
         server'.at = "Spawn" => Cardinality(Residents) < MaxResident,
         server'.at = "Done" => Residents = {}
  PROVE  Tabled' /\ Counted'
<1>1. Residents' = Residents
  BY DEF Residents
<1>2. Counted'
  BY <1>1 DEF IpcInv, Counted, Outside
<1>3. \A w \in Slots : LifePhase(w)' = LifePhase(w)
  BY DEF LifePhase, Life
<1>4. \A w \in Slots : LifePhase(w) = "released" \/ resident[held[w].profile] = w
  BY DEF IpcInv, Tabled, IsReleased, Held
<1>5. Tabled'
  BY <1>3, <1>4 DEF IpcInv, IpcShape, Tabled, Outside, Without, With, LifePhase, Life
<1> QED BY <1>2, <1>5

\* A request is read.
LEMMA ReadsKeep ==
  ASSUME IpcBounds, IpcInv, Reads
  PROVE  IpcInv'
<1>1. PICK request \in Captures \cup Controls :
          /\ server' = [Waiting EXCEPT
                !.request = request,
                !.at = CASE request.kind = "Capture" -> "Look" [] request.kind = "Cut" -> "Drain"
                         [] OTHER -> "Reply",
                !.answer = CASE request.kind = "Invalid" -> "Invalid"
                             [] request.kind = "Malformed" -> "Protocol" [] OTHER -> "Ok"]
          /\ request.kind = "Capture" => ticks < MaxCaptures
          /\ ticks' = IF request.kind = "Capture" THEN ticks + 1 ELSE ticks
  BY DEF Reads
<1>2. server.at = "Read" /\ UNCHANGED <<pipe, lastServed, resident, used, held>>
  BY DEF Reads, talk
<1>3. /\ server' \in Servers /\ server'.request = request
         /\ server'.at \in {"Look", "Drain", "Reply"}
      /\ server'.at = "Look" <=> request.kind = "Capture"
  BY <1>1 DEF Waiting, Servers, Ats, Statuses, Captures, Controls, NoWorker
<1>4. IpcShape'
  BY <1>1, <1>2, <1>3 DEF IpcInv, IpcShape, IpcBounds, Capturing
<1>5. Tabled' /\ Counted'
  BY <1>2, <1>3, TablesStay DEF Outside, Without, With
<1>6. Recent'
  BY <1>1, <1>2, <1>3 DEF IpcInv, IpcShape, Recent, Capturer, Capturing
<1> QED BY <1>4, <1>5, <1>6 DEF IpcInv

\* It is answered.
LEMMA RepliesKeep ==
  ASSUME IpcBounds, IpcInv, Replies
  PROVE  IpcInv'
<1>1. /\ server.at = "Reply" /\ UNCHANGED <<pipe, resident, used, ticks, held>>
      /\ server' = Waiting \/ server' = [Waiting EXCEPT !.at = "Drain"]
  BY DEF Replies, registry
<1>2. server' \in Servers /\ server'.at \in {"Read", "Drain"} /\ server'.request.kind = "Health"
  BY <1>1 DEF Waiting, Servers, Ats, Statuses, Captures, Controls, NoWorker
<1>3. \/ lastServed' = lastServed
      \/ /\ server.request.kind = "Capture"
         /\ \/ server.answer \in Good /\ lastServed' = server.request.profile
            \/ lastServed' = NoProfile
  BY DEF Replies, Good
<1>4. server'.at = "Read" /\ server.request.kind = "Capture" =>
          \/ server.answer \in Good /\ lastServed' = server.request.profile
          \/ server.answer \notin Good /\ lastServed' = NoProfile
          \/ server.answer \notin Good /\ lastServed' = lastServed
             /\ lastServed # server.request.profile
  <2> SUFFICES ASSUME server'.at = "Read", server.request.kind = "Capture"
               PROVE  \/ server.answer \in Good /\ lastServed' = server.request.profile
                      \/ server.answer \notin Good /\ lastServed' = NoProfile
                      \/ /\ server.answer \notin Good /\ lastServed' = lastServed
                         /\ lastServed # server.request.profile
    OBVIOUS
  <2>1. pipe = "Open"
    BY DEF Replies, Waiting
  <2>2. server.answer \in Good => lastServed' = server.request.profile
    BY <2>1 DEF Replies, Good
  <2>3. server.answer \notin Good =>
            lastServed' = IF lastServed = server.request.profile THEN NoProfile ELSE lastServed
    BY <2>1 DEF Replies, Good
  <2> QED BY <2>2, <2>3
<1>5. IpcShape'
  BY <1>1, <1>2, <1>3 DEF IpcInv, IpcShape, Capturing, Servers, Captures, Controls
<1>6. Tabled' /\ Counted'
  BY <1>1, <1>2, TablesStay DEF Outside, Without, With
<1>7. Recent'
  <2>1. CASE server'.at = "Drain"
    BY <1>1, <1>2, <2>1 DEF IpcInv, Recent, Capturer, Capturing
  <2>2. CASE server'.at = "Read" /\ server.request.kind = "Capture"
    <3>1. server.request.profile \in Profiles
      BY <2>2 DEF IpcInv, IpcShape, Servers, Captures, Controls
    <3> QED BY <1>1, <1>2, <1>4, <2>2, <3>1 DEF IpcInv, IpcShape, Recent, Capturer, Capturing
  <2>3. CASE server'.at = "Read" /\ server.request.kind # "Capture"
    BY <1>1, <1>2, <1>3, <2>3 DEF IpcInv, IpcShape, Recent, Capturer, Capturing
  <2> QED BY <1>2, <2>1, <2>2, <2>3
<1> QED BY <1>5, <1>6, <1>7 DEF IpcInv

\* The server's task goes on by itself.
LEMMA WaitsKeep ==
  ASSUME IpcBounds, IpcInv, Ends \/ Drops \/ Evicted \/ Dismissed \/ Succeeds \/ Leaves
  PROVE  IpcInv'
<1>1. UNCHANGED <<lastServed, resident, used, ticks, held>> /\ pipe' \in {"Open", "Closed"}
  BY DEF Ends, Drops, Evicted, Dismissed, Succeeds, Leaves, registry, talk, IpcInv, IpcShape
<1>2. CASE Leaves
  <2>1. server' = server /\ Residents' = Residents
    BY <1>1, <1>2 DEF Leaves, Residents
  <2> QED BY <1>1, <2>1 DEF IpcInv, IpcShape, Tabled, Counted, Recent, Capturer, LifePhase, Life
<1>3. CASE Ends \/ Drops
  <2>1. server' = [server EXCEPT !.at = "Drain"] /\ server.at \in {"Read", "Drop"}
        /\ (server.at = "Drop" => IsReleased)
    BY <1>3 DEF Ends, Drops, Goes
  <2>2. server' \in Servers /\ server'.at = "Drain" /\ server'.request = server.request
    BY <2>1 DEF IpcInv, IpcShape, Servers, Ats
  <2>3. Tabled' /\ Counted'
    BY <1>1, <2>1, <2>2, TablesStay DEF Outside, Without, With
  <2> QED BY <1>1, <2>1, <2>2, <2>3 DEF IpcInv, IpcShape, Recent, Capturer, Capturing
<1>4. CASE Evicted
  <2>1. server' = [server EXCEPT !.at = "Room"] /\ server.at = "Evict" /\ IsReleased
    BY <1>4 DEF Evicted, Goes
  <2>2. server' \in Servers /\ server'.at = "Room" /\ server'.request = server.request
    BY <2>1 DEF IpcInv, IpcShape, Servers, Ats
  <2>3. Tabled' /\ Counted'
    BY <1>1, <2>1, <2>2, TablesStay DEF Outside, Without, With
  <2> QED BY <1>1, <2>1, <2>2, <2>3 DEF IpcInv, IpcShape, Recent, Capturer, Capturing
<1>5. CASE Dismissed
  <2>1. server' = [server EXCEPT !.at = "Reply", !.answer = server.answer]
        /\ server.at = "Dismiss" /\ IsReleased
    BY <1>5 DEF Dismissed, Answers
  <2>2. server' \in Servers /\ server'.at = "Reply" /\ server'.request = server.request
        /\ server'.answer = server.answer
    BY <2>1 DEF IpcInv, IpcShape, Servers, Ats
  <2>3. Tabled' /\ Counted'
    BY <1>1, <2>1, <2>2, TablesStay DEF Outside, Without, With
  <2>4. server.request.kind = "Capture" /\ server.answer \notin Good
        /\ resident[server.request.profile] = NoWorker
    BY <2>1 DEF IpcInv, IpcShape, Tabled, Recent, Capturing, Without
  <2> QED BY <1>1, <2>1, <2>2, <2>3, <2>4 DEF IpcInv, IpcShape, Recent, Capturer, Capturing
<1>6. CASE Succeeds
  <2>1. /\ server.at \in Asks
        /\ server' = [server EXCEPT !.at = "Capture"] \/
           (/\ server.at = "Capture"
            /\ \E status \in Good : server' = [server EXCEPT !.at = "Reply", !.answer = status])
    BY <1>6 DEF Succeeds, Goes, Answers, Good
  <2>2. /\ server' \in Servers /\ server'.request = server.request
        /\ server'.at = "Capture" \/ (server'.at = "Reply" /\ server'.answer \in Good)
    BY <2>1 DEF IpcInv, IpcShape, Servers, Ats, Good, Statuses
  <2>3. server.at \in With /\ server.at \in Capturing /\ server.at \notin Outside
        /\ server.at # "Remove"
    BY <2>1 DEF Asks, With, Capturing, Outside
  <2>4. Tabled' /\ Counted'
    BY <1>1, <2>2, <2>3, TablesStay DEF Outside, Without, With
  <2>5. server.request.kind = "Capture" /\ resident[server.request.profile] # NoWorker
        /\ used[server.request.profile] = ticks
    BY <2>1, <2>3 DEF IpcInv, IpcShape, Tabled, Recent, Asks
  <2> QED BY <1>1, <2>1, <2>2, <2>3, <2>4, <2>5
             DEF IpcInv, IpcShape, Recent, Capturer, Capturing, Asks
<1> QED BY <1>2, <1>3, <1>4, <1>5, <1>6

\* A worker becomes something else.
LEMMA BecomesOf ==
  ASSUME IpcInv, NEW w \in Slots, NEW lives \in SUBSET Workers, Becomes(w, lives)
  PROVE  /\ held' \in [Slots ->
                          [life : Workers, profile : Profiles \cup {NoProfile}, failed : BOOLEAN]]
         /\ \A v \in Slots \ {w} : held'[v] = held[v]
         /\ held'[w].life \in Workers
         /\ \/ held'[w].life \in lives /\ held'[w].life.phase # "released"
               /\ held'[w].profile = held[w].profile /\ held'[w].failed = held[w].failed
            \/ held'[w].life.phase = "released" /\ ~ held'[w].failed
               /\ \E life \in lives : life.phase = "released"
<1>1. PICK life \in lives :
          held' = [held EXCEPT ![w] =
                    IF life.phase = "released"
                    THEN [life |-> Free, profile |-> NoProfile, failed |-> FALSE]
                    ELSE [@ EXCEPT !.life = life]]
  BY DEF Becomes
<1>2. Free \in Workers /\ Free.phase = "released"
  BY DEF Free, Workers, Phases
<1>3. held \in [Slots -> [life : Workers, profile : Profiles \cup {NoProfile}, failed : BOOLEAN]]
  BY DEF IpcInv, IpcShape
<1>4. CASE life.phase = "released"
  <2>1. held' = [held EXCEPT ![w] = [life |-> Free, profile |-> NoProfile, failed |-> FALSE]]
    BY <1>1, <1>4
  <2> QED BY <1>2, <1>3, <1>4, <2>1
<1>5. CASE life.phase # "released"
  <2>1. held' = [held EXCEPT ![w] = [held[w] EXCEPT !.life = life]]
    BY <1>1, <1>5
  <2>2. life \in Workers
    OBVIOUS
  <2>3. [held[w] EXCEPT !.life = life] \in
        [life : Workers, profile : Profiles \cup {NoProfile}, failed : BOOLEAN]
    BY <1>3, <2>2
  <2> QED BY <1>3, <1>5, <2>1, <2>2, <2>3
<1> QED BY <1>4, <1>5

\* A worker is taken out of the table and closed.
LEMMA ClosesKeep ==
  ASSUME IpcBounds, IpcInv, NEW p \in Residents, NEW at \in {"Drop", "Evict", "Dismiss"},
         NEW answer \in Statuses, Forgets(p), Closes(resident[p], at, answer),
         UNCHANGED <<pipe, lastServed, ticks>>,
         server.at \notin Outside,
         at \in {"Evict", "Dismiss"} =>
             /\ server.at \in Capturing
             /\ resident[server.request.profile] = NoWorker \/ p = server.request.profile,
         server.at = "Remove" => p = server.request.profile
  PROVE  /\ IpcShape' /\ Tabled' /\ Counted'
         /\ server'.at = at /\ server'.request = server.request /\ server'.answer = answer
         /\ p \in Profiles /\ used'[p] = 0 /\ resident'[p] = NoWorker
         /\ \A q \in Profiles \ {p} : used'[q] = used[q] /\ resident'[q] = resident[q]
<1> DEFINE w == resident[p]
<1>1. p \in Profiles /\ w \in Slots /\ w # NoWorker
  BY DEF Residents, IpcInv, IpcShape
<1>2. Life(w) \in Workers
  BY <1>1 DEF Life, IpcInv, IpcShape
<1>3. Closing(Life(w)) \in SUBSET Workers /\ \A life \in Closing(Life(w)) : life.phase = "closing"
  BY <1>2, Lives
<1>4. Becomes(w, Closing(Life(w)))
  BY DEF Closes
<1>5. /\ held' \in [Slots ->
                       [life : Workers, profile : Profiles \cup {NoProfile}, failed : BOOLEAN]]
      /\ \A v \in Slots \ {w} : held'[v] = held[v]
      /\ held'[w].life.phase = "closing" /\ held'[w].profile = held[w].profile
  <2> HIDE DEF w
  <2> QED BY <1>1, <1>3, <1>4, BecomesOf
<1>6. /\ resident' = [resident EXCEPT ![p] = NoWorker] /\ used' = [used EXCEPT ![p] = 0]
      /\ resident' \in [Profiles -> Slots \cup {NoWorker}] /\ used' \in [Profiles -> Nat]
      /\ used'[p] = 0 /\ resident'[p] = NoWorker
      /\ \A q \in Profiles \ {p} : used'[q] = used[q] /\ resident'[q] = resident[q]
  BY <1>1 DEF Forgets, IpcInv, IpcShape
<1>7. /\ server' \in Servers /\ server'.at = at /\ server'.request = server.request
      /\ server'.answer = answer /\ server'.worker = w
  BY <1>1 DEF Closes, IpcInv, IpcShape, Servers, Ats
<1>8. IpcShape'
  BY <1>5, <1>6, <1>7 DEF IpcInv, IpcShape, Capturing
<1>9. Residents' = Residents \ {p}
  BY <1>1, <1>6 DEF Residents
<1>10. Counted'
  <2>1. IsFiniteSet(Residents) /\ Cardinality(Residents) \in Nat
        /\ Cardinality(Residents) <= MaxResident
    BY FS_CardinalityType DEF IpcInv, Counted
  <2>2. IsFiniteSet(Residents \ {p}) /\ Cardinality(Residents \ {p}) = Cardinality(Residents) - 1
    BY <2>1, FS_RemoveElement
  <2> QED BY <1>7, <1>9, <2>1, <2>2 DEF Counted, IpcBounds
<1>11. Tabled'
  <2>1. held[w].profile = p /\ \A q \in Profiles \ {p} : resident[q] # w
    BY <1>1 DEF IpcInv, Tabled
  <2>2. \A q \in Profiles : resident'[q] # NoWorker =>
          /\ q # p /\ resident[q] # NoWorker /\ resident'[q] = resident[q]
          /\ resident[q] \in Slots \ {w} /\ held'[resident[q]] = held[resident[q]]
    BY <1>1, <1>5, <1>6, <2>1 DEF IpcInv, IpcShape
  <2>3. \A q \in Profiles : resident'[q] # NoWorker =>
          /\ held'[resident'[q]].profile = q
          /\ held'[resident'[q]].life.phase \in {"ready", "degraded", "restarting"}
          /\ ~ held'[resident'[q]].failed
    BY <2>2 DEF IpcInv, Tabled, LifePhase, Life
  <2>4. \A v \in Slots :
          IF held'[v].life.phase = "released" THEN ~ held'[v].failed
          ELSE /\ held'[v].profile \in Profiles
               /\ \/ resident'[held'[v].profile] = v
                  \/ server'.at \in Outside /\ server'.worker = v
                     /\ resident'[held'[v].profile] = NoWorker
    <3> SUFFICES ASSUME NEW v \in Slots
                 PROVE IF held'[v].life.phase = "released" THEN ~ held'[v].failed
                       ELSE /\ held'[v].profile \in Profiles
                            /\ \/ resident'[held'[v].profile] = v
                               \/ server'.at \in Outside /\ server'.worker = v
                                  /\ resident'[held'[v].profile] = NoWorker
      OBVIOUS
    <3>1. CASE v = w
      BY <1>1, <1>5, <1>6, <1>7, <2>1, <3>1 DEF Outside
    <3>2. CASE v # w
      <4>1. held'[v] = held[v]
        BY <1>5, <3>2
      <4>2. IF held[v].life.phase = "released" THEN ~ held[v].failed
            ELSE held[v].profile \in Profiles /\ resident[held[v].profile] = v
        BY DEF IpcInv, Tabled, LifePhase, Life
      <4>3. held[v].life.phase # "released" => held[v].profile # p
        BY <3>2, <4>2
      <4> QED BY <1>6, <4>1, <4>2, <4>3
    <3> QED BY <3>1, <3>2
  <2>5. server'.at \in Without => resident'[server'.request.profile] = NoWorker
    <3> SUFFICES ASSUME at \in {"Evict", "Dismiss"}
                 PROVE  resident'[server.request.profile] = NoWorker
      BY <1>7 DEF Without
    <3>1. server.request.profile \in Profiles
      BY DEF IpcInv, IpcShape, Servers, Captures, Controls
    <3> QED BY <1>6, <3>1
  <2>6. server'.at # "Start" /\ server'.at \notin With
    BY <1>7 DEF With
  <2> QED BY <2>3, <2>4, <2>5, <2>6 DEF Tabled, LifePhase, Life
<1> QED BY <1>1, <1>6, <1>7, <1>8, <1>10, <1>11

\* The connection is over.
LEMMA DrainsKeep ==
  ASSUME IpcBounds, IpcInv, Drains
  PROVE  IpcInv'
<1>1. server.at = "Drain" /\ UNCHANGED <<pipe, lastServed, ticks>>
  BY DEF Drains, talk
<1>2. CASE Residents = {}
  <2>1. server' = [server EXCEPT !.at = "Done"] /\ UNCHANGED <<resident, used, held>>
    BY <1>2 DEF Drains, Goes
  <2>2. server' \in Servers /\ server'.at = "Done" /\ server'.request = server.request
    BY <2>1 DEF IpcInv, IpcShape, Servers, Ats
  <2>3. Tabled' /\ Counted'
    BY <1>1, <1>2, <2>1, <2>2, TablesStay DEF Outside, Without, With
  <2> QED BY <1>1, <2>1, <2>2, <2>3 DEF IpcInv, IpcShape, Recent, Capturer, Capturing
<1>3. CASE Residents # {}
  <2>1. PICK p \in Residents : Forgets(p) /\ Closes(resident[p], "Drop", server.answer)
    BY <1>3 DEF Drains
  <2>2. server.answer \in Statuses
    BY DEF IpcInv, IpcShape, Servers
  <2>3. /\ IpcShape' /\ Tabled' /\ Counted' /\ server'.at = "Drop"
        /\ p \in Profiles /\ used'[p] = 0
        /\ \A q \in Profiles \ {p} : used'[q] = used[q]
    BY <1>1, <2>1, <2>2, ClosesKeep DEF Outside
  <2>4. Recent'
    BY <1>1, <2>3 DEF IpcInv, IpcShape, Recent, Capturer, Capturing
  <2> QED BY <2>3, <2>4 DEF IpcInv
<1> QED BY <1>2, <1>3

\* A worker that cannot be used any more.
LEMMA RemovesKeep ==
  ASSUME IpcBounds, IpcInv, Removes
  PROVE  IpcInv'
<1> DEFINE at == IF server.at = "Renew" THEN "Evict" ELSE "Dismiss"
<1>1. server.at \in {"Renew", "Remove"} /\ UNCHANGED <<pipe, lastServed, ticks>>
      /\ Forgets(Profile) /\ Closes(resident[Profile], at, server.answer)
  BY DEF Removes, talk, Mine
<1>2. server.answer \in Statuses /\ Profile \in Profiles /\ Profile \in Residents
      /\ Profile = server.request.profile
  BY <1>1
     DEF IpcInv, IpcShape, Servers, Captures, Controls, Capturing, Tabled, With, Residents, Profile
<1>3. at \in {"Evict", "Dismiss"} /\ (at = "Dismiss" <=> server.at = "Remove")
  BY <1>1
<1> HIDE DEF at
<1>4. /\ IpcShape' /\ Tabled' /\ Counted' /\ server'.at = at /\ server'.request = server.request
      /\ server'.answer = server.answer
      /\ used'[Profile] = 0
      /\ \A q \in Profiles \ {Profile} : used'[q] = used[q] /\ resident'[q] = resident[q]
  BY <1>1, <1>2, <1>3, ClosesKeep DEF Outside, Capturing
<1>5. Recent'
  BY <1>1, <1>2, <1>3, <1>4 DEF IpcInv, IpcShape, Recent, Capturer, Capturing
<1> QED BY <1>4, <1>5 DEF IpcInv

\* Whoever was used longest ago makes room: not who was served last, if there is another.
LEMMA MakesRoomKeeps ==
  ASSUME IpcBounds, IpcInv, MakesRoom
  PROVE  IpcInv'
<1>1. server.at = "Room" /\ UNCHANGED <<pipe, lastServed, ticks>>
  BY DEF MakesRoom, talk
<1>2. CASE HasRoom
  <2>1. server' = [server EXCEPT !.at = "Spawn"] /\ UNCHANGED <<resident, used, held>>
    BY <1>2 DEF MakesRoom, Goes
  <2>2. server' \in Servers /\ server'.at = "Spawn" /\ server'.request = server.request
    BY <2>1 DEF IpcInv, IpcShape, Servers, Ats
  <2>3. Tabled' /\ Counted'
    BY <1>1, <1>2, <2>1, <2>2, TablesStay DEF Outside, Without, With, HasRoom
  <2> QED BY <1>1, <2>1, <2>2, <2>3 DEF IpcInv, IpcShape, Recent, Capturer, Capturing
<1>3. CASE ~ HasRoom
  <2>1. PICK p \in Residents : Oldest(p) /\ Forgets(p)
        /\ Closes(resident[p], "Evict", server.answer)
    BY <1>3 DEF MakesRoom
  <2>2. /\ server.answer \in Statuses /\ server.request.profile \in Profiles
        /\ resident[server.request.profile] = NoWorker
    BY <1>1 DEF IpcInv, IpcShape, Servers, Captures, Controls, Capturing, Tabled, Without
  <2>3. /\ IpcShape' /\ Tabled' /\ Counted' /\ server'.at = "Evict"
           /\ server'.request = server.request
        /\ p \in Profiles /\ used'[p] = 0 /\ resident'[p] = NoWorker
        /\ \A q \in Profiles \ {p} : used'[q] = used[q] /\ resident'[q] = resident[q]
    BY <1>1, <2>1, <2>2, ClosesKeep DEF Outside, Capturing
  <2>4. ASSUME p = lastServed, MaxResident > 1, lastServed # server.request.profile PROVE FALSE
    <3>1. /\ IsFiniteSet(Residents) /\ Cardinality(Residents) \in Nat
          /\ Cardinality(Residents) >= MaxResident
      BY <1>3, FS_CardinalityType DEF IpcInv, Counted, HasRoom, IpcBounds
    <3>2. Residents # {p}
      <4>1. Cardinality({p}) = 1
        BY FS_Singleton
      <4> QED BY <2>4, <3>1, <4>1 DEF IpcBounds
    <3>3. PICK q \in Residents : q # p
      BY <3>2
    <3>4. q \in Profiles /\ resident[q] # NoWorker /\ q # server.request.profile
      BY <2>2 DEF Residents
    <3>5. lastServed # NoProfile
      BY <2>3, <2>4 DEF IpcBounds
    <3>6. used[q] < used[p]
      BY <1>1, <2>4, <3>3, <3>4, <3>5 DEF IpcInv, Recent
    <3> QED BY <2>1, <2>3, <3>3, <3>4, <3>6 DEF Oldest, IpcInv, IpcShape
  <2>5. /\ \A q \in Profiles : used'[q] <= used[q] /\ used[q] \in Nat /\ used'[q] \in Nat
        /\ ticks \in Nat
    BY <2>3 DEF IpcInv, IpcShape
  <2>6. (lastServed # NoProfile /\ MaxResident > 1 /\ lastServed # server.request.profile) =>
           /\ resident'[lastServed] # NoWorker
           /\ \A q \in Profiles \ {lastServed} :
                 (resident'[q] # NoWorker /\ q # server.request.profile) =>
                     used'[q] < used'[lastServed]
    <3> SUFFICES ASSUME lastServed # NoProfile, MaxResident > 1, lastServed # server.request.profile
                 PROVE  /\ resident'[lastServed] # NoWorker
                        /\ \A q \in Profiles \ {lastServed} :
                             (resident'[q] # NoWorker /\ q # server.request.profile) =>
                                 used'[q] < used'[lastServed]
      OBVIOUS
    <3>1. p # lastServed /\ lastServed \in Profiles
      BY <2>4 DEF IpcInv, IpcShape
    <3>2. /\ resident[lastServed] # NoWorker
          /\ \A q \in Profiles \ {lastServed} :
                (resident[q] # NoWorker /\ q # server.request.profile) => used[q] < used[lastServed]
      BY <1>1 DEF IpcInv, Recent, Capturer
    <3> QED BY <2>3, <3>1, <3>2
  <2>7. Recent'
    <3>1. Capturer' /\ Capturer
      BY <1>1, <2>3 DEF Capturer, Capturing
    <3>2. /\ \A q \in Profiles : used'[q] <= ticks'
          /\ \A q \in Profiles : q # server'.request.profile => used'[q] < ticks'
      BY <1>1, <2>3, <2>5, <3>1 DEF IpcInv, Recent
    <3> QED BY <1>1, <2>3, <2>6, <3>1, <3>2 DEF Recent
  <2> QED BY <2>3, <2>7 DEF IpcInv
<1> QED BY <1>2, <1>3

\* The worker of the profile at hand, while the server waits for it.
LEMMA MineIs ==
  ASSUME IpcBounds, IpcInv, server.at \in Capturing
  PROVE  /\ Profile = server.request.profile /\ Profile \in Profiles
         /\ server.request.kind = "Capture"
         /\ Mine = resident[Profile]
         /\ Mine # NoWorker =>
               /\ Mine \in Slots /\ Life(Mine) \in Workers /\ held[Mine].profile = Profile
               /\ LifePhase(Mine) \in {"ready", "degraded", "restarting"}
               /\ \A q \in Profiles \ {Profile} : resident[q] # Mine
               /\ held[Mine].failed => server.at = "Remove"
         /\ server.at \in With => Mine # NoWorker
<1>1. Profile = server.request.profile /\ Profile \in Profiles /\ server.request.kind = "Capture"
  BY DEF IpcInv, IpcShape, Servers, Captures, Controls, Profile
<1> QED BY <1>1 DEF Mine, Life, IpcInv, IpcShape, Tabled, NoWorker, Slots

\* The worker of the profile at hand changes where it is.
LEMMA MineStays ==
  ASSUME IpcBounds, IpcInv, server.at \in Capturing, server.at \notin Outside, Mine # NoWorker,
         UNCHANGED <<resident, used, ticks, pipe, lastServed>>, server' \in Servers,
         server'.request = server.request, server'.at \in With,
         held' \in [Slots ->
                       [life : Workers, profile : Profiles \cup {NoProfile}, failed : BOOLEAN]],
         \A v \in Slots \ {Mine} : held'[v] = held[v],
         held'[Mine].life.phase \in {"ready", "degraded", "restarting"},
         held'[Mine].profile = held[Mine].profile,
         held'[Mine].failed => server'.at = "Remove"
  PROVE  IpcShape' /\ Tabled' /\ Counted'
<1>1. /\ Profile = server.request.profile /\ Profile \in Profiles /\ server.request.kind = "Capture"
      /\ Mine = resident[Profile] /\ Mine \in Slots /\ held[Mine].profile = Profile
      /\ \A q \in Profiles \ {Profile} : resident[q] # Mine
  BY MineIs
<1>2. IpcShape'
  BY <1>1 DEF IpcInv, IpcShape
<1>3. Residents' = Residents /\ server'.at \notin Outside \cup {"Spawn", "Done"}
  BY DEF Residents, With, Outside
<1>4. Counted'
  BY <1>3 DEF IpcInv, Counted
<1>5. Tabled'
  <2>1. \A q \in Profiles : resident'[q] # NoWorker =>
          /\ held'[resident'[q]].profile = q
          /\ held'[resident'[q]].life.phase \in {"ready", "degraded", "restarting"}
          /\ held'[resident'[q]].failed => server'.at = "Remove" /\ server'.request.profile = q
    <3> SUFFICES ASSUME NEW q \in Profiles, resident[q] # NoWorker
                 PROVE  /\ held'[resident[q]].profile = q
                        /\ held'[resident[q]].life.phase \in {"ready", "degraded", "restarting"}
                        /\ held'[resident[q]].failed => server'.at = "Remove"
                           /\ server'.request.profile = q
      OBVIOUS
    <3>1. CASE q = Profile
      BY <1>1, <3>1
    <3>2. CASE q # Profile
      <4>1. held'[resident[q]] = held[resident[q]]
        BY <1>1, <3>2 DEF IpcInv, IpcShape
      <4> QED BY <1>1, <3>2, <4>1 DEF IpcInv, Tabled, LifePhase, Life
    <3> QED BY <3>1, <3>2
  <2>2. \A v \in Slots :
          IF held'[v].life.phase = "released" THEN ~ held'[v].failed
          ELSE held'[v].profile \in Profiles /\ resident'[held'[v].profile] = v
    <3> SUFFICES ASSUME NEW v \in Slots
                 PROVE IF held'[v].life.phase = "released" THEN ~ held'[v].failed
                       ELSE held'[v].profile \in Profiles /\ resident'[held'[v].profile] = v
      OBVIOUS
    <3>1. CASE v = Mine
      BY <1>1, <3>1
    <3>2. CASE v # Mine
      BY <3>2 DEF IpcInv, Tabled, LifePhase, Life
    <3> QED BY <3>1, <3>2
  <2>3. resident'[server'.request.profile] # NoWorker
    BY <1>1
  <2>4. server'.at # "Start" /\ server'.at \notin Without
    BY DEF With, Without
  <2> QED BY <2>1, <2>2, <2>3, <2>4 DEF Tabled, LifePhase, Life
<1> QED BY <1>2, <1>4, <1>5

\* What was used last, when the server goes on with the same request.
LEMMA RecentStays ==
  ASSUME IpcBounds, IpcInv, server.at \in Capturing, server'.at \in Capturing,
         UNCHANGED <<resident, used, ticks, lastServed>>,
         server'.request = server.request,
         server'.at \in {"Navigate", "Rotate", "Capture"} =>
             server.at \in {"Navigate", "Rotate", "Capture"},
         server'.at \in {"Dismiss", "Remove"} => server'.answer \notin Good
  PROVE  Recent'
<1>1. Capturer' /\ Capturer
  BY DEF Capturer
<1>2. server.at \notin {"Drain", "Drop", "Done", "Reply"} /\ server'.at # "Reply"
  BY DEF Capturing
<1> QED BY <1>1, <1>2 DEF IpcInv, Recent

\* A navigation renews the browser.
LEMMA RenewsFirstKeeps ==
  ASSUME IpcBounds, IpcInv, RenewsFirst
  PROVE  IpcInv'
<1>1. /\ server.at = "Navigate" /\ server' = [server EXCEPT !.at = "Rotate"]
      /\ UNCHANGED <<resident, used, ticks, pipe, lastServed>>
      /\ Becomes(Mine, Restarting(Life(Mine)))
  BY DEF RenewsFirst, Goes, talk, registry
<1>2. server' \in Servers /\ server'.at = "Rotate" /\ server'.request = server.request
  BY <1>1 DEF IpcInv, IpcShape, Servers, Ats
<1>3. server.at \in Capturing /\ server.at \in With /\ server.at \notin Outside
  BY <1>1 DEF Capturing, With, Outside
<1>4. Mine # NoWorker /\ Mine \in Slots /\ Life(Mine) \in Workers /\ ~ held[Mine].failed
  BY <1>1, <1>3, MineIs
<1>5. Restarting(Life(Mine)) \in SUBSET Workers
      /\ \A life \in Restarting(Life(Mine)) : life.phase = "restarting"
  BY <1>4, Lives
<1>6. /\ held' \in [Slots ->
                       [life : Workers, profile : Profiles \cup {NoProfile}, failed : BOOLEAN]]
      /\ \A v \in Slots \ {Mine} : held'[v] = held[v]
      /\ held'[Mine].life.phase = "restarting"
      /\ held'[Mine].profile = held[Mine].profile /\ held'[Mine].failed = held[Mine].failed
  BY <1>1, <1>4, <1>5, BecomesOf
<1>7. IpcShape' /\ Tabled' /\ Counted'
  BY <1>1, <1>2, <1>3, <1>4, <1>6, MineStays DEF With
<1>8. Recent'
  BY <1>1, <1>2, <1>3, RecentStays DEF Capturing
<1> QED BY <1>7, <1>8 DEF IpcInv

\* A request fails.
LEMMA CommandFailsKeeps ==
  ASSUME IpcBounds, IpcInv, CommandFails
  PROVE  IpcInv'
<1>1. /\ server.at \in Asks /\ server' = [server EXCEPT !.at = "Remove", !.answer = "CaptureFailed"]
      /\ UNCHANGED <<resident, used, ticks, pipe, lastServed>>
      /\ LifePhase(Mine) \in {"ready", "degraded"}
  BY DEF CommandFails, talk, registry
<1>2. server' \in Servers /\ server'.at = "Remove" /\ server'.request = server.request
      /\ server'.answer \notin Good
  BY <1>1 DEF IpcInv, IpcShape, Servers, Ats, Statuses, Good
<1>3. server.at \in Capturing /\ server.at \in With /\ server.at \notin Outside
  BY <1>1 DEF Capturing, With, Outside, Asks
<1>4. Mine # NoWorker /\ Mine \in Slots /\ Life(Mine) \in Workers
  BY <1>1, <1>3, MineIs
<1>5. PICK life \in {Life(Mine)} \cup Degraded(Life(Mine)) :
          held' = [held EXCEPT ![Mine].life = life, ![Mine].failed = TRUE]
  BY DEF CommandFails
<1>6. life \in Workers /\ life.phase \in {"ready", "degraded"}
  BY <1>1, <1>4, Lives DEF LifePhase
<1>7. /\ held' \in [Slots ->
                       [life : Workers, profile : Profiles \cup {NoProfile}, failed : BOOLEAN]]
      /\ \A v \in Slots \ {Mine} : held'[v] = held[v]
      /\ held'[Mine].life.phase \in {"ready", "degraded"}
      /\ held'[Mine].profile = held[Mine].profile
  BY <1>4, <1>5, <1>6 DEF IpcInv, IpcShape
<1>8. IpcShape' /\ Tabled' /\ Counted'
  BY <1>1, <1>2, <1>3, <1>4, <1>7, MineStays DEF With
<1>9. Recent'
  BY <1>1, <1>2, <1>3, RecentStays DEF Capturing
<1> QED BY <1>8, <1>9 DEF IpcInv

\* The worker is asked: its profile is the one used last.
LEMMA UsesKeeps ==
  ASSUME IpcBounds, IpcInv, Uses, server.at \in {"Look", "Settle", "Restart"}, Mine # NoWorker,
         UNCHANGED <<resident, held, ticks, pipe, lastServed>>
  PROVE  IpcInv'
<1>1. server' = [server EXCEPT !.at = "Navigate"] /\ used' = [used EXCEPT ![Profile] = ticks]
  BY DEF Uses, Goes
<1>2. server' \in Servers /\ server'.at = "Navigate" /\ server'.request = server.request
  BY <1>1 DEF IpcInv, IpcShape, Servers, Ats
<1>3. server.at \in Capturing /\ server.at \notin Outside
  BY DEF Capturing, Outside
<1>4. Profile = server.request.profile /\ Profile \in Profiles /\ resident[Profile] # NoWorker
      /\ server.request.kind = "Capture"
  BY <1>3, MineIs
<1>5. used' \in [Profiles -> Nat] /\ used'[Profile] = ticks
      /\ \A q \in Profiles \ {Profile} : used'[q] = used[q]
  BY <1>1, <1>4 DEF IpcInv, IpcShape, IpcBounds
<1>6. IpcShape'
  BY <1>2, <1>4, <1>5 DEF IpcInv, IpcShape
<1>7. Tabled' /\ Counted'
  BY <1>2, <1>3, <1>4, TablesStay DEF Outside, Without, With
<1>8. Recent'
  <2>1. Capturer' /\ Capturer
    BY <1>2, <1>3 DEF Capturer, Capturing
  <2>2. \A q \in Profiles : used'[q] <= ticks /\ (q # Profile => used'[q] < ticks)
    BY <1>4, <1>5, <2>1 DEF IpcInv, IpcShape, Recent
  <2>3. (lastServed # NoProfile /\ MaxResident > 1 /\ lastServed # Profile) =>
           /\ resident[lastServed] # NoWorker
           /\ \A q \in Profiles \ {lastServed} :
                 (resident[q] # NoWorker /\ q # Profile) => used'[q] < used'[lastServed]
    BY <1>4, <1>5, <2>1 DEF IpcInv, IpcShape, Recent
  <2>4. lastServed \in Profiles \cup {NoProfile}
    BY DEF IpcInv, IpcShape
  <2> QED BY <1>2, <1>4, <1>5, <2>1, <2>2, <2>3, <2>4 DEF Recent
<1> QED BY <1>6, <1>7, <1>8 DEF IpcInv

\* The worker there is.
LEMMA LooksKeep ==
  ASSUME IpcBounds, IpcInv, Looks
  PROVE  IpcInv'
<1>1. server.at = "Look" /\ UNCHANGED <<pipe, lastServed, resident, ticks>>
  BY DEF Looks, talk
<1>2. server.at \in Capturing /\ server.at \notin Outside
  BY <1>1 DEF Capturing, Outside
<1>3. CASE Mine # NoWorker /\ LifePhase(Mine) = "ready"
  BY <1>1, <1>3, UsesKeeps DEF Looks
<1>4. ASSUME NEW at \in {"Room", "Renew", "Settle"}, Goes(at), UNCHANGED <<used, held>>,
             at = "Room" <=> Mine = NoWorker
      PROVE  IpcInv'
  <2>1. server' \in Servers /\ server'.at = at /\ server'.request = server.request
    BY <1>4 DEF Goes, IpcInv, IpcShape, Servers, Ats
  <2>2. Profile = server.request.profile /\ Mine = resident[Profile]
    BY <1>2, MineIs
  <2>3. IpcShape'
    BY <1>1, <1>2, <1>4, <2>1 DEF IpcInv, IpcShape
  <2>4. Residents' = Residents /\ server'.at \notin Outside \cup {"Spawn", "Done", "Start"}
    BY <1>1, <2>1 DEF Residents, Outside
  <2>5. Counted'
    BY <2>4 DEF IpcInv, Counted
  <2>6. Tabled'
    <3>1. server'.at \in Without => resident'[server'.request.profile] = NoWorker
      BY <1>1, <1>4, <2>1, <2>2 DEF Without
    <3>2. server'.at \in With => resident'[server'.request.profile] # NoWorker
      BY <1>1, <1>4, <2>1, <2>2 DEF With
    <3> QED BY <1>1, <1>2, <1>4, <2>4, <3>1, <3>2 DEF IpcInv, Tabled, LifePhase, Life
  <2>7. Recent'
    BY <1>1, <1>2, <1>4, <2>1, RecentStays DEF Capturing
  <2> QED BY <2>3, <2>5, <2>6, <2>7 DEF IpcInv
<1>5. CASE Mine # NoWorker /\ LifePhase(Mine) = "degraded" /\ Restarting(Life(Mine)) # {}
  <2>1. /\ UNCHANGED used /\ Becomes(Mine, Restarting(Life(Mine)))
        /\ server' = [server EXCEPT !.at = "Restart"]
    BY <1>5 DEF Looks, Goes
  <2>2. server' \in Servers /\ server'.at = "Restart" /\ server'.request = server.request
    BY <2>1 DEF IpcInv, IpcShape, Servers, Ats
  <2>3. Mine \in Slots /\ Life(Mine) \in Workers /\ ~ held[Mine].failed
    BY <1>1, <1>2, <1>5, MineIs
  <2>4. Restarting(Life(Mine)) \in SUBSET Workers
        /\ \A life \in Restarting(Life(Mine)) : life.phase = "restarting"
    BY <2>3, Lives
  <2>5. /\ held' \in [Slots ->
                         [life : Workers, profile : Profiles \cup {NoProfile}, failed : BOOLEAN]]
        /\ \A v \in Slots \ {Mine} : held'[v] = held[v]
        /\ held'[Mine].life.phase = "restarting"
        /\ held'[Mine].profile = held[Mine].profile /\ held'[Mine].failed = held[Mine].failed
    BY <2>1, <2>3, <2>4, BecomesOf
  <2>6. IpcShape' /\ Tabled' /\ Counted'
    BY <1>1, <1>2, <1>5, <2>1, <2>2, <2>3, <2>5, MineStays DEF With
  <2>7. Recent'
    BY <1>1, <1>2, <2>1, <2>2, RecentStays DEF Capturing
  <2> QED BY <2>6, <2>7 DEF IpcInv
<1>6. CASE Mine = NoWorker
  <2>1. Goes("Room") /\ UNCHANGED <<used, held>>
    BY <1>6 DEF Looks
  <2> QED BY <1>4, <1>6, <2>1
<1>7. CASE Mine # NoWorker /\ LifePhase(Mine) = "degraded" /\ Restarting(Life(Mine)) = {}
  <2>1. Goes("Renew") /\ UNCHANGED <<used, held>>
    BY <1>7 DEF Looks
  <2> QED BY <1>4, <1>7, <2>1
<1>8. CASE Mine # NoWorker /\ LifePhase(Mine) \notin {"ready", "degraded"}
  <2>1. Goes("Settle") /\ UNCHANGED <<used, held>>
    BY <1>8 DEF Looks
  <2> QED BY <1>4, <1>8, <2>1
<1> QED BY <1>3, <1>5, <1>6, <1>7, <1>8

\* It has settled.
LEMMA SettledKeeps ==
  ASSUME IpcBounds, IpcInv, Settled
  PROVE  IpcInv'
<1>1. server.at \in {"Restart", "Settle"} /\ UNCHANGED <<pipe, lastServed, resident, ticks, held>>
  BY DEF Settled, talk
<1>2. server.at \in Capturing /\ server.at \notin Outside /\ server.at \in With
  BY <1>1 DEF Capturing, Outside, With
<1>3. Mine # NoWorker
  BY <1>2, MineIs
<1>4. CASE LifePhase(Mine) = "ready"
  BY <1>1, <1>3, <1>4, UsesKeeps DEF Settled
<1>5. CASE LifePhase(Mine) # "ready"
  <2>1. server' = [server EXCEPT !.at = "Renew"] /\ UNCHANGED used
    BY <1>5 DEF Settled, Goes
  <2>2. server' \in Servers /\ server'.at = "Renew" /\ server'.request = server.request
    BY <2>1 DEF IpcInv, IpcShape, Servers, Ats
  <2>3. IpcShape'
    BY <1>1, <1>2, <2>1, <2>2 DEF IpcInv, IpcShape
  <2>4. Tabled' /\ Counted'
    BY <1>1, <1>2, <2>2, TablesStay DEF Outside, Without, With
  <2>5. Recent'
    BY <1>1, <1>2, <2>1, <2>2, RecentStays DEF Capturing
  <2> QED BY <2>3, <2>4, <2>5 DEF IpcInv
<1> QED BY <1>4, <1>5

\* There is a free slot for a new worker.
LEMMA SpawnsKeep ==
  ASSUME IpcBounds, IpcInv, Spawns
  PROVE  IpcInv'
<1>1. server.at = "Spawn" /\ UNCHANGED <<pipe, lastServed, resident, used, ticks>>
  BY DEF Spawns, talk, registry
<1>2. server.at \in Capturing /\ server.at \notin Outside /\ server.at \in Without
  BY <1>1 DEF Capturing, Outside, Without
<1>3. /\ Profile = server.request.profile /\ Profile \in Profiles /\ server.request.kind = "Capture"
      /\ resident[Profile] = NoWorker
  BY <1>2, MineIs DEF IpcInv, Tabled
<1>4. CASE Answers("Unavailable") /\ UNCHANGED held
  <2>1. /\ server' \in Servers /\ server'.at = "Reply" /\ server'.request = server.request
        /\ server'.answer \notin Good
    BY <1>4 DEF Answers, IpcInv, IpcShape, Servers, Ats, Statuses, Good
  <2>2. IpcShape'
    BY <1>1, <1>3, <1>4, <2>1 DEF IpcInv, IpcShape
  <2>3. Tabled' /\ Counted'
    BY <1>1, <1>2, <1>4, <2>1, TablesStay DEF Outside, Without, With
  <2>4. Recent'
    <3>1. Capturer' /\ Capturer
      BY <1>1, <1>2, <1>3, <2>1 DEF Capturer
    <3> QED BY <1>1, <1>3, <2>1, <3>1 DEF IpcInv, Recent
  <2> QED BY <2>2, <2>3, <2>4 DEF IpcInv
<1>5. CASE \E w \in Slots \ Held :
             /\ held' = [held EXCEPT ![w] = [life |-> Spawned, profile |-> Profile,
                failed |-> FALSE]]
             /\ server' = [server EXCEPT !.at = "Start", !.worker = w]
  <2>1. PICK w \in Slots \ Held :
             /\ held' = [held EXCEPT ![w] = [life |-> Spawned, profile |-> Profile,
                failed |-> FALSE]]
             /\ server' = [server EXCEPT !.at = "Start", !.worker = w]
    BY <1>5
  <2>2. w \in Slots /\ held[w].life.phase = "released"
    BY DEF Held, LifePhase, Life
  <2>3. Spawned \in Workers /\ Spawned.phase = "starting"
    BY DEF Spawned, Workers, Phases
  <2>4. /\ server' \in Servers /\ server'.at = "Start" /\ server'.request = server.request
        /\ server'.worker = w
    BY <2>1, <2>2 DEF IpcInv, IpcShape, Servers, Ats
  <2>5. /\ held' \in [Slots ->
                         [life : Workers, profile : Profiles \cup {NoProfile}, failed : BOOLEAN]]
        /\ \A v \in Slots \ {w} : held'[v] = held[v]
        /\ held'[w].life.phase = "starting" /\ held'[w].profile = Profile /\ ~ held'[w].failed
    BY <1>3, <2>1, <2>2, <2>3 DEF IpcInv, IpcShape
  <2>6. IpcShape'
    BY <1>1, <1>3, <2>4, <2>5 DEF IpcInv, IpcShape
  <2>7. Counted'
    <3>1. Residents' = Residents /\ Cardinality(Residents) < MaxResident
      BY <1>1 DEF Residents, IpcInv, Counted
    <3> QED BY <1>1, <2>4, <3>1 DEF IpcInv, Counted
  <2>8. Tabled'
    <3>1. \A q \in Profiles : resident'[q] # NoWorker =>
            /\ held'[resident'[q]].profile = q
            /\ held'[resident'[q]].life.phase \in {"ready", "degraded", "restarting"}
            /\ ~ held'[resident'[q]].failed
      <4> SUFFICES ASSUME NEW q \in Profiles, resident[q] # NoWorker
                   PROVE  /\ held'[resident[q]].profile = q
                          /\ held'[resident[q]].life.phase \in {"ready", "degraded", "restarting"}
                          /\ ~ held'[resident[q]].failed
        BY <1>1
      <4>1. /\ held[resident[q]].profile = q
            /\ held[resident[q]].life.phase \in {"ready", "degraded", "restarting"}
            /\ ~ held[resident[q]].failed
        BY <1>1 DEF IpcInv, Tabled, LifePhase, Life
      <4>2. resident[q] \in Slots \ {w}
        BY <2>2, <4>1 DEF IpcInv, IpcShape
      <4> QED BY <2>5, <4>1, <4>2
    <3>2. \A v \in Slots \ {w} :
            IF held'[v].life.phase = "released" THEN ~ held'[v].failed
            ELSE held'[v].profile \in Profiles /\ resident'[held'[v].profile] = v
      BY <1>1, <1>2, <2>5 DEF IpcInv, Tabled, LifePhase, Life
    <3>3. server'.at \in Outside /\ server'.at \notin With
      BY <2>4 DEF Outside, With
    <3> QED BY <1>1, <1>3, <2>2, <2>4, <2>5, <3>1, <3>2, <3>3 DEF Tabled, LifePhase, Life
  <2>9. Recent'
    BY <1>1, <1>2, <2>4, RecentStays DEF Capturing
  <2> QED BY <2>6, <2>7, <2>8, <2>9 DEF IpcInv
<1>6. (CHOOSE slot \in Slots \ Held : TRUE) \in Slots \ Held
  BY <1>1, WorkersCounted
<1> QED BY <1>4, <1>5, <1>6 DEF Spawns

\* It enters the table, or is closed.
LEMMA StartSettlesKeeps ==
  ASSUME IpcBounds, IpcInv, StartSettles
  PROVE  IpcInv'
<1> DEFINE w == server.worker
<1>1. server.at = "Start" /\ UNCHANGED <<pipe, lastServed, ticks>>
      /\ LifePhase(w) \in {"ready", "degraded"}
  BY DEF StartSettles, talk
<1>2. server.at \in Capturing /\ server.at \in Outside /\ server.at \in Without
  BY <1>1 DEF Capturing, Outside, Without
<1>3. /\ Profile = server.request.profile /\ Profile \in Profiles /\ server.request.kind = "Capture"
      /\ resident[Profile] = NoWorker
  BY <1>2, MineIs DEF IpcInv, Tabled
<1>4. /\ w \in Slots /\ w # NoWorker /\ held[w].profile = Profile /\ ~ held[w].failed
      /\ Life(w) \in Workers
  BY <1>1, <1>3 DEF IpcInv, IpcShape, Tabled, Slots, NoWorker, Life
<1>5. \A v \in Slots \ {w} :
         IF held[v].life.phase = "released" THEN ~ held[v].failed
         ELSE held[v].profile \in Profiles /\ resident[held[v].profile] = v
  BY DEF IpcInv, Tabled, LifePhase, Life
<1>6. \A q \in Profiles : resident[q] # NoWorker =>
         /\ q # Profile /\ resident[q] \in Slots \ {w}
         /\ held[resident[q]].profile = q
         /\ held[resident[q]].life.phase \in {"ready", "degraded", "restarting"}
         /\ ~ held[resident[q]].failed
  BY <1>1, <1>3, <1>4 DEF IpcInv, IpcShape, Tabled, LifePhase, Life
<1>7. IsFiniteSet(Residents) /\ Cardinality(Residents) \in Nat
      /\ Cardinality(Residents) < MaxResident
  BY <1>1, <1>2, FS_CardinalityType DEF IpcInv, Counted
<1>8. CASE LifePhase(w) = "ready"
  <2>1. /\ resident' = [resident EXCEPT ![Profile] = w] /\ used' = [used EXCEPT ![Profile] = ticks]
        /\ server' = [server EXCEPT !.at = "Navigate"] /\ UNCHANGED held
    BY <1>8 DEF StartSettles, Uses, Goes
  <2>2. server' \in Servers /\ server'.at = "Navigate" /\ server'.request = server.request
    BY <2>1 DEF IpcInv, IpcShape, Servers, Ats
  <2>3. /\ resident' \in [Profiles -> Slots \cup {NoWorker}] /\ resident'[Profile] = w
        /\ used' \in [Profiles -> Nat] /\ used'[Profile] = ticks
        /\ \A q \in Profiles \ {Profile} : used'[q] = used[q] /\ resident'[q] = resident[q]
    BY <1>3, <1>4, <2>1 DEF IpcInv, IpcShape, IpcBounds
  <2>4. IpcShape'
    BY <1>1, <1>3, <2>1, <2>2, <2>3 DEF IpcInv, IpcShape
  <2>5. Counted'
    <3>1. Residents' = Residents \cup {Profile} /\ Profile \notin Residents
      BY <1>3, <1>4, <2>3 DEF Residents
    <3>2. IsFiniteSet(Residents') /\ Cardinality(Residents') = Cardinality(Residents) + 1
      BY <1>7, <3>1, FS_AddElement
    <3> QED BY <1>7, <2>2, <3>2 DEF Counted, Outside, IpcBounds
  <2>6. Tabled'
    <3>1. \A q \in Profiles : resident'[q] # NoWorker =>
            /\ held'[resident'[q]].profile = q
            /\ held'[resident'[q]].life.phase \in {"ready", "degraded", "restarting"}
            /\ ~ held'[resident'[q]].failed
      BY <1>4, <1>6, <1>8, <2>1, <2>3 DEF LifePhase, Life
    <3>2. \A v \in Slots :
            IF held'[v].life.phase = "released" THEN ~ held'[v].failed
            ELSE held'[v].profile \in Profiles /\ resident'[held'[v].profile] = v
      <4> SUFFICES ASSUME NEW v \in Slots
                   PROVE IF held'[v].life.phase = "released" THEN ~ held'[v].failed
                         ELSE held'[v].profile \in Profiles /\ resident'[held'[v].profile] = v
        OBVIOUS
      <4>1. CASE v = w
        BY <1>3, <1>4, <1>8, <2>1, <2>3, <4>1
      <4>2. CASE v # w
        BY <1>3, <1>4, <1>5, <2>1, <2>3, <4>2 DEF Slots, NoWorker
      <4> QED BY <4>1, <4>2
    <3>3. server'.at # "Start" /\ server'.at \notin Without
      BY <2>2 DEF Without
    <3> QED BY <1>3, <1>4, <2>2, <2>3, <3>1, <3>2, <3>3 DEF Tabled, LifePhase, Life
  <2>7. Recent'
    <3>1. Capturer' /\ Capturer
      BY <1>2, <2>2 DEF Capturer, Capturing
    <3>2. \A q \in Profiles : used'[q] <= ticks /\ (q # Profile => used'[q] < ticks)
      BY <1>3, <2>3, <3>1 DEF IpcInv, IpcShape, Recent
    <3>3. (lastServed # NoProfile /\ MaxResident > 1 /\ lastServed # Profile) =>
             /\ resident[lastServed] # NoWorker
             /\ \A q \in Profiles \ {lastServed} :
                   (resident[q] # NoWorker /\ q # Profile) => used[q] < used[lastServed]
      BY <1>1, <1>3 DEF IpcInv, IpcShape, Recent, Capturer, Capturing
    <3>4. lastServed \in Profiles \cup {NoProfile}
      BY DEF IpcInv, IpcShape
    <3> HIDE DEF w
    <3> QED BY <1>1, <1>3, <2>2, <2>3, <3>1, <3>2, <3>3, <3>4 DEF Recent
  <2> QED BY <2>4, <2>5, <2>6, <2>7 DEF IpcInv
<1>9. CASE LifePhase(w) # "ready"
  <2>1. Closes(w, "Dismiss", "Unavailable") /\ UNCHANGED <<resident, used>>
    BY <1>9 DEF StartSettles
  <2>2. Closing(Life(w)) \in SUBSET Workers /\ \A life \in Closing(Life(w)) : life.phase = "closing"
    BY <1>4, Lives
  <2>3. /\ held' \in [Slots ->
                         [life : Workers, profile : Profiles \cup {NoProfile}, failed : BOOLEAN]]
        /\ \A v \in Slots \ {w} : held'[v] = held[v]
        /\ held'[w].life.phase = "closing" /\ held'[w].profile = held[w].profile
    <3>1. Becomes(w, Closing(Life(w)))
      BY <2>1 DEF Closes
    <3> HIDE DEF w
    <3> QED BY <1>4, <2>2, <3>1, BecomesOf
  <2>4. /\ server' \in Servers /\ server'.at = "Dismiss" /\ server'.request = server.request
        /\ server'.answer = "Unavailable" /\ server'.worker = w
    BY <1>4, <2>1 DEF Closes, IpcInv, IpcShape, Servers, Ats, Statuses
  <2>5. IpcShape'
    BY <1>1, <1>3, <2>1, <2>3, <2>4 DEF IpcInv, IpcShape
  <2>6. Counted'
    <3>1. Residents' = Residents
      BY <2>1 DEF Residents
    <3> QED BY <1>7, <2>4, <3>1 DEF IpcInv, Counted
  <2>7. Tabled'
    <3> HIDE DEF w
    <3>1. \A q \in Profiles : resident'[q] # NoWorker =>
            /\ held'[resident'[q]].profile = q
            /\ held'[resident'[q]].life.phase \in {"ready", "degraded", "restarting"}
            /\ ~ held'[resident'[q]].failed
      BY <1>6, <2>1, <2>3
    <3>2. \A v \in Slots \ {w} :
            IF held'[v].life.phase = "released" THEN ~ held'[v].failed
            ELSE held'[v].profile \in Profiles /\ resident'[held'[v].profile] = v
      BY <1>5, <2>1, <2>3
    <3>3. server'.at \in Outside /\ server'.at \notin With /\ server'.at # "Start"
      BY <2>4 DEF Outside, With
    <3> QED BY <1>3, <1>4, <2>1, <2>3, <2>4, <3>1, <3>2, <3>3 DEF Tabled, LifePhase, Life
  <2>8. Recent'
    BY <1>1, <1>2, <2>1, <2>4, RecentStays DEF Capturing, Good
  <2> QED BY <2>5, <2>6, <2>7, <2>8 DEF IpcInv
<1> QED BY <1>8, <1>9

\* A start, a restart or a close goes on, whatever the server does.
LEMMA WorkersKeep ==
  ASSUME IpcBounds, IpcInv, NEW w \in Slots, WorkerMoves(w)
  PROVE  IpcInv'
<1> DEFINE lives == Started(Life(w)) \cup Restarted(Life(w)) \cup Stopped(Life(w))
                    \cup Released(Life(w))
<1>1. UNCHANGED <<server, pipe, lastServed, resident, used, ticks>> /\ Becomes(w, lives)
  BY DEF WorkerMoves, talk, registry
<1>2. Life(w) \in Workers
  BY DEF Life, IpcInv, IpcShape
<1>3. /\ lives \in SUBSET Workers
      /\ \A life \in lives :
            \/ Life(w).phase \in {"starting", "restarting"} /\ life.phase \in {"ready", "degraded"}
            \/ Life(w).phase \in {"closing", "stopped"} /\ life.phase \in {"stopped", "released"}
  BY <1>2, Lives
<1> HIDE DEF lives
<1>4. /\ held' \in [Slots ->
                       [life : Workers, profile : Profiles \cup {NoProfile}, failed : BOOLEAN]]
      /\ \A v \in Slots \ {w} : held'[v] = held[v]
      /\ \/ held'[w].profile = held[w].profile /\ held'[w].failed = held[w].failed
            /\ \/ /\ held[w].life.phase \in {"starting", "restarting"}
                  /\ held'[w].life.phase \in {"ready", "degraded"}
               \/ held[w].life.phase \in {"closing", "stopped"} /\ held'[w].life.phase = "stopped"
         \/ /\ held[w].life.phase \in {"closing", "stopped"}
            /\ held'[w].life.phase = "released" /\ ~ held'[w].failed
  BY <1>1, <1>3, BecomesOf DEF Life
<1>5. IpcShape'
  BY <1>1, <1>4 DEF IpcInv, IpcShape
<1>6. Residents' = Residents
  BY <1>1 DEF Residents
<1>7. Counted' /\ Recent'
  BY <1>1, <1>6 DEF IpcInv, Counted, Recent, Capturer
<1>8. Tabled'
  <2>1. \A q \in Profiles : resident'[q] # NoWorker =>
          /\ held'[resident'[q]].profile = q
          /\ held'[resident'[q]].life.phase \in {"ready", "degraded", "restarting"}
          /\ held'[resident'[q]].failed => server'.at = "Remove" /\ server'.request.profile = q
    <3> SUFFICES ASSUME NEW q \in Profiles, resident[q] # NoWorker
                 PROVE  /\ held'[resident[q]].profile = q
                        /\ held'[resident[q]].life.phase \in {"ready", "degraded", "restarting"}
                        /\ held'[resident[q]].failed => server.at = "Remove"
                           /\ server.request.profile = q
      BY <1>1
    <3>1. /\ resident[q] \in Slots /\ held[resident[q]].profile = q
          /\ held[resident[q]].life.phase \in {"ready", "degraded", "restarting"}
          /\ held[resident[q]].failed => server.at = "Remove" /\ server.request.profile = q
      BY DEF IpcInv, IpcShape, Tabled, LifePhase, Life
    <3>2. CASE resident[q] = w
      BY <1>4, <3>1, <3>2
    <3>3. CASE resident[q] # w
      BY <1>4, <3>1, <3>3
    <3> QED BY <3>2, <3>3
  <2>2. \A v \in Slots :
          IF held'[v].life.phase = "released" THEN ~ held'[v].failed
          ELSE /\ held'[v].profile \in Profiles
               /\ \/ resident'[held'[v].profile] = v
                  \/ server'.at \in Outside /\ server'.worker = v
                     /\ resident'[held'[v].profile] = NoWorker
    <3> SUFFICES ASSUME NEW v \in Slots
                 PROVE  IF held'[v].life.phase = "released" THEN ~ held'[v].failed
                        ELSE /\ held'[v].profile \in Profiles
                             /\ \/ resident[held'[v].profile] = v
                                \/ server.at \in Outside /\ server.worker = v
                                   /\ resident[held'[v].profile] = NoWorker
      BY <1>1
    <3>1. IF held[v].life.phase = "released" THEN ~ held[v].failed
          ELSE /\ held[v].profile \in Profiles
               /\ \/ resident[held[v].profile] = v
                  \/ server.at \in Outside /\ server.worker = v
                     /\ resident[held[v].profile] = NoWorker
      BY DEF IpcInv, Tabled, LifePhase, Life
    <3>2. CASE v = w
      BY <1>4, <3>1, <3>2
    <3>3. CASE v # w
      BY <1>4, <3>1, <3>3
    <3> QED BY <3>2, <3>3
  <2>3. server'.at = "Start" =>
          /\ server'.worker \in Slots
          /\ held'[server'.worker].life.phase \in {"starting", "ready", "degraded"}
          /\ held'[server'.worker].profile = server'.request.profile
             /\ ~ held'[server'.worker].failed
    <3> SUFFICES ASSUME server.at = "Start"
                 PROVE  /\ server.worker \in Slots
                        /\ held'[server.worker].life.phase \in {"starting", "ready", "degraded"}
                        /\ held'[server.worker].profile = server.request.profile
                           /\ ~ held'[server.worker].failed
      BY <1>1
    <3>1. /\ server.worker \in Slots
          /\ held[server.worker].life.phase \in {"starting", "ready", "degraded"}
          /\ held[server.worker].profile = server.request.profile /\ ~ held[server.worker].failed
      BY DEF IpcInv, Tabled, LifePhase, Life
    <3>2. CASE server.worker = w
      BY <1>4, <3>1, <3>2
    <3>3. CASE server.worker # w
      BY <1>4, <3>1, <3>3
    <3> QED BY <3>2, <3>3
  <2> QED BY <1>1, <2>1, <2>2, <2>3 DEF IpcInv, Tabled, LifePhase, Life
<1> QED BY <1>5, <1>7, <1>8 DEF IpcInv

\* Every step.
LEMMA IpcStepKeeps ==
  ASSUME IpcBounds, IpcInv, [IpcNext]_ipcVars
  PROVE  IpcInv'
<1>1. CASE ServeStep
  BY <1>1, ReadsKeep, RepliesKeep, DrainsKeep, WaitsKeep, LooksKeep, SettledKeeps, RemovesKeep,
     MakesRoomKeeps, SpawnsKeep, StartSettlesKeeps, RenewsFirstKeeps,
     CommandFailsKeeps DEF ServeStep
<1>2. CASE SomeWorkerMoves
  BY <1>2, WorkersKeep DEF SomeWorkerMoves
<1>3. CASE Leaves
  BY <1>3, WaitsKeep
<1>4. CASE UNCHANGED ipcVars
  <2>1. UNCHANGED <<pipe, server, resident, used, ticks, held, lastServed>>
    BY <1>4 DEF ipcVars
  <2>2. Residents' = Residents
    BY <2>1 DEF Residents
  <2> QED BY <2>1, <2>2 DEF IpcInv, IpcShape, Tabled, Counted, Recent, Capturer, LifePhase, Life
<1> QED BY <1>1, <1>2, <1>3, <1>4 DEF IpcNext

\* The server, its table and the workers agree in every state.
THEOREM IpcInvariance == IpcBounds /\ IpcSpec => []IpcInv
<1> SUFFICES ASSUME IpcBounds PROVE IpcSpec => []IpcInv
  OBVIOUS
<1>1. IpcInit => IpcInv
  BY IpcStarts
<1>2. IpcInv /\ [IpcNext]_ipcVars => IpcInv'
  BY IpcStepKeeps
<1> QED BY <1>1, <1>2, PTL DEF IpcSpec

\* There are never more workers than max_resident, nor two for one profile; one that failed is not
\* asked again; whoever was served last does not make room; and a process that is through leaves
\* nothing behind: WorkerRegistry, serve_connection().
THEOREM WorkersAreKept ==
  IpcBounds /\ IpcSpec =>
      [](IpcTypeOK /\ WorkersAreBounded /\ FailedAreForgotten /\ LastServedStays /\ NothingIsLeft)
<1> SUFFICES ASSUME IpcBounds
             PROVE  IpcSpec => [](IpcTypeOK /\ WorkersAreBounded /\ FailedAreForgotten
                                  /\ LastServedStays /\ NothingIsLeft)
  OBVIOUS
<1>1. IpcInv => IpcTypeOK /\ WorkersAreBounded /\ FailedAreForgotten /\ LastServedStays
      /\ NothingIsLeft
  <2> SUFFICES ASSUME IpcInv
               PROVE  IpcTypeOK /\ WorkersAreBounded /\ FailedAreForgotten
                      /\ LastServedStays /\ NothingIsLeft
    OBVIOUS
  <2>1. IpcTypeOK
    BY DEF IpcInv, IpcShape, IpcTypeOK, Recent, IpcBounds
  <2>2. WorkersAreBounded
    BY WorkersCounted DEF WorkersAreBounded
  <2>3. FailedAreForgotten
    <3> SUFFICES ASSUME NEW w \in Slots, held[w].failed, resident[held[w].profile] = w
                 PROVE  server.at = "Remove"
      BY DEF FailedAreForgotten
    <3>1. held[w].profile \in Profiles /\ w # NoWorker
      BY DEF IpcInv, Tabled, Slots, NoWorker, IpcBounds
    <3> QED BY <3>1 DEF IpcInv, Tabled
  <2>4. LastServedStays
    BY DEF IpcInv, Recent, LastServedStays
  <2>5. NothingIsLeft
    BY DEF IpcInv, Counted, Tabled, NothingIsLeft, Held, Residents, Outside, Slots, NoWorker
  <2> QED BY <2>1, <2>2, <2>3, <2>4, <2>5
<1> QED BY <1>1, IpcInvariance, PTL
=============================================================================
