------------------------- MODULE SessionTaskProofs -------------------------
(***************************************************************************)
(* Theorems about a task on its way and at its work, and about a node that *)
(* streams its browser.  SessionTask: for any callers, workers, tasks and  *)
(* number of command slots, admission is counted, the tasks of a worker    *)
(* keep apart and no step takes effect twice.  TaskContract: for any       *)
(* tasks, identities and configurations, the tables a task passes agree    *)
(* with each other.  StationRequests: however often a request is asked     *)
(* again, it is done once, refused without effect, and counted.            *)
(*                                                                         *)
(* SessionTask: who is past the session gate of a worker holds it, so two  *)
(* tasks that are past it are on two workers; the effects of a task under  *)
(* way are those of the steps before its own, and of its own only where a  *)
(* first navigation failed after its effect (Placed, Most).                *)
(*                                                                         *)
(* TaskContract: kind by kind, what a later table demands of a step is     *)
(* part of what an earlier one has asked for, so each place a task has     *)
(* come to has established what the next one needs.                        *)
(*                                                                         *)
(* BrowserStream: for any inputs, what runs at each step of a node         *)
(* (StreamRuns), what of the inputs the page has seen (Sees), and which    *)
(* message may follow which between the writer's hand and the peer's       *)
(* (Paired, Ordered).                                                      *)
(*                                                                         *)
(* StationRequests: for any number of tries, which connection carries      *)
(* which try (Talking), which tries changed the station and what they may  *)
(* be answered (ChangeInv, OnceInv, AgreeInv), and whom the counters count *)
(* (Books).                                                                *)
(***************************************************************************)
EXTENDS SessionTask, TaskContract, FiniteSetTheorems, SequenceTheorems, TLAPS

-----------------------------------------------------------------------------
(* SessionTask *)

Active == RunPcs \ {"idle"}
Driving == {"step", "sent", "resolved", "restart", "polled"}

\* How often a step may take effect by the time it is over.
Most(r, i) == IF i = 1 /\ (r.retried \/ r.pc = "restart") THEN 2 ELSE 1

\* A task under way is at one of its steps and has carried out those before it; its own
\* may have taken effect only if that was a first navigation that failed.
Placed(r) ==
    /\ r.worker \in Workers /\ r.task \in Tasks
    /\ r.step \in 1 .. Len(r.task)
    /\ r.effects \in [1 .. Len(r.task) -> Nat]
    /\ r.result = "None"
    /\ \A i \in 1 .. Len(r.task) :
          /\ i < r.step => r.effects[i] \in 1 .. Most(r, i)
          /\ i = r.step => r.effects[i] < Most(r, i)
          /\ i > r.step => r.effects[i] = 0
    /\ r.pc \in {"session", "slot"} => r.step = 1
    /\ r.pc = "resolved" => r.task[r.step] # "Navigate"
    /\ r.pc = "restart" => r.step = 1 /\ r.task[1] = "Navigate"

\* StepsTakeEffectOnce, of one call.
Once(r) ==
    /\ r.retried => r.task[1] = "Navigate"
    /\ \A i \in DOMAIN r.effects :
          /\ r.effects[i] <= IF i = 1 /\ r.retried THEN 2 ELSE 1
          /\ r.effects[i] > 0 => i <= r.step
          /\ i < r.step \/ r.result = "Ok" => r.effects[i] > 0

Sound(r) == r \in RunRecords /\ Once(r) /\ (r.pc \in Active => Placed(r))

Waiting == {c \in Callers : At(c, "slot")}
Drivers == {c \in Callers : Running(c)}

Gates ==
    /\ \A c \in Callers : At(c, "slot") \/ Running(c) => session[W(c)] = c
    /\ slots = Drivers /\ IsFiniteSet(slots) /\ Cardinality(slots) <= MaxInFlight
    /\ IsFiniteSet(Waiting) /\ waiters = Cardinality(Waiting)

IInv ==
    /\ TypeOK
    /\ \A c \in Callers : Sound(run[c])
    /\ Gates
    /\ TasksKeepApart

-----------------------------------------------------------------------------
(* One call *)

\* Nothing is known of a record but its fields: a change of pc keeps it sound.
LEMMA PcStaysSound ==
    ASSUME NEW r, Sound(r), r.pc \in Active, NEW pc \in Active,
           NEW t, t = [r EXCEPT !.pc = pc],
           pc \in {"session", "slot"} => r.step = 1,
           pc = "resolved" => r.task[r.step] # "Navigate",
           r.pc # "restart" /\ pc # "restart"
    PROVE  Sound(t)
BY DEF Sound, Once, Placed, Most, RunRecords, Active

\* A call that returns with anything but Ok.
LEMMA ReturnIsSound ==
    ASSUME NEW r, Sound(r), r.pc \in Active, NEW result \in Results \ {"Ok"},
           NEW t, t = [r EXCEPT !.pc = "idle", !.result = result, !.cancelled = FALSE]
    PROVE  Sound(t)
BY DEF Sound, Once, Placed, RunRecords, Active, RunPcs

\* The step it is at takes effect: the task goes on, ends, or tries it again.
LEMMA EffectIsSound ==
    ASSUME NEW r, Sound(r), r.pc \in {"sent", "resolved"}
    PROVE  /\ r.step < Len(r.task) => Sound(Advances(Struck(r)))
           /\ \A result \in {"Cancelled", "Ok", "StepFailed"} :
                 (result = "Ok" => r.step = Len(r.task)) =>
                     Sound([Struck(r) EXCEPT !.pc = "idle", !.cancelled = FALSE,
                                             !.result = result])
           /\ r.step = 1 /\ r.task[1] = "Navigate" /\ ~r.retried =>
                 Sound([Struck(r) EXCEPT !.pc = "restart"])
<1>1. r \in RunRecords /\ Placed(r) /\ (r.retried => r.task[1] = "Navigate")
  BY DEF Sound, Active, RunPcs, Once
<1> DEFINE effects == [r.effects EXCEPT ![r.step] = @ + 1]
           most(i) == IF i = 1 /\ r.retried THEN 2 ELSE 1
<1>2. r.task \in Seq(Steps) /\ Len(r.task) \in Nat
  BY <1>1, SessionAssumption DEF Placed
<1>3. effects \in [1 .. Len(r.task) -> Nat]
  BY <1>1, <1>2 DEF Placed
<1>4. \A i \in 1 .. Len(r.task) :
         /\ i <= r.step => effects[i] \in 1 .. most(i)
         /\ i > r.step => effects[i] = 0
  <2> SUFFICES ASSUME NEW i \in 1 .. Len(r.task)
               PROVE  /\ i <= r.step => effects[i] \in 1 .. most(i)
                      /\ i > r.step => effects[i] = 0
    OBVIOUS
  <2>1. /\ r.effects[i] \in Nat /\ r.step \in Nat /\ i \in Nat
        /\ i < r.step => r.effects[i] \in 1 .. most(i)
        /\ i = r.step => r.effects[i] < most(i)
        /\ i > r.step => r.effects[i] = 0
    BY <1>1, <1>2 DEF Placed, Most
  <2>2. effects[i] = IF i = r.step THEN r.effects[i] + 1 ELSE r.effects[i]
    BY <1>1 DEF Placed
  <2> QED
    BY <2>1, <2>2
<1>5. Struck(r) = [r EXCEPT !.effects = effects]
  BY DEF Struck
<1> HIDE DEF effects
<1>6. effects \in Seq(Nat) /\ DOMAIN effects = 1 .. Len(r.task)
  BY <1>2, <1>3
<1>7. ASSUME r.step < Len(r.task) PROVE Sound(Advances(Struck(r)))
  <2> DEFINE t == [r EXCEPT !.effects = effects, !.pc = "step", !.step = r.step + 1]
  <2>1. Advances(Struck(r)) = t
    BY <1>1, <1>5 DEF Advances, RunRecords
  <2>2. /\ t \in RunRecords /\ t.effects = effects /\ t.step = r.step + 1 /\ t.pc = "step"
        /\ t.worker = r.worker /\ t.task = r.task /\ t.result = r.result /\ t.retried = r.retried
    <3>1. r.step + 1 \in Nat
      BY <1>1 DEF RunRecords
    <3> QED
      BY <1>1, <1>6, <3>1 DEF RunRecords, RunPcs
  <2> HIDE DEF t
  <2>3. t.step \in 1 .. Len(r.task) /\ r.step \in Nat
    BY <1>1, <1>2, <1>7, <2>2 DEF Placed
  <2>4. \A i \in 1 .. Len(r.task) :
           /\ i < t.step => effects[i] \in 1 .. Most(t, i)
           /\ i = t.step => effects[i] < Most(t, i)
           /\ i > t.step => effects[i] = 0
    BY <1>1, <1>2, <1>4, <2>2, <2>3 DEF Most
  <2>5. Placed(t)
    BY <1>1, <1>3, <2>2, <2>3, <2>4 DEF Placed
  <2>6. Once(t)
    <3>1. \A i \in 1 .. Len(r.task) :
             /\ effects[i] <= most(i)
             /\ effects[i] > 0 => i <= t.step
             /\ i < t.step => effects[i] > 0
      <4> HIDE DEF most
      <4>1. \A i \in 1 .. Len(r.task) : effects[i] \in Nat /\ most(i) \in {1, 2}
        BY <1>3 DEF most
      <4> QED
        BY <1>4, <2>2, <2>3, <4>1
    <3>2. t.result = "None"
      BY <1>1, <2>2 DEF Placed
    <3> QED
      BY <1>1, <1>6, <2>2, <3>1, <3>2 DEF Once
  <2> QED
    BY <2>1, <2>2, <2>5, <2>6 DEF Sound
<1>8. ASSUME NEW result \in {"Cancelled", "Ok", "StepFailed"},
             result = "Ok" => r.step = Len(r.task)
      PROVE  Sound([Struck(r) EXCEPT !.pc = "idle", !.cancelled = FALSE, !.result = result])
  <2> DEFINE t == [r EXCEPT !.effects = effects, !.pc = "idle", !.cancelled = FALSE,
                            !.result = result]
  <2>1. [Struck(r) EXCEPT !.pc = "idle", !.cancelled = FALSE, !.result = result] = t
    BY <1>1, <1>5 DEF RunRecords
  <2>2. /\ t \in RunRecords /\ t.effects = effects /\ t.step = r.step /\ t.pc = "idle"
        /\ t.result = result /\ t.task = r.task /\ t.retried = r.retried
    BY <1>1, <1>6 DEF RunRecords, RunPcs, Results
  <2> HIDE DEF t
  <2>3. Once(t)
    BY <1>1, <1>2, <1>4, <1>6, <1>8, <2>2 DEF Once, Placed
  <2> QED
    BY <2>1, <2>2, <2>3 DEF Sound, Active
<1>9. ASSUME r.step = 1, r.task[1] = "Navigate", ~r.retried
      PROVE  Sound([Struck(r) EXCEPT !.pc = "restart"])
  <2> DEFINE t == [r EXCEPT !.effects = effects, !.pc = "restart"]
  <2>1. [Struck(r) EXCEPT !.pc = "restart"] = t
    BY <1>1, <1>5 DEF RunRecords
  <2>2. /\ t \in RunRecords /\ t.effects = effects /\ t.step = 1 /\ t.pc = "restart"
        /\ t.worker = r.worker /\ t.task = r.task /\ t.result = r.result /\ ~t.retried
    BY <1>1, <1>6, <1>9 DEF RunRecords, RunPcs
  <2> HIDE DEF t
  <2>3. Placed(t)
    BY <1>1, <1>2, <1>3, <1>4, <1>9, <2>2 DEF Placed, Most
  <2>4. Once(t)
    BY <1>1, <1>2, <1>4, <1>6, <1>9, <2>2 DEF Once, Placed
  <2> QED
    BY <2>1, <2>2, <2>3, <2>4 DEF Sound
<1> QED
  BY <1>7, <1>8, <1>9

-----------------------------------------------------------------------------
(* A step of one caller *)

\* c becomes r, nobody else changes.
Becomes(c, r) == run' = [run EXCEPT ![c] = r]

\* The types and the records after it.
LEMMA OneCall ==
    ASSUME IInv, NEW c \in Callers, NEW r, Sound(r), Becomes(c, r)
    PROVE  /\ run' \in [Callers -> RunRecords]
           /\ run'[c] = r /\ \A d \in Callers \ {c} : run'[d] = run[d]
           /\ \A d \in Callers : Sound(run'[d])
BY DEF IInv, TypeOK, Becomes, Sound

\* The gates do not see a change that neither enters nor leaves them.
LEMMA GatesKept ==
    ASSUME IInv, NEW c \in Callers, NEW r, Sound(r), Becomes(c, r), UNCHANGED Guards,
           (r.pc = "slot") <=> At(c, "slot"), (r.pc \in Driving) <=> Running(c),
           At(c, "slot") \/ Running(c) => r.worker = W(c)
    PROVE  Gates'
<1>1. run'[c] = r /\ \A d \in Callers \ {c} : run'[d] = run[d]
  BY OneCall
<1>2. Waiting' = Waiting /\ Drivers' = Drivers
  BY <1>1 DEF Waiting, Drivers, At, Running, Driving
<1> QED
  BY <1>1, <1>2 DEF IInv, Gates, Guards, At, Running, W, Driving, TypeOK

\* Who goes leaves both gates and takes its number of waiters along.
LEMMA GatesLeft ==
    ASSUME IInv, NEW c \in Callers, NEW r, Sound(r), Becomes(c, r), LetsGo(c), r.pc = "idle"
    PROVE  /\ Gates'
           /\ session' \in [Workers -> Callers \cup {Nobody}]
           /\ slots' \subseteq Callers /\ waiters' \in Nat
<1>1. run'[c] = r /\ \A d \in Callers \ {c} : run'[d] = run[d]
  BY OneCall
<1>2. Waiting' = Waiting \ {c} /\ Drivers' = Drivers \ {c}
  BY <1>1 DEF Waiting, Drivers, At, Running
<1>3. /\ slots' = Drivers' /\ IsFiniteSet(slots') /\ Cardinality(slots') <= MaxInFlight
      /\ slots' \subseteq Callers
  <2>1. IsFiniteSet(slots) /\ Cardinality(slots) \in Nat /\ Cardinality(slots) <= MaxInFlight
    BY FS_CardinalityType DEF IInv, Gates
  <2>0. slots' = slots \ {c}
    BY DEF LetsGo
  <2>2. /\ IsFiniteSet(slots')
        /\ Cardinality(slots') = IF c \in slots THEN Cardinality(slots) - 1
                                 ELSE Cardinality(slots)
    BY <2>0, <2>1, FS_RemoveElement
  <2>3. Cardinality(slots') \in Nat
    BY <2>2, FS_CardinalityType
  <2> QED
    BY <1>2, <2>1, <2>2, <2>3, SessionAssumption DEF IInv, Gates, LetsGo, TypeOK
<1>4. IsFiniteSet(Waiting') /\ waiters' = Cardinality(Waiting') /\ waiters' \in Nat
  <2>1. IsFiniteSet(Waiting) /\ waiters = Cardinality(Waiting) /\ waiters \in Nat
    BY DEF IInv, Gates, TypeOK
  <2>2. /\ IsFiniteSet(Waiting')
        /\ Cardinality(Waiting') = IF c \in Waiting THEN Cardinality(Waiting) - 1
                                   ELSE Cardinality(Waiting)
    BY <1>2, <2>1, FS_RemoveElement
  <2>3. At(c, "slot") <=> c \in Waiting
    BY DEF Waiting
  <2> QED
    BY <2>1, <2>2, <2>3, FS_CardinalityType DEF LetsGo
<1>5. session' \in [Workers -> Callers \cup {Nobody}]
  BY DEF LetsGo, IInv, TypeOK
<1>6. \A d \in Callers : At(d, "slot")' \/ Running(d)' => session'[W(d)'] = d
  <2> SUFFICES ASSUME NEW d \in Callers, At(d, "slot")' \/ Running(d)'
               PROVE  session'[W(d)'] = d
    OBVIOUS
  <2>1. d # c /\ run'[d] = run[d]
    BY <1>1 DEF At, Running
  <2>2. session[W(d)] = d /\ W(d) \in Workers
    BY <2>1 DEF IInv, Gates, At, Running, W, Sound, Placed, Active, RunPcs
  <2> QED
    BY <2>1, <2>2 DEF LetsGo, W
<1> QED
  BY <1>3, <1>4, <1>5, <1>6 DEF Gates

-----------------------------------------------------------------------------
(* Pages *)

\* Navigated, of one record.
Moved(r) == r.pc \in Driving /\ \E i \in 1 .. r.step - 1 : r.task[i] = "Navigate"

\* c replaces the page of its worker, and nobody else's is replaced.
Repaints(c) ==
    /\ worker' \in [Workers -> WorkerRecords]
    /\ worker'[W(c)].changedBy = c
    /\ \A w \in Workers \ {W(c)} : worker'[w].changedBy = worker[w].changedBy

\* Nobody's page is replaced.
PagesStay == \A w \in Workers : worker'[w].changedBy = worker[w].changedBy

\* Where no page is replaced the tasks stay apart.
LEMMA ApartKept ==
    ASSUME IInv, NEW c \in Callers, NEW r, Sound(r), Becomes(c, r), PagesStay,
           Moved(r) => Navigated(c) /\ r.worker = W(c)
    PROVE  TasksKeepApart'
<1>1. run'[c] = r /\ \A d \in Callers \ {c} : run'[d] = run[d]
  BY OneCall
<1>2. \A d \in Callers : Navigated(d)' => Navigated(d) /\ W(d)' = W(d)
  BY <1>1 DEF Navigated, Running, Moved, Driving, W
<1>3. \A d \in Callers : Navigated(d) => W(d) \in Workers
  BY DEF Navigated, Running, IInv, Sound, Placed, Active, RunPcs, W
<1> QED
  BY <1>2, <1>3 DEF IInv, TasksKeepApart, PagesStay, W

\* Who drives a worker may replace its page: no other task is on it.
LEMMA ApartReplaced ==
    ASSUME IInv, NEW c \in Callers, NEW r, Sound(r), Becomes(c, r), Running(c),
           Repaints(c), r.worker = W(c) \/ r.pc = "idle"
    PROVE  TasksKeepApart'
<1>1. run'[c] = r /\ \A d \in Callers \ {c} : run'[d] = run[d]
  BY OneCall
<1>2. W(c) \in Workers /\ worker'[W(c)].changedBy = c
  BY DEF IInv, Running, Sound, Placed, Active, RunPcs, W, Repaints
<1>3. ASSUME NEW d \in Callers, Navigated(d)' PROVE worker'[W(d)'].changedBy \in {d, Nobody}
  <2>1. CASE d = c
    BY <1>1, <1>2, <1>3, <2>1 DEF W, Navigated, Running
  <2>2. CASE d # c
    <3>1. run'[d] = run[d] /\ Navigated(d) /\ W(d)' = W(d)
      BY <1>1, <1>3, <2>2 DEF Navigated, Running, W
    <3>2. session[W(d)] = d /\ session[W(c)] = c
      BY <3>1 DEF IInv, Gates, Navigated
    <3>3. worker'[W(d)].changedBy = worker[W(d)].changedBy
      <4>1. W(d) # W(c) /\ W(d) \in Workers
        BY <2>2, <3>1, <3>2 DEF Navigated, Running, IInv, Sound, Placed, Active, RunPcs, W
      <4> QED
        BY <4>1 DEF Repaints
    <3> QED
      BY <3>1, <3>3 DEF IInv, TasksKeepApart
  <2> QED
    BY <2>1, <2>2
<1> QED
  BY <1>3 DEF TasksKeepApart

\* A worker that degrades keeps its page and its type.
LEMMA DegradesWell ==
    ASSUME IInv, NEW w \in Workers, Degrades(w) \/ UNCHANGED worker
    PROVE  worker' \in [Workers -> WorkerRecords] /\ PagesStay
BY DEF IInv, TypeOK, Degrades, WorkerRecords, PagesStay

\* A worker with another page has its type.
LEMMA ReplacedType ==
    ASSUME IInv, NEW w \in Workers, NEW d \in Callers \cup {Nobody}, worker' = Replaced(w, d)
    PROVE  worker' \in [Workers -> WorkerRecords]
BY DEF IInv, TypeOK, Replaced, WorkerRecords

\* A navigation that worked, a restart, a command that failed late: pages change at most
\* where c drives.
LEMMA RepaintsWell ==
    ASSUME IInv, NEW c \in Callers, W(c) \in Workers,
           worker' = Replaced(W(c), c) \/ Strikes(c)
    PROVE  Repaints(c) \/ (worker' \in [Workers -> WorkerRecords] /\ PagesStay)
<1>1. worker \in [Workers -> WorkerRecords]
  BY DEF IInv, TypeOK
<1>2. CASE worker' = Replaced(W(c), c)
  BY <1>1, <1>2 DEF Replaced, WorkerRecords, Repaints
<1>3. CASE Strikes(c) /\ Step(c) = "Navigate"
  BY <1>1, <1>3 DEF Strikes, WorkerRecords, Repaints
<1>4. CASE Strikes(c) /\ Step(c) # "Navigate"
  BY <1>1, <1>4 DEF Strikes, WorkerRecords, PagesStay
<1> QED
  BY <1>2, <1>3, <1>4

\* An empty record, and one of a task that starts.
LEMMA FreshIsSound ==
    /\ Sound(Idle)
    /\ \A w \in Workers, todo \in Tasks :
          Sound([Idle EXCEPT !.pc = "session", !.worker = w, !.task = todo, !.step = 1,
                             !.effects = [i \in 1 .. Len(todo) |-> 0]])
<1>1. Sound(Idle)
  BY DEF Sound, Idle, Once, RunRecords, RunPcs, Results, Active
<1>2. ASSUME NEW w \in Workers, NEW todo \in Tasks
      PROVE  Sound([Idle EXCEPT !.pc = "session", !.worker = w, !.task = todo, !.step = 1,
                                !.effects = [i \in 1 .. Len(todo) |-> 0]])
  <2> DEFINE effects == [i \in 1 .. Len(todo) |-> 0]
             t == [Idle EXCEPT !.pc = "session", !.worker = w, !.task = todo, !.step = 1,
                               !.effects = effects]
  <2>1. todo \in Seq(Steps) /\ todo # <<>> /\ Len(todo) \in Nat
    BY SessionAssumption
  <2>2. 1 \in 1 .. Len(todo)
    BY <2>1
  <2>3. /\ effects \in [1 .. Len(todo) -> Nat] /\ effects \in Seq(Nat)
        /\ DOMAIN effects = 1 .. Len(todo)
        /\ \A i \in 1 .. Len(todo) : effects[i] = 0
    BY <2>1
  <2> HIDE DEF effects
  <2>4. /\ t \in RunRecords /\ t.effects = effects /\ t.step = 1 /\ t.pc = "session"
        /\ t.result = "None" /\ t.worker = w /\ t.task = todo /\ t.retried = FALSE
    BY <2>3 DEF Idle, RunRecords, RunPcs, Results
  <2> HIDE DEF t
  <2>5. Placed(t)
    BY <2>1, <2>2, <2>3, <2>4 DEF Placed, Most
  <2>6. Once(t)
    <3>1. \A i \in 1 .. Len(todo) : i \in Nat /\ ~(i < 1)
      BY <2>1
    <3> QED
      BY <2>3, <2>4, <3>1 DEF Once
  <2>7. Sound(t)
    BY <2>4, <2>5, <2>6 DEF Sound
  <2> QED
    BY <2>7 DEF t, effects
<1> QED
  BY <1>1, <1>2

-----------------------------------------------------------------------------
(* What the actions have in common *)

\* What c does to the pages.
PagesBy(c) ==
    \/ worker' \in [Workers -> WorkerRecords] /\ PagesStay
    \/ Running(c) /\ Repaints(c)

\* The pages keep their type.
LEMMA PagesTyped ==
    ASSUME IInv, NEW c \in Callers, PagesBy(c)
    PROVE  worker' \in [Workers -> WorkerRecords]
BY DEF PagesBy, Repaints

\* A replaced page is one of the driver's own.
LEMMA DriversPage ==
    ASSUME IInv, NEW c \in Callers, Running(c), worker' = Replaced(W(c), c) \/ Strikes(c)
    PROVE  PagesBy(c) /\ (worker' = Replaced(W(c), c) => Repaints(c))
<1>1. W(c) \in Workers
  BY DEF IInv, Running, Sound, Placed, Active, RunPcs, W
<1>2. worker' = Replaced(W(c), c) => Repaints(c)
  BY <1>1 DEF IInv, TypeOK, Replaced, WorkerRecords, Repaints
<1> QED
  BY <1>1, <1>2, RepaintsWell DEF PagesBy

\* A task that goes on.
LEMMA GoesOn ==
    ASSUME IInv, NEW c \in Callers, NEW r, Sound(r), Becomes(c, r),
           UNCHANGED Guards, UNCHANGED runs, PagesBy(c),
           (r.pc = "slot") <=> At(c, "slot"), (r.pc \in Driving) <=> Running(c),
           r.worker = W(c),
           Moved(r) => Navigated(c) \/ (Running(c) /\ Repaints(c))
    PROVE  IInv'
<1>1. /\ run' \in [Callers -> RunRecords] /\ \A d \in Callers : Sound(run'[d])
  BY OneCall
<1>2. Gates'
  BY GatesKept
<1>3. TasksKeepApart'
  BY ApartKept, ApartReplaced DEF PagesBy
<1>4. TypeOK'
  BY <1>1, PagesTyped DEF IInv, TypeOK, Guards
<1> QED
  BY <1>1, <1>2, <1>3, <1>4 DEF IInv

\* A task that ends, in whatever way.
LEMMA Leaves ==
    ASSUME IInv, NEW c \in Callers, NEW r, Sound(r), Becomes(c, r), LetsGo(c),
           UNCHANGED runs, PagesBy(c), r.pc = "idle"
    PROVE  IInv'
<1>1. /\ run' \in [Callers -> RunRecords] /\ \A d \in Callers : Sound(run'[d])
  BY OneCall
<1>2. /\ Gates' /\ session' \in [Workers -> Callers \cup {Nobody}]
      /\ slots' \subseteq Callers /\ waiters' \in Nat
  BY GatesLeft
<1>3. ~Moved(r)
  BY DEF Moved, Driving
<1>4. TasksKeepApart'
  BY <1>3, ApartKept, ApartReplaced DEF PagesBy
<1>5. TypeOK'
  BY <1>1, <1>2, PagesTyped DEF IInv, TypeOK
<1> QED
  BY <1>1, <1>2, <1>4, <1>5 DEF IInv

\* A call under way that returns an error.
LEMMA ReturnsKeep ==
    ASSUME IInv, NEW c \in Callers, ~At(c, "idle"), NEW result \in Results \ {"Ok"},
           Returns(c, result), UNCHANGED runs, PagesBy(c)
    PROVE  IInv'
<1> DEFINE r == [run[c] EXCEPT !.pc = "idle", !.result = result, !.cancelled = FALSE]
<1>1. run[c] \in RunRecords /\ run[c].pc \in Active /\ Sound(run[c])
  BY DEF IInv, At, TypeOK, Active, RunRecords
<1>2. Sound(r)
  BY <1>1, ReturnIsSound
<1>3. Becomes(c, r) /\ LetsGo(c)
  BY DEF Returns, Becomes
<1>4. r.pc = "idle"
  BY <1>1 DEF RunRecords
<1> HIDE DEF r
<1> QED
  BY <1>2, <1>3, <1>4, Leaves

\* A step that takes effect.
LEMMA CompletesKeeps ==
    ASSUME IInv, NEW c \in Callers, run[c].pc \in {"sent", "resolved"}, Completes(c),
           UNCHANGED runs,
           (UNCHANGED worker /\ Step(c) # "Navigate") \/ worker' = Replaced(W(c), c)
    PROVE  IInv'
<1> DEFINE done == Struck(run[c])
           stops == run[c].cancelled /\ Step(c) # "WaitForSelector"
           rest == run[c].step < Len(run[c].task) /\ ~stops
           result == IF stops THEN "Cancelled" ELSE "Ok"
           over == [done EXCEPT !.pc = "idle", !.cancelled = FALSE, !.result = result]
<1>1. Sound(run[c]) /\ Placed(run[c]) /\ run[c] \in RunRecords /\ Running(c)
  BY DEF IInv, Sound, Active, RunPcs, Running
<1>2. PagesBy(c) /\ (Step(c) = "Navigate" => Repaints(c))
  BY <1>1, DriversPage DEF PagesBy, PagesStay, IInv, TypeOK
<1>3. CASE rest
  <2>1. Becomes(c, Advances(done)) /\ UNCHANGED Guards
    BY <1>3 DEF Completes, Becomes
  <2>2. Sound(Advances(done))
    BY <1>1, <1>3, EffectIsSound
  <2>3. /\ Advances(done).pc = "step" /\ Advances(done).worker = W(c)
        /\ Advances(done).task = run[c].task /\ Advances(done).step = run[c].step + 1
    BY <1>1 DEF Advances, Struck, RunRecords, W
  <2>4. Moved(Advances(done)) => Navigated(c) \/ Repaints(c)
    <3>1. ASSUME NEW i \in 1 .. (run[c].step + 1) - 1, run[c].task[i] = "Navigate",
                 Step(c) # "Navigate"
          PROVE  Navigated(c)
      <4>1. i # run[c].step /\ run[c].step \in Nat
        BY <1>1, <3>1 DEF Step, RunRecords
      <4>2. i \in 1 .. run[c].step - 1
        BY <3>1, <4>1
      <4> QED
        BY <1>1, <3>1, <4>2 DEF Navigated
    <3> QED
      BY <1>2, <2>3, <3>1 DEF Moved
  <2> HIDE DEF done
  <2>5. Advances(done).pc \in Driving /\ Advances(done).pc # "slot" /\ ~At(c, "slot")
    BY <1>1, <2>3 DEF Driving, At, Running
  <2> QED
    BY <1>1, <1>2, <2>1, <2>2, <2>3, <2>4, <2>5, GoesOn
<1>4. CASE ~rest
  <2>1. Becomes(c, over) /\ LetsGo(c)
    BY <1>4 DEF Completes, Becomes
  <2>2. result = "Ok" => run[c].step = Len(run[c].task)
    <3>1. run[c].step \in 1 .. Len(run[c].task) /\ Len(run[c].task) \in Nat
      BY <1>1, SessionAssumption DEF Placed
    <3> QED
      BY <1>4, <3>1
  <2>3. Sound(over)
    BY <1>1, <2>2, EffectIsSound
  <2>4. over.pc = "idle"
    BY <1>1 DEF Struck, RunRecords
  <2> HIDE DEF over
  <2> QED
    BY <1>2, <2>1, <2>3, <2>4, Leaves
<1> QED
  BY <1>3, <1>4

\* c changes its place and what it keeps of the page, and nothing else.
Moves(c, pc, ref, retried, missed, cancelled) ==
    Becomes(c, [run[c] EXCEPT !.pc = pc, !.ref = ref, !.retried = retried,
                              !.missed = missed, !.cancelled = cancelled])

\* A step that sets the place alone is such a move.
LEMMA PlaceOnly ==
    ASSUME NEW c \in Callers, NEW pc, run[c] \in RunRecords,
           run' = [run EXCEPT ![c].pc = pc]
    PROVE  Moves(c, pc, run[c].ref, run[c].retried, run[c].missed, run[c].cancelled)
<1>1. run' = [run EXCEPT ![c] = [run[c] EXCEPT !.pc = pc]]
  OBVIOUS
<1>2. [run[c] EXCEPT !.pc = pc] =
          [run[c] EXCEPT !.pc = pc, !.ref = run[c].ref, !.retried = run[c].retried,
                         !.missed = run[c].missed, !.cancelled = run[c].cancelled]
  BY DEF RunRecords
<1> QED
  BY <1>1, <1>2 DEF Moves, Becomes

\* A task under way that only changes its place and what it keeps of the page.
LEMMA MovesOn ==
    ASSUME IInv, NEW c \in Callers, NEW pc \in Active, NEW ref \in Nat,
           NEW retried \in BOOLEAN, NEW missed \in BOOLEAN, NEW cancelled \in BOOLEAN,
           ~At(c, "idle"), UNCHANGED Guards, UNCHANGED runs, PagesBy(c),
           Moves(c, pc, ref, retried, missed, cancelled),
           (pc = "slot") <=> At(c, "slot"), (pc \in Driving) <=> Running(c),
           pc \in {"session", "slot"} => pc = run[c].pc,
           pc = "resolved" => Step(c) # "Navigate",
           pc = "restart" => run[c].step = 1 /\ run[c].task[1] = "Navigate",
           run[c].retried => retried, retried => run[c].retried \/ At(c, "restart"),
           At(c, "restart") => retried \/ pc = "restart"
    PROVE  IInv'
<1> DEFINE r == [run[c] EXCEPT !.pc = pc, !.ref = ref, !.retried = retried,
                               !.missed = missed, !.cancelled = cancelled]
<1>1. Sound(run[c]) /\ Placed(run[c]) /\ run[c] \in RunRecords
  BY DEF IInv, Sound, Active, RunPcs, At, RunRecords
<1>2. /\ r \in RunRecords /\ r.pc = pc /\ r.worker = run[c].worker /\ r.task = run[c].task
      /\ r.step = run[c].step /\ r.effects = run[c].effects /\ r.result = run[c].result
      /\ r.retried = retried
  BY <1>1 DEF RunRecords, Active
<1> HIDE DEF r
<1>3. Placed(r)
  <2>1. \A i \in 1 .. Len(run[c].task) : Most(run[c], i) = Most(r, i) \/ (Most(run[c], i) = 1 /\ Most(r, i) = 2)
    BY <1>1, <1>2 DEF Most, At
  <2>2. /\ Len(run[c].task) \in Nat /\ run[c].step \in Nat
        /\ \A i \in 1 .. Len(run[c].task) : run[c].effects[i] \in Nat
    BY <1>1, SessionAssumption DEF Placed, RunRecords
  <2>3. \A i \in 1 .. Len(r.task) :
           /\ i < r.step => r.effects[i] \in 1 .. Most(r, i)
           /\ i = r.step => r.effects[i] < Most(r, i)
           /\ i > r.step => r.effects[i] = 0
    BY <1>1, <1>2, <2>1, <2>2 DEF Placed
  <2> QED
    BY <1>1, <1>2, <2>3 DEF Placed, Step
<1>4. Sound(r)
  <2>1. DOMAIN run[c].effects = 1 .. Len(run[c].task)
    BY <1>1 DEF Placed
  <2>2. Once(r)
    BY <1>1, <1>2, <2>1 DEF Sound, Once, Placed, At
  <2> QED
    BY <1>2, <1>3, <2>2 DEF Sound
<1>5. Moved(r) => Navigated(c)
  BY <1>2 DEF Moved, Navigated
<1> QED
  BY <1>2, <1>4, <1>5, GoesOn DEF W, r, Moves

\* A task that drives a browser, before and after.
LEMMA DrivesOn ==
    ASSUME IInv, NEW c \in Callers, NEW pc \in Driving, NEW ref \in Nat,
           NEW retried \in BOOLEAN, NEW missed \in BOOLEAN, NEW cancelled \in BOOLEAN,
           run[c].pc \in Driving, UNCHANGED <<Guards, runs>>, PagesBy(c),
           Moves(c, pc, ref, retried, missed, cancelled),
           pc = "resolved" => Step(c) # "Navigate",
           pc = "restart" => run[c].step = 1 /\ run[c].task[1] = "Navigate",
           run[c].retried => retried, retried => run[c].retried \/ At(c, "restart"),
           At(c, "restart") => retried \/ pc = "restart"
    PROVE  IInv'
<1>1. pc \in Active /\ pc \notin {"session", "slot"} /\ ~At(c, "idle") /\ ~At(c, "slot")
  BY DEF Driving, Active, RunPcs, At
<1>2. Running(c)
  BY DEF Running, Driving
<1> QED
  BY <1>1, <1>2, MovesOn

-----------------------------------------------------------------------------
\* The invariant holds at the start.
LEMMA InitKeeps == Init => IInv
<1> SUFFICES ASSUME Init PROVE IInv
  OBVIOUS
<1>1. \A c \in Callers : run[c] = Idle /\ Sound(run[c])
  BY FreshIsSound DEF Init
<1>2. TypeOK
  BY <1>1, SessionAssumption DEF Init, TypeOK, WorkerRecords, Sound
<1>3. Drivers = {} /\ Waiting = {}
  BY <1>1 DEF Drivers, Waiting, Running, At, Idle
<1>4. Gates
  BY <1>1, <1>3, FS_EmptySet, SessionAssumption DEF Gates, Init, Running, At, Idle
<1>5. TasksKeepApart
  BY <1>1 DEF TasksKeepApart, Navigated, Running, Idle
<1> QED
  BY <1>1, <1>2, <1>4, <1>5 DEF IInv

\* Starting and passing the session gate.
LEMMA EntryKeeps ==
    ASSUME IInv, NEW c \in Callers, Start(c) \/ LocksSession(c)
    PROVE  IInv'
<1>1. CASE Start(c)
  <2>1. PICK w \in Workers, todo \in Tasks :
            Becomes(c, [Idle EXCEPT !.pc = "session", !.worker = w, !.task = todo, !.step = 1,
                                    !.effects = [i \in 1 .. Len(todo) |-> 0]])
    BY <1>1 DEF Start, Becomes
  <2> DEFINE r == [Idle EXCEPT !.pc = "session", !.worker = w, !.task = todo, !.step = 1,
                               !.effects = [i \in 1 .. Len(todo) |-> 0]]
  <2>2. Sound(r)
    BY FreshIsSound
  <2>3. r.pc = "session"
    BY DEF Idle
  <2>4. Becomes(c, r)
    BY <2>1
  <2> HIDE DEF r
  <2>5. UNCHANGED Guards /\ UNCHANGED worker /\ runs' = runs + 1 /\ At(c, "idle")
    BY <1>1 DEF Start
  <2>6. Gates'
    BY <2>2, <2>3, <2>4, <2>5, GatesKept DEF Driving, At, Running
  <2>7. TasksKeepApart'
    BY <2>2, <2>3, <2>4, <2>5, ApartKept DEF PagesStay, Moved, Driving
  <2>8. run' \in [Callers -> RunRecords] /\ \A d \in Callers : Sound(run'[d])
    BY <2>2, <2>4, OneCall
  <2>9. TypeOK'
    BY <2>5, <2>8 DEF IInv, TypeOK, Guards
  <2> QED
    BY <2>6, <2>7, <2>8, <2>9 DEF IInv
<1>2. CASE LocksSession(c)
  <2> DEFINE r == [run[c] EXCEPT !.pc = "slot"]
  <2>1. Sound(run[c]) /\ run[c].pc = "session" /\ run[c] \in RunRecords
    BY <1>2 DEF LocksSession, At, IInv, Sound
  <2>2. Sound(r)
    BY <2>1, PcStaysSound DEF Active, RunPcs, Sound, Placed
  <2>3. r.pc = "slot" /\ r.worker = W(c)
    BY <2>1 DEF RunRecords, W
  <2>4. Becomes(c, r)
    BY <1>2 DEF LocksSession, Becomes
  <2> HIDE DEF r
  <2>5. /\ run' \in [Callers -> RunRecords] /\ run'[c] = r
        /\ \A d \in Callers \ {c} : run'[d] = run[d]
        /\ \A d \in Callers : Sound(run'[d])
    BY <2>2, <2>4, OneCall
  <2>6. /\ session' = [session EXCEPT ![W(c)] = c] /\ session[W(c)] = Nobody
        /\ waiters' = waiters + 1 /\ UNCHANGED <<worker, slots, runs>>
    BY <1>2 DEF LocksSession
  <2>7. Waiting' = Waiting \cup {c} /\ c \notin Waiting /\ Drivers' = Drivers
    BY <2>1, <2>3, <2>5 DEF Waiting, Drivers, At, Running
  <2>8. /\ IsFiniteSet(Waiting') /\ waiters' = Cardinality(Waiting')
        /\ slots' = Drivers' /\ IsFiniteSet(slots') /\ Cardinality(slots') <= MaxInFlight
    BY <2>6, <2>7, FS_AddElement DEF IInv, Gates
  <2>9. ASSUME NEW d \in Callers, At(d, "slot")' \/ Running(d)'
        PROVE  session'[W(d)'] = d
    <3>0. W(c) \in Workers
      BY <2>1 DEF Sound, Placed, Active, RunPcs, W
    <3>1. CASE d = c
      BY <2>3, <2>5, <2>6, <3>0, <3>1 DEF W, IInv, TypeOK
    <3>2. CASE d # c
      <4>1. run'[d] = run[d] /\ session[W(d)] = d
        BY <2>5, <2>9, <3>2 DEF IInv, Gates, At, Running
      <4>2. W(d) # W(c)
        BY <2>6, <4>1, SessionAssumption
      <4> QED
        BY <2>6, <4>1, <4>2 DEF W, IInv, TypeOK
    <3> QED
      BY <3>1, <3>2
  <2>10. Gates'
    BY <2>8, <2>9 DEF Gates
  <2>11. TasksKeepApart'
    BY <2>2, <2>3, <2>4, <2>6, ApartKept DEF PagesStay, Moved, Driving
  <2>12. TypeOK'
    <3>1. session' \in [Workers -> Callers \cup {Nobody}]
      BY <2>6 DEF IInv, TypeOK
    <3> QED
      BY <2>5, <2>6, <3>1 DEF IInv, TypeOK
  <2> QED
    BY <2>5, <2>10, <2>11, <2>12 DEF IInv
<1> QED
  BY <1>1, <1>2

\* Taking a command slot: one waiter less, one task more that drives.
LEMMA TakesSlotKeeps ==
    ASSUME IInv, NEW c \in Callers, TakesSlot(c)
    PROVE  IInv'
<1> DEFINE r == [run[c] EXCEPT !.pc = "step"]
<1>1. Sound(run[c]) /\ run[c].pc = "slot" /\ run[c] \in RunRecords
  BY DEF TakesSlot, At, IInv, Sound
<1>2. Sound(r) /\ run[c].step = 1
  BY <1>1, PcStaysSound DEF Active, RunPcs, Sound, Placed
<1>3. r.pc = "step" /\ r.worker = W(c) /\ r.step = run[c].step /\ r.task = run[c].task
  BY <1>1 DEF RunRecords, W
<1>4. Becomes(c, r)
  BY DEF TakesSlot, Becomes
<1> HIDE DEF r
<1>5. /\ run' \in [Callers -> RunRecords] /\ run'[c] = r
      /\ \A d \in Callers \ {c} : run'[d] = run[d]
      /\ \A d \in Callers : Sound(run'[d])
  BY <1>2, <1>4, OneCall
<1>6. /\ slots' = slots \cup {c} /\ Cardinality(slots) < MaxInFlight
      /\ waiters' = waiters - 1 /\ UNCHANGED <<worker, session, runs>>
  BY DEF TakesSlot
<1>7. /\ Waiting' = Waiting \ {c} /\ c \in Waiting
      /\ Drivers' = Drivers \cup {c} /\ c \notin Drivers
  BY <1>1, <1>3, <1>5 DEF Waiting, Drivers, At, Running
<1>8. IsFiniteSet(Waiting') /\ waiters' = Cardinality(Waiting') /\ waiters' \in Nat
  <2>1. IsFiniteSet(Waiting) /\ waiters = Cardinality(Waiting)
    BY DEF IInv, Gates
  <2>2. IsFiniteSet(Waiting') /\ Cardinality(Waiting') = Cardinality(Waiting) - 1
    BY <1>7, <2>1, FS_RemoveElement
  <2> QED
    BY <1>6, <2>1, <2>2, FS_CardinalityType
<1>9. slots' = Drivers' /\ IsFiniteSet(slots') /\ Cardinality(slots') <= MaxInFlight
  <2>1. slots = Drivers /\ IsFiniteSet(slots) /\ Cardinality(slots) \in Nat
    BY FS_CardinalityType DEF IInv, Gates
  <2>2. IsFiniteSet(slots') /\ Cardinality(slots') = Cardinality(slots) + 1
    BY <1>6, <1>7, <2>1, FS_AddElement
  <2> QED
    BY <1>6, <1>7, <2>1, <2>2, SessionAssumption
<1>10. \A d \in Callers : At(d, "slot")' \/ Running(d)' => session'[W(d)'] = d
  BY <1>1, <1>3, <1>5, <1>6 DEF IInv, Gates, At, Running, W
<1>11. Gates'
  BY <1>8, <1>9, <1>10 DEF Gates
<1>12. TasksKeepApart'
  BY <1>2, <1>3, <1>4, <1>6, ApartKept DEF PagesStay, Moved
<1>13. TypeOK'
  BY <1>5, <1>6, <1>8 DEF IInv, TypeOK
<1> QED
  BY <1>5, <1>11, <1>12, <1>13 DEF IInv

\* The steps of a task that has both gates.
LEMMA TaskKeeps ==
    ASSUME IInv, NEW c \in Callers,
           TaskStep(c) \/ PollsAgain(c) \/ WaitExpires(c) \/ RaisesCancel(c)
    PROVE  IInv'
<1>1. /\ run[c] \in RunRecords /\ run[c].ref \in Nat /\ run[c].retried \in BOOLEAN
      /\ run[c].missed \in BOOLEAN /\ run[c].cancelled \in BOOLEAN
      /\ (~At(c, "idle") => run[c].pc \in Active)
  BY DEF IInv, Sound, RunRecords, Active, At
<1>2. ~At(c, "idle") => W(c) \in Workers
  BY DEF IInv, Sound, Placed, Active, RunPcs, RunRecords, At, W
<1>3. UNCHANGED worker => PagesBy(c)
  BY DEF PagesBy, PagesStay, IInv, TypeOK
<1>4. ~At(c, "idle") /\ Degrades(W(c)) => PagesBy(c)
  BY <1>2, DegradesWell DEF PagesBy
<1>5. CASE TakesSlot(c)
  BY <1>5, TakesSlotKeeps
<1>6. CASE SeesCancel(c)
  BY <1>3, <1>6, ReturnsKeep DEF SeesCancel, At, Results
<1>7. CASE Sends(c)
  <2>1. Moves(c, "sent", run[c].ref, run[c].retried, run[c].missed, run[c].cancelled)
    BY <1>1, <1>7, PlaceOnly DEF Sends
  <2>2. run[c].pc \in Driving /\ ~At(c, "restart") /\ UNCHANGED <<Guards, runs>>
    BY <1>7 DEF Sends, Sent, At, Driving
  <2>3. PagesBy(c)
    BY <1>3, <1>7 DEF Sends
  <2> QED
    BY <1>1, <2>1, <2>2, <2>3, DrivesOn DEF Driving
<1>8. CASE NavigateWorks(c)
  BY <1>8, CompletesKeeps DEF NavigateWorks, Sent, At
<1>9. CASE RetriesFirst(c)
  <2>1. /\ run[c].pc = "sent" /\ run[c].pc \in Driving /\ UNCHANGED <<Guards, runs>> /\ Running(c)
        /\ run[c].step = 1 /\ run[c].task[1] = "Navigate" /\ ~run[c].retried
    BY <1>9 DEF RetriesFirst, Sent, At, Step, Driving, Running
  <2>2. CASE Breaks(c) /\ run' = [run EXCEPT ![c].pc = "restart"]
    <3>1. Moves(c, "restart", run[c].ref, run[c].retried, run[c].missed, run[c].cancelled)
      BY <1>1, <2>2, PlaceOnly
    <3>2. PagesBy(c)
      BY <1>4, <2>1, <2>2 DEF Breaks, At
    <3> QED
      BY <1>1, <2>1, <3>1, <3>2, DrivesOn DEF Driving, At
  <2>3. CASE BreaksLate(c) /\ run' = [run EXCEPT ![c] = [Struck(run[c]) EXCEPT !.pc = "restart"]]
    <3> DEFINE r == [Struck(run[c]) EXCEPT !.pc = "restart"]
    <3>1. Sound(run[c]) /\ Sound(r)
      BY <2>1, EffectIsSound DEF IInv
    <3>2. /\ r.pc = "restart" /\ r.worker = W(c) /\ r.step = 1
      BY <1>1, <2>1 DEF Struck, RunRecords, W
    <3>3. PagesBy(c) /\ Becomes(c, r)
      BY <2>1, <2>3, DriversPage DEF BreaksLate, Becomes
    <3> HIDE DEF r
    <3> QED
      BY <2>1, <3>1, <3>2, <3>3, GoesOn DEF Moved, Driving, At
  <2> QED
    BY <1>9, <2>2, <2>3 DEF RetriesFirst
<1>10. CASE Restarts(c)
  <2>1. CASE worker' = Replaced(W(c), c) /\ UNCHANGED Guards
             /\ run' = [run EXCEPT ![c].pc = "sent", ![c].retried = TRUE]
    <3>1. Moves(c, "sent", run[c].ref, TRUE, run[c].missed, run[c].cancelled)
      BY <1>1, <2>1 DEF Moves, Becomes, RunRecords
    <3>2. PagesBy(c)
      BY <1>10, <2>1, DriversPage DEF Restarts, At, Running
    <3>3. run[c].pc \in Driving /\ UNCHANGED <<Guards, runs>> /\ At(c, "restart")
      BY <1>10, <2>1 DEF Restarts, Sent, At, Driving
    <3> QED
      BY <1>1, <3>1, <3>2, <3>3, DrivesOn DEF Driving, Sent
  <2>2. CASE Degrades(W(c)) /\ Returns(c, "StepFailed")
    BY <1>4, <1>10, <2>2, ReturnsKeep DEF Restarts, At, Results
  <2> QED
    BY <1>10, <2>1, <2>2 DEF Restarts
<1>11. CASE Resolves(c)
  <2>1. worker[W(c)].epoch \in Nat
    BY <1>2, <1>11 DEF Resolves, Sent, At, IInv, TypeOK, WorkerRecords
  <2>2. Moves(c, "resolved", worker[W(c)].epoch, run[c].retried, run[c].missed, run[c].cancelled)
    BY <1>1, <1>11 DEF Resolves, Moves, Becomes, RunRecords
  <2>3. run[c].pc \in Driving /\ ~At(c, "restart") /\ UNCHANGED <<Guards, runs>>
    BY <1>11 DEF Resolves, Sent, At, Driving
  <2>4. PagesBy(c) /\ Step(c) # "Navigate"
    BY <1>3, <1>11 DEF Resolves, Sent
  <2> QED
    BY <1>1, <2>1, <2>2, <2>3, <2>4, DrivesOn DEF Driving
<1>12. CASE UsesElement(c)
  <2>1. Step(c) # "Navigate"
    BY <1>12 DEF UsesElement, At, IInv, Sound, Placed, Active, RunPcs, Step
  <2> QED
    BY <1>12, <2>1, CompletesKeeps DEF UsesElement, At
<1>13. CASE StepFails(c)
  <2>1. ~At(c, "idle")
    BY <1>13 DEF StepFails, Sent, At
  <2>2. PagesBy(c)
    BY <1>3, <1>4, <1>13, <2>1 DEF StepFails, Unavailable, Breaks, FindsNothing
  <2> QED
    BY <1>13, <2>1, <2>2, ReturnsKeep DEF StepFails, Results
<1>19. CASE StepFailsLate(c)
  <2> DEFINE r == [Struck(run[c]) EXCEPT !.pc = "idle", !.cancelled = FALSE, !.result = "StepFailed"]
  <2>1. run[c].pc \in {"sent", "resolved"} /\ Running(c)
    BY <1>19 DEF StepFailsLate, Sent, At, Running
  <2>2. Sound(r)
    BY <2>1, EffectIsSound DEF IInv
  <2>3. r.pc = "idle"
    BY <1>1 DEF Struck, RunRecords
  <2>4. PagesBy(c) /\ Becomes(c, r) /\ LetsGo(c) /\ UNCHANGED runs
    BY <1>19, <2>1, DriversPage DEF StepFailsLate, BreaksLate, Becomes
  <2> HIDE DEF r
  <2> QED
    BY <2>2, <2>3, <2>4, Leaves
<1>14. CASE PollFinds(c)
  BY <1>14, CompletesKeeps DEF PollFinds, Sent, At
<1>15. CASE PollMisses(c)
  <2>1. Moves(c, "polled", run[c].ref, run[c].retried, ~Present(c), run[c].cancelled)
    BY <1>1, <1>15 DEF PollMisses, Moves, Becomes, RunRecords
  <2>2. PagesBy(c)
    BY <1>3, <1>4, <1>15 DEF PollMisses, Sent, At, Unavailable, Breaks, FindsNothing
  <2>3. (~Present(c)) \in BOOLEAN
    OBVIOUS
  <2>4. run[c].pc \in Driving /\ ~At(c, "restart") /\ UNCHANGED <<Guards, runs>>
    BY <1>15 DEF PollMisses, Sent, At, Driving
  <2> QED
    BY <1>1, <2>1, <2>2, <2>3, <2>4, DrivesOn DEF Driving, Sent
<1>16. CASE PollsAgain(c)
  <2>1. Moves(c, "step", run[c].ref, run[c].retried, run[c].missed, run[c].cancelled)
    BY <1>1, <1>16 DEF PollsAgain, Moves, Becomes, RunRecords
  <2>2. run[c].pc \in Driving /\ ~At(c, "restart") /\ UNCHANGED <<Guards, runs>>
    BY <1>16 DEF PollsAgain, Sent, At, Driving
  <2>3. PagesBy(c)
    BY <1>3, <1>16 DEF PollsAgain
  <2> QED
    BY <1>1, <2>1, <2>2, <2>3, DrivesOn DEF Driving
<1>17. CASE WaitExpires(c)
  BY <1>3, <1>17, ReturnsKeep DEF WaitExpires, At, Results
<1>18. CASE RaisesCancel(c)
  <2>1. Moves(c, run[c].pc, run[c].ref, run[c].retried, run[c].missed, TRUE)
    BY <1>1, <1>18 DEF RaisesCancel, Moves, Becomes, RunRecords
  <2>2. /\ run[c].pc = "resolved" => Step(c) # "Navigate"
        /\ run[c].pc = "restart" => run[c].step = 1 /\ run[c].task[1] = "Navigate"
    BY DEF IInv, Sound, Placed, Active, RunPcs, Step
  <2> QED
    BY <1>1, <1>3, <1>18, <2>1, <2>2, MovesOn DEF RaisesCancel, Active, RunPcs, Driving, Running, At
<1> QED
  BY <1>5, <1>6, <1>7, <1>8, <1>9, <1>10, <1>11, <1>12, <1>13, <1>14, <1>15, <1>16, <1>17, <1>18, <1>19
     DEF TaskStep

\* A caller that goes away, its last command done or not.
LEMMA DropKeeps ==
    ASSUME IInv, NEW c \in Callers, DropsTask(c)
    PROVE  IInv'
<1>1. W(c) \in Workers
  BY DEF DropsTask, IInv, Sound, Placed, Active, RunPcs, RunRecords, At, W
<1>2. PagesBy(c)
  <2>1. CASE UNCHANGED worker
    BY <2>1 DEF PagesBy, PagesStay, IInv, TypeOK
  <2>2. CASE Degrades(W(c))
    BY <1>1, <2>2, DegradesWell DEF PagesBy
  <2>3. CASE Running(c) /\ (worker' = Replaced(W(c), c) \/ Strikes(c))
    BY <2>3, DriversPage
  <2> QED
    BY <2>1, <2>2, <2>3 DEF DropsTask, Breaks, BreaksLate, FindsNothing, Sent, At, Running
<1> QED
  BY <1>2, FreshIsSound, Leaves DEF DropsTask, Becomes, Idle

\* What happens to a worker outside the tasks: lease() repairs it, its page changes by itself.
LEMMA WorkerKeeps ==
    ASSUME IInv, NEW w \in Workers, LeaseRepairs(w) \/ ElementAppears(w)
    PROVE  IInv'
<1>1. UNCHANGED <<Guards, run>>
  BY DEF LeaseRepairs, ElementAppears
<1>2. /\ worker' \in [Workers -> WorkerRecords] /\ runs' \in Nat
      /\ \A v \in Workers : worker'[v].changedBy \in {worker[v].changedBy, Nobody}
  <2>1. CASE LeaseRepairs(w)
    BY <2>1, ReplacedType DEF LeaseRepairs, Replaced, IInv, TypeOK, WorkerRecords
  <2>2. CASE ElementAppears(w)
    BY <2>2 DEF ElementAppears, IInv, TypeOK, WorkerRecords
  <2> QED
    BY <2>1, <2>2
<1>3. TypeOK'
  BY <1>1, <1>2 DEF IInv, TypeOK, Guards
<1>4. Gates'
  BY <1>1 DEF IInv, Gates, Guards, Drivers, Waiting, At, Running, W
<1>5. TasksKeepApart'
  <2> SUFFICES ASSUME NEW c \in Callers, Navigated(c)'
               PROVE  worker'[W(c)'].changedBy \in {c, Nobody}
    BY DEF TasksKeepApart
  <2>1. Navigated(c) /\ W(c)' = W(c) /\ W(c) \in Workers
    BY <1>1 DEF Navigated, Running, IInv, Sound, Placed, Active, RunPcs, W
  <2> QED
    BY <1>2, <2>1 DEF IInv, TasksKeepApart
<1> QED
  BY <1>1, <1>3, <1>4, <1>5 DEF IInv

\* The invariant in every reachable state, by the lemmas above, one for each kind of action.
LEMMA Inductive == Spec => []IInv
<1>1. IInv /\ [Next]_vars => IInv'
  <2> SUFFICES ASSUME IInv, [Next]_vars PROVE IInv'
    OBVIOUS
  <2>1. CASE UNCHANGED vars
    BY <2>1 DEF vars, IInv, TypeOK, Gates, Drivers, Waiting, TasksKeepApart, Navigated,
                Running, At, W
  <2>2. CASE Next
    BY <2>2, EntryKeeps, TaskKeeps, DropKeeps, WorkerKeeps DEF Next
  <2> QED
    BY <2>1, <2>2
<1> QED
  BY <1>1, InitKeeps, PTL DEF Spec

-----------------------------------------------------------------------------
\* The variables have their types (BrowserLease and the gates it waits at).
THEOREM TypeCorrect == Spec => []TypeOK
<1>1. IInv => TypeOK
  BY DEF IInv
<1> QED
  BY <1>1, Inductive, PTL

\* However many callers come and give up, at most max_in_flight of them drive a
\* browser, each inside its session, and the published number of waiters is the
\* number of those that wait (CommandWaiter).
THEOREM AdmissionCounted == Spec => []AdmissionIsCounted
<1>1. IInv => AdmissionIsCounted
  BY DEF IInv, Gates, Drivers, Waiting, AdmissionIsCounted
<1> QED
  BY <1>1, Inductive, PTL

\* No task replaces the page under another one, not even one whose caller gave
\* up with a command on its way (session_gate).
THEOREM TasksApart == Spec => []TasksKeepApart
<1>1. IInv => TasksKeepApart
  BY DEF IInv
<1> QED
  BY <1>1, Inductive, PTL

\* No step of a task takes effect twice but a navigation that opens it, and none is left
\* out, whatever fails before or after its effect, is restarted, repaired or cancelled
\* (run_task_controlled).
THEOREM EffectsOnce == Spec => []StepsTakeEffectOnce
<1>1. IInv => StepsTakeEffectOnce
  BY DEF IInv, Sound, Once, StepsTakeEffectOnce
<1> QED
  BY <1>1, Inductive, PTL

-----------------------------------------------------------------------------
(* TaskContract *)

\* What the station's own validation asks for, the protocol's has asked for.
LEMMA StationAcceptsTheValid ==
    ASSUME NEW steps, ValidTask(steps)
    PROVE  StationAccepts(steps)
  BY DEF ValidTask, StationAccepts

\* The capabilities the lease checks at the end are those the server asked for.
LEMMA NeededIsAskedFor ==
    ASSUME NEW steps
    PROVE  Needed(steps) \subseteq TaskCapabilities(steps)
<1>1. SUFFICES ASSUME NEW c \in DOMAIN NeededFor, NEW i \in DOMAIN steps,
                      steps[i].kind \in NeededFor[c]
               PROVE  c \in Asks(steps[i].kind)
  BY DEF Needed, TaskCapabilities
<1>2. c \in {"Navigate", "Scroll", "Keyboard", "Inspect", "Interact", "Evaluate", "Capture",
      "Lifecycle"}
  BY DEF NeededFor
<1>3. /\ NeededFor["Navigate"] = {"Navigate"} /\ NeededFor["Scroll"] = {"Wheel"}
      /\ NeededFor["Keyboard"] = {"KeyPress"} /\ NeededFor["Inspect"] = OnElement \cup Looking
      /\ NeededFor["Interact"] = OnElement /\ NeededFor["Evaluate"] = {"Evaluate"}
      /\ NeededFor["Capture"] = {"Capture", "WaitForDownload"}
         /\ NeededFor["Lifecycle"] = {"SwitchToTab"}
  BY DEF NeededFor
<1>4. QED BY <1>1, <1>2, <1>3 DEF Asks, OnElement, Looking

\* So are those the commands of a step demand.
LEMMA DemandsAreAskedFor ==
    ASSUME NEW steps, NEW i \in DOMAIN steps, steps[i].kind \in StepKinds,
           NEW command \in Commands(steps, i)
    PROVE  Demands(command) \in TaskCapabilities(steps)
<1>1. Demands(command) \in {"Lifecycle"} \cup Asks(steps[i].kind)
  BY DEF Commands, Demands, Asks, StepKinds, Timed, OnElement, Looking
<1>2. QED BY <1>1 DEF TaskCapabilities

\* A choice that is constrained to one runtime is that one.
LEMMA OneIsChosen ==
    ASSUME NEW S, IsFiniteSet(S), ~ Cardinality(S) > 1, NEW k \in S
    PROVE  S = {k}
<1>1. Cardinality(S) \in Nat
  BY FS_CardinalityType
<1>2. ASSUME NEW j \in S, j # k
      PROVE  FALSE
  <2>1. IsFiniteSet({j, k}) /\ Cardinality({j, k}) = 2
    <3>1. IsFiniteSet({j}) /\ Cardinality({j}) = 1
      BY FS_Singleton
    <3>2. IsFiniteSet({j} \cup {k}) /\ Cardinality({j} \cup {k}) = 2
      BY <1>2, <3>1, FS_AddElement
    <3>3. {j} \cup {k} = {j, k}
      OBVIOUS
    <3>4. QED BY <3>2, <3>3
  <2>2. Cardinality({j, k}) <= Cardinality(S)
    BY <1>2, FS_Subset
  <2>3. QED BY <1>1, <2>1, <2>2
<1>3. QED BY <1>2

\* What the runtime was chosen by.
LEMMA SelectorsAreFinite ==
    ASSUME NEW s, NEW t, NEW p, p.preset \in {"None"} \cup DOMAIN Presets
    PROVE  IsFiniteSet(Selectors(s, t, p))
<1>1. IsFiniteSet({s.selector}) /\ IsFiniteSet({t.selector})
  BY FS_Singleton
<1>2. IsFiniteSet({s.selector} \cup {t.selector})
  BY <1>1, FS_Union
<1>3. {s.selector, t.selector} \ {"Auto"} \in SUBSET ({s.selector} \cup {t.selector})
  OBVIOUS
<1>4. IsFiniteSet({s.selector, t.selector} \ {"Auto"})
  BY <1>2, <1>3, FS_Subset
<1>5. IsFiniteSet({"Chrome", "Edge"}) /\ IsFiniteSet({"Chrome"}) /\ IsFiniteSet({"Edge"})
      /\ IsFiniteSet({"Firefox"})
  <2>1. IsFiniteSet({"Chrome"}) /\ IsFiniteSet({"Edge"}) /\ IsFiniteSet({"Firefox"})
    BY FS_Singleton
  <2>2. IsFiniteSet({"Chrome"} \cup {"Edge"})
    BY <2>1, FS_Union
  <2>3. {"Chrome"} \cup {"Edge"} = {"Chrome", "Edge"}
    OBVIOUS
  <2>4. QED BY <2>1, <2>2, <2>3
<1>6. IsFiniteSet({})
  BY FS_EmptySet
<1>7. Required(p.preset) \in {{}, {"Chrome", "Edge"}, {"Chrome"}, {"Edge"}, {"Firefox"}}
  BY DEF Required, Presets
<1>8. IsFiniteSet(Required(p.preset))
  BY <1>5, <1>6, <1>7
<1>9. QED BY <1>4, <1>8, FS_Union DEF Selectors

TaskRecords ==
    [steps : Seq(TaskSteps), selector : Kinds \cup {"Auto"},
     requires : [features : SUBSET STRING, partial : BOOLEAN]]
ReplyRecords == [kind : Replies, size : Sizes]

Begun == {"Drafted", "Received", "Admitted"}
Gated == {"Admitted", "Leased", "Ran", "Answered"}

\* What each station of the way has established.
ContractInv ==
    /\ task \in TaskRecords /\ persona.preset \in {"None"} \cup DOMAIN Presets
    /\ replies \in Seq(ReplyRecords) /\ ContractTypeOK
    /\ at \in Begun => runtime = "None" /\ carried = {} /\ replies = <<>>
    /\ at \in Gated \cup {"Received"} => ValidTask(task.steps)
    /\ at \in Gated => /\ asked_for = TaskCapabilities(task.steps)
                       /\ \A i \in DOMAIN task.steps :
                          Gate(task.steps[i].kind) \subseteq station.gates
    /\ at = "Leased" => /\ asked_for \subseteq station.capabilities /\ runtime \in Kinds
                        /\ Len(replies) < Len(task.steps)
    /\ NoLateRefusal /\ NothingUngated /\ RuntimeIsGranted

\* Steps keep their kinds on the wire.
LEMMA TheWireKeepsKinds ==
    ASSUME NEW steps \in Seq(TaskSteps)
    PROVE  OnTheWire(steps) \in Seq(TaskSteps)
<1>1. /\ Len(steps) \in Nat /\ DOMAIN steps = 1 .. Len(steps)
      /\ \A i \in 1 .. Len(steps) : steps[i] \in TaskSteps
  OBVIOUS
<1>2. \A n \in Nat : 2 * (n \div 2) \in Nat
  OBVIOUS
<1>3. \A i \in 1 .. Len(steps) : [steps[i] EXCEPT !.units = 2 * (@ \div 2)] \in TaskSteps
  BY <1>1, <1>2 DEF TaskSteps
<1>4. QED BY <1>1, <1>3 DEF OnTheWire

\* A request that is refused for another reason than the two leaves everything as it was.
LEMMA RefusedIsLeft ==
    ASSUME ContractInv, NEW why, Refuse(why), at # "Refused",
           why \in {"Undecodable", "Gate", "Target", "CapabilityDenied", "SelectionDenied",
           "NoRuntime",
                    "NotContained", "PersonaMismatch", "Unavailable", "NoSurface", "StepFailed",
                    "InvalidResult", "TooLarge"}
    PROVE  ContractInv'
<1>1. ContractTypeOK'
  BY DEF ContractInv, ContractTypeOK, Refuse
<1>2. NoLateRefusal' /\ NothingUngated' /\ RuntimeIsGranted'
  BY DEF ContractInv, Refuse, NoLateRefusal, NothingUngated, RuntimeIsGranted
<1>3. QED BY <1>1, <1>2 DEF ContractInv, Refuse, Begun, Gated

\* SendsTask.
LEMMA SendsInv ==
    ASSUME ContractInv, SendsTask
    PROVE  ContractInv'
<1> DEFINE steps == OnTheWire(task.steps)
<1>0. at = "Drafted"
  BY DEF SendsTask
<1>1. CASE ~ ValidTask(steps)
  BY <1>0, <1>1, RefusedIsLeft DEF SendsTask
<1>2. CASE ValidTask(steps)
  <2>1. /\ at' = "Received" /\ task' = [task EXCEPT !.steps = steps]
        /\ UNCHANGED <<persona, station, runtime, asked_for, carried, replies, refusal>>
        /\ runtime = "None" /\ carried = {} /\ replies = <<>>
    BY <1>0, <1>2 DEF SendsTask, ContractInv, Begun
  <2>2. steps \in Seq(TaskSteps)
    BY TheWireKeepsKinds DEF ContractInv, TaskRecords
  <2> HIDE DEF steps
  <2>3. task' \in TaskRecords /\ task'.steps = steps
    BY <2>1, <2>2 DEF ContractInv, TaskRecords
  <2>4. Len(<<>>) = 0 /\ Len(steps) \in Nat /\ DOMAIN <<>> = {}
    BY <2>2
  <2>5. ContractTypeOK'
    BY <1>0, <2>1, <2>3, <2>4 DEF ContractInv, ContractTypeOK
  <2>6. NoLateRefusal' /\ NothingUngated' /\ RuntimeIsGranted'
    BY <2>1 DEF ContractInv, NoLateRefusal, NothingUngated, RuntimeIsGranted
  <2>7. QED BY <1>2, <2>1, <2>3, <2>5, <2>6 DEF ContractInv, Begun, Gated
<1>3. QED BY <1>1, <1>2

\* Admits.
LEMMA AdmitsInv ==
    ASSUME ContractInv, Admits
    PROVE  ContractInv'
<1>0. at = "Received" /\ ValidTask(task.steps) /\ StationAccepts(task.steps)
  BY StationAcceptsTheValid DEF Admits, ContractInv
<1>1. CASE Refuse("Gate") \/ Refuse("Target")
  BY <1>0, <1>1, RefusedIsLeft
<1>2. CASE /\ \A i \in DOMAIN task.steps : Gate(task.steps[i].kind) \subseteq station.gates
           /\ at' = "Admitted" /\ asked_for' = TaskCapabilities(task.steps)
           /\ UNCHANGED <<task, persona, station, runtime, carried, replies, refusal>>
  <2>1. TaskCapabilities(task.steps) \subseteq Capabilities
    BY DEF TaskCapabilities, Asks, Capabilities
  <2>2. ContractTypeOK'
    BY <1>0, <1>2, <2>1 DEF ContractInv, ContractTypeOK
  <2>3. NoLateRefusal' /\ NothingUngated' /\ RuntimeIsGranted'
    BY <1>2 DEF ContractInv, NoLateRefusal, NothingUngated, RuntimeIsGranted
  <2>4. QED BY <1>0, <1>2, <2>2, <2>3 DEF ContractInv, Begun, Gated
<1>3. QED BY <1>0, <1>1, <1>2 DEF Admits

\* What the runtime of a lease was chosen by, it has.
LEMMA ChosenIsGranted ==
    ASSUME ContractInv, NEW found \in SUBSET Kinds,
           ~ Cardinality(Selectors(station, task, persona)) > 1,
           NEW kind \in Prepared(Selectors(station, task, persona), RequirementSets(task, persona),
           found),
           ~ (station.exact /\ kind = "Firefox"), Supports(persona.preset, kind)
    PROVE  /\ kind \in Kinds
           /\ {station.selector, task.selector} \subseteq {"Auto", kind}
           /\ \A i \in DOMAIN task.steps : Features(task.steps[i]) \subseteq Full(kind)
           /\ persona.authenticated => kind # "Lightweight"
           /\ station.exact => kind # "Firefox"
<1> DEFINE sel == Selectors(station, task, persona)
           sets == RequirementSets(task, persona)
<1>1. kind \in found /\ Negotiate(kind, sets)
  BY DEF Prepared
<1>2. sel # {} => sel = {kind}
  <2>1. sel # {} => kind \in sel
    BY DEF Prepared
  <2>2. IsFiniteSet(sel)
    BY SelectorsAreFinite DEF ContractInv
  <2>3. QED BY <2>1, <2>2, OneIsChosen
<1>3. {station.selector, task.selector} \ {"Auto"} \subseteq sel
  BY DEF Selectors
<1>4. {station.selector, task.selector} \subseteq {"Auto", kind}
  BY <1>2, <1>3
<1>5. \A i \in DOMAIN task.steps : Features(task.steps[i]) \subseteq Full(kind)
  <2>1. [features |-> {"Lifecycle"} \cup UNION {Features(task.steps[i]) : i \in DOMAIN task.steps},
         partial |-> FALSE] \in sets
    BY DEF RequirementSets
  <2>2. {"Lifecycle"} \cup UNION {Features(task.steps[i]) :
        i \in DOMAIN task.steps} \subseteq Full(kind)
    BY <1>1, <2>1 DEF Negotiate
  <2>3. QED BY <2>2
<1>6. persona.authenticated => kind # "Lightweight"
  <2>1. persona.authenticated => [features |-> {"PersistentProfile"}, partial |-> FALSE] \in sets
    BY DEF RequirementSets
  <2>2. persona.authenticated => "PersistentProfile" \in Full(kind)
    BY <1>1, <2>1 DEF Negotiate
  <2>3. "PersistentProfile" \notin Full("Lightweight")
    BY DEF Full, Pages
  <2>4. QED BY <2>2, <2>3
<1>7. QED BY <1>1, <1>4, <1>5, <1>6

\* Leases.
LEMMA LeasesInv ==
    ASSUME ContractInv, Leases
    PROVE  ContractInv'
<1> DEFINE sel == Selectors(station, task, persona)
           sets == RequirementSets(task, persona)
<1>0. at = "Admitted"
  BY DEF Leases
<1>1. CASE \/ Refuse("CapabilityDenied") \/ Refuse("SelectionDenied") \/ Refuse("NoRuntime")
           \/ Refuse("NotContained") \/ Refuse("PersonaMismatch") \/ Refuse("Unavailable")
  BY <1>0, <1>1, RefusedIsLeft
<1>2. CASE /\ asked_for \subseteq station.capabilities /\ ~ Cardinality(sel) > 1
           /\ \E found \in SUBSET Kinds :
                 \E kind \in Prepared(sel, sets, found) :
                    /\ ~ (station.exact /\ kind = "Firefox") /\ Supports(persona.preset, kind)
                    /\ at' = "Leased" /\ runtime' = kind
                    /\ UNCHANGED <<task, persona, station, asked_for, carried, replies, refusal>>
  <2>1. PICK found \in SUBSET Kinds :
           \E kind \in Prepared(sel, sets, found) :
              /\ ~ (station.exact /\ kind = "Firefox") /\ Supports(persona.preset, kind)
              /\ at' = "Leased" /\ runtime' = kind
              /\ UNCHANGED <<task, persona, station, asked_for, carried, replies, refusal>>
    BY <1>2
  <2>2. PICK kind \in Prepared(sel, sets, found) :
              /\ ~ (station.exact /\ kind = "Firefox") /\ Supports(persona.preset, kind)
              /\ at' = "Leased" /\ runtime' = kind
              /\ UNCHANGED <<task, persona, station, asked_for, carried, replies, refusal>>
    BY <2>1
  <2>3. /\ kind \in Kinds
        /\ {station.selector, task.selector} \subseteq {"Auto", kind}
        /\ \A i \in DOMAIN task.steps : Features(task.steps[i]) \subseteq Full(kind)
        /\ persona.authenticated => kind # "Lightweight"
        /\ station.exact => kind # "Firefox"
    BY <1>2, <2>2, ChosenIsGranted
  <2>4. ContractTypeOK'
    BY <1>0, <2>2, <2>3 DEF ContractInv, ContractTypeOK
  <2>5. RuntimeIsGranted'
    BY <2>2, <2>3 DEF RuntimeIsGranted
  <2>6. NoLateRefusal' /\ NothingUngated'
    BY <2>2 DEF ContractInv, NoLateRefusal, NothingUngated
  <2>7. /\ replies = <<>> /\ ValidTask(task.steps) /\ task.steps \in Seq(TaskSteps)
        /\ asked_for = TaskCapabilities(task.steps)
        /\ \A i \in DOMAIN task.steps : Gate(task.steps[i].kind) \subseteq station.gates
    BY <1>0 DEF ContractInv, Begun, Gated, TaskRecords
  <2>8. Len(replies) < Len(task.steps)
    <3>1. task.steps # <<>>
      BY <2>7 DEF ValidTask
    <3>2. Len(<<>>) = 0 /\ Len(task.steps) \in Nat /\ Len(task.steps) # 0
      BY <2>7, <3>1
    <3>3. QED BY <2>7, <3>2
  <2>9. QED BY <1>2, <2>2, <2>3, <2>4, <2>5, <2>6, <2>7, <2>8 DEF ContractInv, Begun, Gated
<1>3. QED BY <1>1, <1>2 DEF Leases

\* Runs.
LEMMA RunsInv ==
    ASSUME ContractInv, Runs
    PROVE  ContractInv'
<1> DEFINE i == Len(replies) + 1
           kind == task.steps[i].kind
           commands == Commands(task.steps, i)
<1>1. /\ at = "Leased" /\ ValidTask(task.steps) /\ asked_for = TaskCapabilities(task.steps)
      /\ \A j \in DOMAIN task.steps : Gate(task.steps[j].kind) \subseteq station.gates
      /\ asked_for \subseteq station.capabilities /\ runtime \in Kinds
      /\ Len(replies) < Len(task.steps)
      /\ task.steps \in Seq(TaskSteps) /\ replies \in Seq(ReplyRecords)
  BY DEF Runs, ContractInv, Gated, TaskRecords
<1>2. i \in DOMAIN task.steps /\ kind \in StepKinds
  <2>1. /\ Len(replies) \in Nat /\ Len(task.steps) \in Nat
           /\ DOMAIN task.steps = 1 .. Len(task.steps)
        /\ \A j \in 1 .. Len(task.steps) : task.steps[j] \in TaskSteps
    BY <1>1
  <2>2. i \in 1 .. Len(task.steps)
    BY <1>1, <2>1
  <2>3. QED BY <2>1, <2>2 DEF TaskSteps
<1>3. Needed(task.steps) \subseteq asked_for
  BY <1>1, NeededIsAskedFor
<1>4. \A command \in commands : Demands(command) \in asked_for
  BY <1>1, <1>2, DemandsAreAskedFor
<1>5. commands \subseteq AgentCommands
  BY <1>2 DEF Commands, StepKinds, Timed, OnElement, Looking, AgentCommands
<1> HIDE DEF i, kind, commands
<1>6. CASE Refuse("NoSurface") \/ Refuse("StepFailed")
  BY <1>1, <1>6, RefusedIsLeft
<1>7. CASE \E size \in SizesOf(ReplyOf(kind)) :
              /\ replies' = Append(replies, [kind |-> ReplyOf(kind), size |-> size])
              /\ carried' = carried \cup {<<i, command>> : command \in commands}
              /\ at' = IF i = Len(task.steps) THEN "Ran" ELSE "Leased"
              /\ UNCHANGED <<task, persona, station, runtime, asked_for, refusal>>
  <2>1. PICK size \in SizesOf(ReplyOf(kind)) :
              /\ replies' = Append(replies, [kind |-> ReplyOf(kind), size |-> size])
              /\ carried' = carried \cup {<<i, command>> : command \in commands}
              /\ at' = IF i = Len(task.steps) THEN "Ran" ELSE "Leased"
              /\ UNCHANGED <<task, persona, station, runtime, asked_for, refusal>>
    BY <1>7
  <2>2. [kind |-> ReplyOf(kind), size |-> size] \in ReplyRecords
    BY DEF ReplyRecords, ReplyOf, Replies, SizesOf, Sizes
  <2>3. /\ replies' \in Seq(ReplyRecords) /\ Len(replies') = Len(replies) + 1
        /\ Len(replies) \in Nat /\ Len(task.steps) \in Nat
    BY <1>1, <2>1, <2>2
  <2>4. \A j \in DOMAIN replies' : replies'[j] \in ReplyRecords
    BY <2>3
  <2>5. ContractTypeOK'
    <3>1. at' \in {"Leased", "Ran"} /\ (at = "Refused" <=> refusal # "None")
      BY <2>1 DEF ContractInv, ContractTypeOK
    <3>2. carried' \subseteq (DOMAIN task.steps) \X AgentCommands
      BY <1>2, <1>5, <2>1 DEF ContractInv, ContractTypeOK
    <3>3. Len(replies') <= Len(task.steps)
      BY <1>1, <2>3
    <3>4. \A j \in DOMAIN replies' : replies'[j].kind \in Replies /\ replies'[j].size \in Sizes
      BY <2>4 DEF ReplyRecords
    <3>5. asked_for \subseteq Capabilities /\ refusal = "None"
      BY <1>1 DEF ContractInv, ContractTypeOK
    <3>6. QED BY <1>1, <2>1, <3>1, <3>2, <3>3, <3>4, <3>5 DEF ContractTypeOK
  <2>6. NothingUngated'
    BY <1>1, <1>2, <1>4, <2>1 DEF ContractInv, NothingUngated, kind
  <2>7. NoLateRefusal' /\ RuntimeIsGranted'
    BY <2>1 DEF ContractInv, NoLateRefusal, RuntimeIsGranted
  <2>8. at' = "Leased" => Len(replies') < Len(task.steps)
    BY <1>1, <2>1, <2>3 DEF i
  <2>9. QED BY <1>1, <2>1, <2>3, <2>5, <2>6, <2>7, <2>8 DEF ContractInv, Begun, Gated
<1>8. QED BY <1>3, <1>4, <1>6, <1>7 DEF Runs, i, kind, commands

\* Answers.
LEMMA AnswersInv ==
    ASSUME ContractInv, Answers
    PROVE  ContractInv'
<1>1. at = "Ran"
  BY DEF Answers
<1>2. CASE Refuse("InvalidResult") \/ Refuse("TooLarge")
  BY <1>1, <1>2, RefusedIsLeft
<1>3. CASE at' = "Answered"
           /\ UNCHANGED <<task, persona, station, runtime, asked_for, carried, replies, refusal>>
  <2>1. ContractTypeOK'
    BY <1>1, <1>3 DEF ContractInv, ContractTypeOK
  <2>2. NoLateRefusal' /\ NothingUngated' /\ RuntimeIsGranted'
    BY <1>3 DEF ContractInv, NoLateRefusal, NothingUngated, RuntimeIsGranted
  <2>3. QED BY <1>1, <1>3, <2>1, <2>2 DEF ContractInv, Begun, Gated
<1>4. QED BY <1>2, <1>3 DEF Answers

\* The invariant of a request.
LEMMA ContractInvariance == ContractSpec => []ContractInv
<1>1. ContractInit => ContractInv
  <2>1. SUFFICES ASSUME ContractInit
                 PROVE  ContractInv
    OBVIOUS
  <2>2. task \in TaskRecords /\ persona.preset \in {"None"} \cup DOMAIN Presets
    BY <2>1, InputsAreTasks DEF ContractInit, TaskRecords
  <2>3. <<>> \in Seq(ReplyRecords) /\ Len(<<>>) = 0 /\ DOMAIN <<>> = {}
    OBVIOUS
  <2>4. Len(task.steps) \in Nat
    BY <2>2 DEF TaskRecords
  <2>5. ContractTypeOK
    BY <2>1, <2>3, <2>4 DEF ContractInit, ContractTypeOK
  <2>6. QED BY <2>1, <2>2, <2>3, <2>5
            DEF ContractInit, ContractInv, Begun, Gated, NoLateRefusal, NothingUngated,
            RuntimeIsGranted
<1>2. ASSUME ContractInv, [ContractNext]_contractVars
      PROVE  ContractInv'
  <2>1. CASE UNCHANGED contractVars
    BY <1>2, <2>1 DEF contractVars, ContractInv, ContractTypeOK, NoLateRefusal, NothingUngated,
       RuntimeIsGranted
  <2>2. QED BY <1>2, <2>1, SendsInv, AdmitsInv, LeasesInv, RunsInv, AnswersInv DEF ContractNext
<1>3. QED BY <1>1, <1>2, PTL DEF ContractSpec

\* The tables that decide about a collection task, each written down in a place of its own, agree:
\* what one lets pass no later one refuses, no command is carried out that the operator did not
\* allow, and the runtime is the one that was asked for, with all that the steps need.
THEOREM TablesAgree == ContractSpec => [](ContractTypeOK /\ TasksAgree)
<1>1. ContractSpec => []ContractInv
  BY ContractInvariance
<1>2. ContractInv => ContractTypeOK /\ TasksAgree
  BY DEF ContractInv, TasksAgree
<1>3. QED BY <1>1, <1>2, PTL

-----------------------------------------------------------------------------
(* BrowserStream *)

CONSTANTS InputEvents, Scripts, ExpectClicks, SocketRoom, MaxFrames

VARIABLES
    mode, step, browser, form, files, link, inbox, outbox, script, told, seen, decoded, taken, reader,
    writing, frames, sent, done, lines, clicks, late, tail, pushes, proof, result

N == INSTANCE BrowserStream

\* A peer sends input events.
ScriptsAreInputs == Scripts \subseteq Seq(InputEvents)

PeerMessages == [sound : BOOLEAN, event : InputEvents]
DecodedEvents == {N!Decoded(e) : e \in InputEvents}
PageLines == {"Moved", "LeftPressed", "LeftReleased", "RightPressed", "RightReleased", "KeyDown",
              "KeyUp", "Wheel", "Navigated", "Typed"}
NodeMessages == [as : {"Header", "Png"}, of : Nat]

Unconnected == {"Opening", "Launching", "Painting", "Probing", "Waiting", "Connecting"}
StreamSteps ==
    Unconnected
        \cup {"Streaming", "Applying", "Reading", "Pushing", "Sending", "Closing", "Ended"}

StreamTypes ==
    /\ mode \in {"First", "Login", "Browse"} /\ step \in StreamSteps
    /\ browser \in {"None", "Running", "Gone"}
    /\ script \in Seq(InputEvents) /\ told \in Nat /\ inbox \in Seq(PeerMessages)
    /\ decoded \in Seq(DecodedEvents) /\ taken \in Nat /\ taken <= Len(decoded)
    /\ done \in Seq(Seq(PageLines))
    /\ seen \in NodeMessages /\ outbox \in Seq(NodeMessages)
    /\ writing \in [at : {"None", "Idle", "Header", "Png", "Ended"}, frame : Nat]
    /\ frames \in Seq(Nat)
    /\ result \in {"None", "Proof", "Error"}

\* What runs at each step of a node.
StreamRuns ==
    /\ result = "None" <=> step # "Ended"
    /\ step \in {"Opening", "Launching"} => browser = "None"
    /\ step \notin {"Opening", "Launching", "Ended"} => browser = "Running"
    /\ step \notin {"Opening", "Launching", "Painting", "Ended"} => form # "None"
    /\ step \in Unconnected => reader = "None" /\ writing.at = "None"
    /\ N!NothingIsLeftRunning

\* The input the page has seen.
Sees ==
    /\ step = "Applying" => taken > 0
    /\ N!PageIsAsTold

\* What may come after a message of the node, and the last one that left it.
Follows(before, this) ==
    /\ before.of <= this.of
    /\ mode = "Login" /\ this.as = "Png" => before = [as |-> "Header", of |-> this.of]
    /\ before.as = "Header" => this = [as |-> "Png", of |-> before.of]
Newest == IF outbox = <<>> THEN seen ELSE outbox[Len(outbox)]
InHand == writing.at \in {"Header", "Png"}
Hand == [as |-> writing.at, of |-> writing.frame]

Paired ==
    /\ outbox # <<>> => Follows(seen, outbox[1])
    /\ \A i \in 2..Len(outbox) : Follows(outbox[i - 1], outbox[i])
    /\ InHand => Follows(Newest, Hand)

\* The frames to come are newer than what was sent, and none is of an input to come.
Ordered ==
    /\ Newest.of <= Len(done) /\ writing.frame <= Len(done)
    /\ writing.at \in {"None", "Idle", "Header"} => Newest.as = "Png"
    /\ \A i \in 1..Len(frames) :
          /\ frames[i] <= Len(done)
          /\ \A j \in 1..Len(frames) : i <= j => frames[i] <= frames[j]
          /\ writing.at \in {"None", "Idle"} => Newest.of <= frames[i]
          /\ InHand => writing.frame <= frames[i]

StreamInv == StreamTypes /\ StreamRuns /\ Sees /\ Paired /\ Ordered

\* What a page does for an input is a list of lines.
LEMMA PlansAreLines == ASSUME NEW e PROVE N!Plan(e) \in Seq(PageLines)
<1>1. ASSUME NEW S, NEW a \in S, NEW c \in S
      PROVE  <<>> \in Seq(S) /\ <<a>> \in Seq(S) /\ <<a, c>> \in Seq(S)
  OBVIOUS
<1>2. \A a \in PageLines, c \in PageLines :
          <<>> \in Seq(PageLines) /\ <<a>> \in Seq(PageLines) /\ <<a, c>> \in Seq(PageLines)
  BY <1>1
<1>3. /\ "Moved" \in PageLines /\ "LeftPressed" \in PageLines /\ "LeftReleased" \in PageLines
      /\ "RightPressed" \in PageLines /\ "RightReleased" \in PageLines /\ "KeyDown" \in PageLines
      /\ "KeyUp" \in PageLines /\ "Wheel" \in PageLines /\ "Navigated" \in PageLines
      /\ "Typed" \in PageLines
  BY DEF PageLines
<1>4. N!Plan(e) \in {<<>>, <<"Moved">>, <<"LeftPressed">>, <<"LeftReleased">>, <<"Wheel">>,
                     <<"Navigated">>, <<"Typed">>, <<"LeftPressed", "LeftReleased">>,
                     <<"RightPressed", "RightReleased">>, <<"KeyDown", "KeyUp">>}
  BY Zenon DEF N!Plan
<1> QED BY <1>2, <1>3, <1>4

\* A stream begins.
LEMMA StreamStarts == ASSUME ScriptsAreInputs, N!StreamInit PROVE StreamInv
<1>1. PICK node \in {"First", "Browse", "Login"}, inputs \in Scripts, ready \in {"None", "Stale"} :
          N!Begin(node, inputs, ready)
  BY DEF N!StreamInit
<1>2. StreamTypes
  BY <1>1 DEF ScriptsAreInputs, N!Begin, StreamTypes, StreamSteps, Unconnected, NodeMessages, N!Png,
     N!Idle
<1>3. StreamRuns /\ Sees
  BY <1>1 DEF N!Begin, StreamRuns, N!NothingIsLeftRunning, Sees, N!PageIsAsTold, Unconnected, N!Idle
<1>4. Paired /\ Ordered
  BY <1>1 DEF N!Begin, Paired, Ordered, InHand, Newest, N!Png, N!Idle
<1> QED BY <1>2, <1>3, <1>4 DEF StreamInv

\* The steps a node takes up to its loop, and those that only move it on.
Opens == N!Open \/ N!Launch \/ N!Paint \/ N!Probe \/ N!WaitReady \/ N!Connect
Waits == N!EventsEnd \/ N!Read \/ N!Shoot \/ N!Expires \/ N!TailEnds
PeerSteps == N!PeerReady \/ N!PeerTells \/ N!PeerReads \/ N!PeerLeaves

\* Every step keeps the types.
LEMMA StreamTypesKeep ==
  ASSUME ScriptsAreInputs, StreamInv, [N!StreamNext]_(N!streamed) PROVE StreamTypes'
<1> USE DEF StreamInv
<1>1. CASE UNCHANGED N!streamed
  BY <1>1 DEF N!streamed, StreamTypes
<1>2. CASE Opens
  BY <1>2 DEF Opens, N!Open, N!Launch, N!Paint, N!Probe, N!WaitReady, N!Connect, N!Fails, N!Idle,
     N!socket, N!tasks, N!loop, StreamTypes, StreamSteps, Unconnected
<1>3. CASE Waits
  BY <1>3 DEF Waits, N!EventsEnd, N!Read, N!Shoot, N!Expires, N!TailEnds, N!Fails,
     N!socket, N!tasks, N!loop, StreamTypes, StreamSteps, Unconnected
<1>4. CASE N!Tick \/ N!Push \/ N!Close
  <2>1. frames' \in Seq(Nat)
    <3>1. Len(done) \in Nat
      BY DEF StreamTypes
    <3>2. frames' \in {frames, Append(frames, Len(done)), <<>>}
      BY <1>4 DEF N!Tick, N!Push, N!Close
    <3>3. \A n \in Nat : Append(frames, n) \in Seq(Nat)
      BY AppendProperties DEF StreamTypes
    <3>4. frames \in Seq(Nat) /\ <<>> \in Seq(Nat)
      BY DEF StreamTypes
    <3> QED BY <3>1, <3>2, <3>3, <3>4
  <2>2. /\ step' \in {"Streaming", "Pushing", "Closing", "Ended"} /\ browser' \in {browser, "Gone"}
        /\ writing' \in {writing, [at |-> "Ended", frame |-> 0]}
        /\ result' \in {result, "Proof", "Error"}
        /\ UNCHANGED <<mode, script, told, inbox, decoded, taken, done, seen, outbox>>
    BY <1>4 DEF N!Tick, N!Push, N!Close, N!Continues, N!Stopped, N!socket, N!tasks
  <2> QED BY <2>1, <2>2 DEF StreamTypes, StreamSteps, Unconnected
<1>5. CASE N!Take
  BY <1>5 DEF N!Take, N!socket, N!tasks, N!loop, StreamTypes, StreamSteps, Unconnected
<1>6. CASE N!Apply
  <2>1. done' \in Seq(Seq(PageLines))
    <3>1. N!Plan(decoded[taken]) \in Seq(PageLines)
      BY PlansAreLines
    <3>2. \A n \in 0..Len(N!Plan(decoded[taken])) :
              SubSeq(N!Plan(decoded[taken]), 1, n) \in Seq(PageLines)
      BY <3>1, SubSeqProperties
    <3>3. \/ done' = done
          \/ \E page \in Seq(PageLines) : done' = Append(done, page)
      BY <1>6, <3>1, <3>2 DEF N!Apply
    <3>4. \A page \in Seq(PageLines) : Append(done, page) \in Seq(Seq(PageLines))
      BY AppendProperties DEF StreamTypes
    <3> QED BY <3>3, <3>4 DEF StreamTypes
  <2>2. /\ step' \in {"Ended", "Reading", "Closing", "Streaming"}
        /\ browser' \in {browser, "Gone"} /\ result' \in {result, "Error"}
        /\ UNCHANGED <<mode, script, told, inbox, decoded, taken, seen, outbox, writing, frames>>
    BY <1>6 DEF N!Apply, N!Continues, N!Fails, N!socket, N!tasks
  <2> QED BY <2>1, <2>2 DEF StreamTypes, StreamSteps, Unconnected
<1>7. CASE N!WriterTakes \/ N!WriterSends \/ N!WriterEnds
  <2>1. CASE N!WriterTakes
    BY <2>1, HeadTailProperties DEF N!WriterTakes, N!socket, StreamTypes
  <2>2. CASE N!WriterSends
    <3>1. writing.at \in {"Header", "Png"} => [as |-> writing.at, of |-> writing.frame] \in NodeMessages
      BY DEF StreamTypes, NodeMessages
    <3>2. outbox' \in Seq(NodeMessages)
      <4>1. outbox' = outbox \/ outbox' = Append(outbox, [as |-> writing.at, of |-> writing.frame])
        BY <2>2 DEF N!WriterSends
      <4>2. \A m \in NodeMessages : Append(outbox, m) \in Seq(NodeMessages)
        BY AppendProperties DEF StreamTypes
      <4>3. outbox' # outbox => writing.at \in {"Header", "Png"}
        BY <2>2 DEF N!WriterSends
      <4> QED BY <3>1, <4>1, <4>2, <4>3 DEF StreamTypes
    <3>3. writing' \in [at : {"None", "Idle", "Header", "Png", "Ended"}, frame : Nat]
      <4>1. \/ writing' = [writing EXCEPT !.at = "Png"]
            \/ writing' = [at |-> "Idle", frame |-> 0]
            \/ writing' = [at |-> "Ended", frame |-> 0]
        BY <2>2 DEF N!WriterSends, N!Idle, N!Stopped
      <4> QED BY <4>1 DEF StreamTypes
    <3> QED BY <2>2, <3>2, <3>3 DEF N!WriterSends, N!loop, StreamTypes
  <2>3. CASE N!WriterEnds
    BY <2>3 DEF N!WriterEnds, N!Stopped, N!socket, N!loop, StreamTypes
  <2> QED BY <1>7, <2>1, <2>2, <2>3
<1>8. CASE N!ReaderReads
  <2>1. inbox # <<>> => Head(inbox) \in PeerMessages /\ Tail(inbox) \in Seq(PeerMessages)
    BY HeadTailProperties DEF StreamTypes
  <2>2. inbox # <<>> => N!Decoded(Head(inbox).event) \in DecodedEvents
    BY <2>1 DEF PeerMessages, DecodedEvents
  <2>3. inbox' \in Seq(PeerMessages)
    BY <1>8, <2>1 DEF N!ReaderReads, StreamTypes
  <2>4. decoded' \in Seq(DecodedEvents) /\ taken <= Len(decoded')
    <3>1. \/ decoded' = decoded
          \/ inbox # <<>> /\ decoded' = Append(decoded, N!Decoded(Head(inbox).event))
      BY <1>8 DEF N!ReaderReads
    <3>2. \A e \in DecodedEvents : /\ Append(decoded, e) \in Seq(DecodedEvents)
                                  /\ Len(Append(decoded, e)) = Len(decoded) + 1
      BY AppendProperties DEF StreamTypes
    <3>3. Len(decoded) \in Nat /\ taken \in Nat /\ taken <= Len(decoded)
      BY DEF StreamTypes
    <3>4. CASE decoded' = decoded
      BY <3>4 DEF StreamTypes
    <3>5. CASE inbox # <<>> /\ decoded' = Append(decoded, N!Decoded(Head(inbox).event))
      <4>1. Len(decoded') = Len(decoded) + 1 /\ decoded' \in Seq(DecodedEvents)
        BY <2>2, <3>2, <3>5
      <4> QED BY <3>3, <4>1
    <3> QED BY <3>1, <3>4, <3>5
  <2> QED BY <1>8, <2>3, <2>4 DEF N!ReaderReads, N!loop, StreamTypes
<1>9. CASE N!PeerReady \/ N!PeerLeaves
  BY <1>9 DEF N!PeerReady, N!PeerLeaves, N!socket, N!tasks, N!loop, StreamTypes
<1>10. CASE N!PeerTells
  <2>1. N!Says(script[told + 1]) \in PeerMessages
    BY <1>10 DEF N!PeerTells, N!Says, N!Encodes, PeerMessages, StreamTypes
  <2> QED BY <1>10, <2>1 DEF N!PeerTells, N!tasks, N!loop, StreamTypes
<1>11. CASE N!PeerReads
  BY <1>11, HeadTailProperties DEF N!PeerReads, N!tasks, N!loop, StreamTypes
<1> QED BY <1>1, <1>2, <1>3, <1>4, <1>5, <1>6, <1>7, <1>8, <1>9, <1>10, <1>11
        DEF N!StreamNext, N!NodeStep, Opens, Waits

\* Every step keeps what runs.
LEMMA RunsKeep ==
  ASSUME StreamInv, [N!StreamNext]_(N!streamed) PROVE StreamRuns'
<1> USE DEF StreamInv, StreamRuns, N!NothingIsLeftRunning
<1>1. CASE UNCHANGED N!streamed
  BY <1>1 DEF N!streamed
<1>2. CASE Opens
  BY <1>2 DEF Opens, N!Open, N!Launch, N!Paint, N!Probe, N!WaitReady, N!Connect, N!Fails, N!Idle,
     N!socket, N!tasks, N!loop, Unconnected, N!Login, N!First
<1>3. CASE Waits
  BY <1>3 DEF Waits, N!EventsEnd, N!Read, N!Shoot, N!Expires, N!TailEnds, N!Fails,
     N!socket, N!tasks, N!loop, Unconnected
<1>4. CASE N!Tick \/ N!Push \/ N!Close \/ N!Take
  BY <1>4 DEF N!Tick, N!Push, N!Close, N!Take, N!Continues, N!Stopped, N!socket, N!tasks, N!loop,
     Unconnected
<1>5. CASE N!Apply
  <2>1. /\ step = "Applying" /\ step' \in {"Ended", "Reading", "Closing", "Streaming"}
        /\ UNCHANGED <<form, reader, writing>>
        /\ \/ step' # "Ended" /\ UNCHANGED <<browser, result>>
           \/ step' = "Ended" /\ result' = "Error" /\ browser' # "Running"
    BY <1>5 DEF N!Apply, N!Continues, N!Fails, N!tasks
  <2> QED BY <2>1 DEF Unconnected
<1>6. CASE N!WriterTakes \/ N!WriterSends \/ N!WriterEnds
  BY <1>6 DEF N!WriterTakes, N!WriterSends, N!WriterEnds, N!Idle, N!Stopped, N!loop, StreamTypes
<1>7. CASE N!ReaderReads
  BY <1>7 DEF N!ReaderReads, N!loop
<1>8. CASE PeerSteps
  BY <1>8 DEF PeerSteps, N!PeerReady, N!PeerTells, N!PeerReads, N!PeerLeaves, N!socket, N!tasks, N!loop
<1> QED BY <1>1, <1>2, <1>3, <1>4, <1>5, <1>6, <1>7, <1>8
        DEF N!StreamNext, N!NodeStep, Opens, Waits, PeerSteps

\* A part of what is done for an input.
LEMMA PartsArePrefixes ==
  ASSUME NEW S, NEW p \in Seq(S), NEW n \in 0..Len(p) PROVE N!IsPrefix(SubSeq(p, 1, n), p)
<1>1. SubSeq(p, 1, n) \in Seq(S) /\ Len(SubSeq(p, 1, n)) = n
  BY SubSeqProperties
<1>2. SubSeq(SubSeq(p, 1, n), 1, n) = SubSeq(p, 1, n)
  BY <1>1, SubSeqFull
<1> QED BY <1>1, <1>2 DEF N!IsPrefix

\* Every step keeps what the page has seen.
LEMMA SeesKeep ==
  ASSUME StreamInv, [N!StreamNext]_(N!streamed) PROVE Sees'
<1>0. /\ taken \in Nat /\ Len(decoded) \in Nat /\ taken <= Len(decoded) /\ Len(done) \in Nat
      /\ decoded \in Seq(DecodedEvents) /\ done \in Seq(Seq(PageLines))
      /\ result = "None" <=> step # "Ended"
      /\ step = "Applying" => taken > 0
      /\ Len(done) = IF step = "Applying" THEN taken - 1 ELSE taken
      /\ \A i \in 1..Len(done) :
            \/ done[i] = N!Plan(decoded[i])
            \/ /\ N!IsPrefix(done[i], N!Plan(decoded[i]))
               /\ mode = "Browse" \/ (i = taken /\ result = "Error")
  BY DEF StreamInv, StreamTypes, StreamRuns, Sees, N!PageIsAsTold
<1>1. CASE /\ UNCHANGED <<done, taken, decoded, mode>>
           /\ step' = "Applying" <=> step = "Applying"
           /\ result = "Error" => result' = "Error"
  BY <1>0, <1>1 DEF Sees, N!PageIsAsTold
<1>2. CASE Opens
  <2>1. step \in Unconnected /\ result = "None"
    BY <1>0, <1>2 DEF Opens, N!Open, N!Launch, N!Paint, N!Probe, N!WaitReady, N!Connect, Unconnected
  <2>2. step # "Applying" /\ step' # "Applying" /\ UNCHANGED <<done, taken, decoded, mode>>
    BY <1>2, <2>1 DEF Opens, N!Open, N!Launch, N!Paint, N!Probe, N!WaitReady, N!Connect, N!Fails,
       N!tasks, N!loop, Unconnected
  <2> QED BY <1>1, <2>1, <2>2
<1>3. CASE Waits \/ N!Tick \/ N!Push \/ N!Close
  <2>1. /\ UNCHANGED <<done, taken, decoded, mode>>
        /\ step' = "Applying" <=> step = "Applying"
        /\ result = "Error" => result' = "Error"
    BY <1>0, <1>3 DEF Waits, N!EventsEnd, N!Read, N!Shoot, N!Expires, N!TailEnds, N!Tick, N!Push,
       N!Close, N!Continues, N!Fails, N!tasks, N!loop
  <2> QED BY <1>1, <2>1
<1>4. CASE N!WriterTakes \/ N!WriterSends \/ N!WriterEnds \/ PeerSteps \/ UNCHANGED N!streamed
  <2>1. UNCHANGED <<done, taken, decoded, mode, step, result>>
    BY <1>4 DEF N!WriterTakes, N!WriterSends, N!WriterEnds, PeerSteps, N!PeerReady, N!PeerTells,
       N!PeerReads, N!PeerLeaves, N!tasks, N!loop, N!streamed
  <2> QED BY <1>1, <2>1
<1>5. CASE N!ReaderReads
  <2>1. /\ UNCHANGED <<done, taken, mode, step, result>>
        /\ \/ decoded' = decoded
           \/ inbox # <<>> /\ decoded' = Append(decoded, N!Decoded(Head(inbox).event))
    BY <1>5 DEF N!ReaderReads, N!loop
  <2>2. \A i \in 1..Len(decoded) : decoded'[i] = decoded[i]
    <3>1. inbox # <<>> => Head(inbox) \in PeerMessages
      BY HeadTailProperties DEF StreamInv, StreamTypes
    <3>2. inbox # <<>> => N!Decoded(Head(inbox).event) \in DecodedEvents
      BY <3>1 DEF PeerMessages, DecodedEvents
    <3>3. \A e \in DecodedEvents : \A i \in 1..Len(decoded) : Append(decoded, e)[i] = decoded[i]
      BY <1>0, AppendProperties
    <3> QED BY <2>1, <3>2, <3>3
  <2>3. \A i \in 1..Len(done) : i \in 1..Len(decoded) /\ decoded'[i] = decoded[i]
    BY <1>0, <2>2
  <2>4. \A i \in 1..Len(done) :
            \/ done[i] = N!Plan(decoded'[i])
            \/ /\ N!IsPrefix(done[i], N!Plan(decoded'[i]))
               /\ mode = "Browse" \/ (i = taken /\ result = "Error")
    BY <1>0, <2>3
  <2> QED BY <1>0, <2>1, <2>4 DEF Sees, N!PageIsAsTold
<1>6. CASE N!Take
  <2>1. /\ taken' = taken + 1 /\ step = "Streaming" /\ step' = "Applying" /\ result = "None"
        /\ UNCHANGED <<done, decoded, mode, result>>
    BY <1>0, <1>6 DEF N!Take, N!tasks
  <2> QED BY <1>0, <2>1 DEF Sees, N!PageIsAsTold
<1>7. CASE N!Apply
  <2> DEFINE plan == N!Plan(decoded[taken])
  <2>1. /\ step = "Applying" /\ step' # "Applying" /\ Len(done) = taken - 1 /\ taken > 0
        /\ UNCHANGED <<taken, decoded, mode>> /\ result = "None"
    BY <1>0, <1>7 DEF N!Apply, N!Continues, N!Fails, N!tasks
  <2>2. \/ done' = Append(done, plan)
        \/ /\ mode = "Browse" \/ result' = "Error"
           /\ \E n \in 0..Len(plan) : done' = Append(done, SubSeq(plan, 1, n))
    BY <1>7 DEF N!Apply, N!Fails
  <2>3. plan \in Seq(PageLines)
    BY PlansAreLines
  <2>4. \E page \in Seq(PageLines) :
            /\ done' = Append(done, page)
            /\ page = plan \/ (N!IsPrefix(page, plan) /\ (mode = "Browse" \/ result' = "Error"))
    <3>1. \A n \in 0..Len(plan) :
              SubSeq(plan, 1, n) \in Seq(PageLines) /\ N!IsPrefix(SubSeq(plan, 1, n), plan)
      BY <2>3, SubSeqProperties, PartsArePrefixes
    <3> HIDE DEF plan
    <3> QED BY <2>2, <2>3, <3>1
  <2>5. PICK page \in Seq(PageLines) :
            /\ done' = Append(done, page)
            /\ page = plan \/ (N!IsPrefix(page, plan) /\ (mode = "Browse" \/ result' = "Error"))
    BY <2>4
  <2>6. /\ Len(done') = taken /\ done'[taken] = page
        /\ \A i \in 1..Len(done) : done'[i] = done[i]
    BY <1>0, <2>1, <2>5
  <2>7. ASSUME NEW i \in 1..Len(done')
        PROVE  \/ done'[i] = N!Plan(decoded[i])
               \/ /\ N!IsPrefix(done'[i], N!Plan(decoded[i]))
                  /\ mode = "Browse" \/ (i = taken /\ result' = "Error")
    <3>1. CASE i = taken
      BY <2>5, <2>6, <3>1
    <3>2. CASE i # taken
      <4>1. i \in 1..Len(done)
        BY <1>0, <2>1, <2>6, <3>2
      <4> QED BY <1>0, <2>1, <2>6, <3>2, <4>1
    <3> QED BY <3>1, <3>2
  <2> QED BY <1>0, <2>1, <2>6, <2>7 DEF Sees, N!PageIsAsTold
<1> QED BY <1>2, <1>3, <1>4, <1>5, <1>6, <1>7
        DEF N!StreamNext, N!NodeStep, Opens, Waits, PeerSteps

\* Every step keeps the order of what is sent.
LEMMA OrderKeeps ==
  ASSUME StreamInv, [N!StreamNext]_(N!streamed) PROVE Paired' /\ Ordered'
<1>0. /\ Len(done) \in Nat /\ done \in Seq(Seq(PageLines))
      /\ seen \in NodeMessages /\ outbox \in Seq(NodeMessages) /\ Len(outbox) \in Nat
      /\ writing \in [at : {"None", "Idle", "Header", "Png", "Ended"}, frame : Nat]
      /\ frames \in Seq(Nat) /\ Len(frames) \in Nat /\ \A i \in 1..Len(frames) : frames[i] \in Nat
      /\ Newest \in NodeMessages
      /\ Paired /\ Ordered
  BY DEF StreamInv, StreamTypes, Newest
<1>1. CASE UNCHANGED <<mode, seen, outbox, writing, frames, done>>
  BY <1>0, <1>1 DEF Paired, Ordered, Follows, Newest, InHand, Hand
<1>2. CASE Opens /\ ~ N!Connect
  <2>1. UNCHANGED <<mode, seen, outbox, writing, frames, done>>
    BY <1>2 DEF Opens, N!Open, N!Launch, N!Paint, N!Probe, N!WaitReady, N!Fails, N!socket, N!tasks,
       N!loop
  <2> QED BY <1>1, <2>1
<1>3. CASE N!Connect
  <2>1. /\ UNCHANGED <<mode, seen, outbox, frames, done>> /\ writing.at = "None"
        /\ writing' = writing \/ writing' = [at |-> "Idle", frame |-> 0]
    BY <1>3 DEF N!Connect, N!Idle, N!loop, StreamInv, StreamRuns, Unconnected
  <2> QED BY <1>0, <1>1, <2>1 DEF Paired, Ordered, Follows, Newest, InHand, Hand
<1>4. CASE \/ Waits \/ N!Take \/ N!ReaderReads \/ N!PeerReady \/ N!PeerTells
           \/ N!PeerLeaves \/ UNCHANGED N!streamed
  <2>1. UNCHANGED <<mode, seen, outbox, writing, frames, done>>
    BY <1>4 DEF Waits, N!EventsEnd, N!Read, N!Shoot, N!Expires, N!TailEnds, N!Take, N!ReaderReads,
       N!PeerReady, N!PeerTells, N!PeerLeaves, N!Fails, N!socket, N!tasks, N!loop, N!streamed
  <2> QED BY <1>1, <2>1
<1>5. CASE N!Apply
  <2>1. /\ UNCHANGED <<mode, seen, outbox, writing, frames>>
        /\ \E page : done' = Append(done, page)
    BY <1>5 DEF N!Apply, N!socket, N!tasks
  <2>2. Len(done') = Len(done) + 1
    BY <1>0, <2>1
  <2>3. Newest' = Newest /\ Newest.of \in Nat /\ writing.frame \in Nat
    BY <1>0, <2>1 DEF Newest, NodeMessages
  <2>4. Paired'
    BY <1>0, <2>1, <2>3 DEF Paired, Follows, InHand, Hand
  <2>5. Ordered'
    BY <1>0, <2>1, <2>2, <2>3 DEF Ordered, InHand
  <2> QED BY <2>4, <2>5
<1>6. CASE N!Tick \/ N!Push
  <2>1. /\ UNCHANGED <<mode, seen, outbox, writing, done>>
        /\ frames' = frames \/ frames' = Append(frames, Len(done))
    BY <1>6 DEF N!Tick, N!Push, N!socket, N!tasks
  <2>2. Paired' /\ Newest' = Newest
    BY <1>0, <2>1 DEF Paired, Follows, InHand, Hand, Newest
  <2>3. CASE frames' = Append(frames, Len(done))
    <3>1. /\ Len(frames') = Len(frames) + 1 /\ frames'[Len(frames) + 1] = Len(done)
          /\ \A i \in 1..Len(frames) : frames'[i] = frames[i]
      BY <1>0, <2>3
    <3>2. \A i \in 1..Len(frames') : i \in 1..Len(frames) \/ i = Len(frames) + 1
      BY <1>0, <3>1
    <3>3. ASSUME NEW i \in 1..Len(frames')
          PROVE  /\ frames'[i] <= Len(done)
                 /\ \A j \in 1..Len(frames') : i <= j => frames'[i] <= frames'[j]
                 /\ writing.at \in {"None", "Idle"} => Newest.of <= frames'[i]
                 /\ InHand => writing.frame <= frames'[i]
      <4>1. CASE i = Len(frames) + 1
        <5>1. \A j \in 1..Len(frames') : i <= j => j = i
          BY <1>0, <3>1, <4>1
        <5> QED BY <1>0, <3>1, <4>1, <5>1 DEF Ordered
      <4>2. CASE i \in 1..Len(frames)
        <5>1. frames'[i] = frames[i] /\ frames[i] <= Len(done) /\ frames[i] \in Nat
          BY <1>0, <3>1, <4>2 DEF Ordered
        <5>2. ASSUME NEW j \in 1..Len(frames'), i <= j PROVE frames'[i] <= frames'[j]
          <6>1. CASE j = Len(frames) + 1
            BY <3>1, <5>1, <6>1
          <6>2. CASE j \in 1..Len(frames)
            BY <1>0, <3>1, <4>2, <5>1, <5>2, <6>2 DEF Ordered
          <6> QED BY <3>2, <6>1, <6>2
        <5> QED BY <1>0, <4>2, <5>1, <5>2 DEF Ordered
      <4> QED BY <3>2, <4>1, <4>2
    <3> QED BY <1>0, <2>1, <2>2, <3>3 DEF Ordered, InHand
  <2> QED BY <1>1, <2>1, <2>2, <2>3
<1>7. CASE N!Close \/ N!WriterEnds
  <2>1. /\ UNCHANGED <<mode, seen, outbox, done>> /\ frames' = <<>>
        /\ writing' = [at |-> "Ended", frame |-> 0]
    BY <1>7 DEF N!Close, N!WriterEnds, N!Stopped, N!socket, N!loop
  <2> QED BY <1>0, <2>1 DEF Paired, Ordered, Follows, Newest, InHand, Hand
<1>8. CASE N!WriterTakes
  <2>1. /\ UNCHANGED <<mode, seen, outbox, done>> /\ frames # <<>> /\ frames' = Tail(frames)
        /\ writing.at = "Idle"
        /\ writing' = [at |-> IF mode = "Login" THEN "Header" ELSE "Png", frame |-> frames[1]]
    BY <1>0, <1>8 DEF N!WriterTakes, N!Login, N!socket
  <2>2. /\ Len(frames') = Len(frames) - 1 /\ 1 \in 1..Len(frames)
        /\ \A i \in 1..Len(frames') : i + 1 \in 1..Len(frames) /\ frames'[i] = frames[i + 1]
    BY <1>0, <2>1
  <2>3. /\ Newest' = Newest /\ Newest.as = "Png" /\ Newest.of <= frames[1] /\ frames[1] <= Len(done)
        /\ writing'.frame = frames[1] /\ writing'.at = IF mode = "Login" THEN "Header" ELSE "Png"
    BY <1>0, <2>1, <2>2 DEF Ordered, Newest
  <2>4. Paired'
    BY <1>0, <2>1, <2>3 DEF Paired, Follows, InHand, Hand
  <2>5. Ordered'
    <3>1. \A i \in 1..Len(frames') :
              /\ frames'[i] <= Len(done) /\ frames[1] <= frames'[i]
              /\ \A j \in 1..Len(frames') : i <= j => frames'[i] <= frames'[j]
      <4> SUFFICES ASSUME NEW i \in 1..Len(frames')
                   PROVE  /\ frames'[i] <= Len(done) /\ frames[1] <= frames'[i]
                          /\ \A j \in 1..Len(frames') : i <= j => frames'[i] <= frames'[j]
        OBVIOUS
      <4>1. i + 1 \in 1..Len(frames) /\ 1 <= i + 1 /\ frames'[i] = frames[i + 1]
        BY <1>0, <2>2
      <4>2. frames[i + 1] <= Len(done) /\ frames[1] <= frames[i + 1]
        BY <1>0, <2>2, <4>1 DEF Ordered
      <4>3. ASSUME NEW j \in 1..Len(frames'), i <= j PROVE frames'[i] <= frames'[j]
        <5>1. j + 1 \in 1..Len(frames) /\ i + 1 <= j + 1 /\ frames'[j] = frames[j + 1]
          BY <1>0, <2>2, <4>3
        <5> QED BY <1>0, <4>1, <5>1 DEF Ordered
      <4> QED BY <4>1, <4>2, <4>3
    <3> QED BY <1>0, <2>1, <2>3, <3>1 DEF Ordered, InHand
  <2> QED BY <2>4, <2>5
<1>9. CASE N!WriterSends
  <2>1. UNCHANGED <<mode, seen, done, frames>> /\ writing.at \in {"Header", "Png"}
    BY <1>9 DEF N!WriterSends, N!loop
  <2>2. CASE outbox' = outbox /\ writing' = [at |-> "Ended", frame |-> 0]
    BY <1>0, <2>1, <2>2 DEF Paired, Ordered, Follows, Newest, InHand, Hand
  <2>3. CASE /\ outbox' = Append(outbox, Hand)
             /\ writing' = IF writing.at = "Header" THEN [writing EXCEPT !.at = "Png"]
                           ELSE [at |-> "Idle", frame |-> 0]
    <3>1. Hand \in NodeMessages /\ Hand.as = writing.at /\ Hand.of = writing.frame
      BY <1>0, <2>1 DEF Hand, NodeMessages
    <3>2. /\ Len(outbox') = Len(outbox) + 1 /\ outbox'[Len(outbox) + 1] = Hand
          /\ \A i \in 1..Len(outbox) : outbox'[i] = outbox[i]
          /\ outbox' # <<>>
      <4>1. \A m \in NodeMessages :
                /\ Len(Append(outbox, m)) = Len(outbox) + 1 /\ Append(outbox, m)[Len(outbox) + 1] = m
                /\ \A i \in 1..Len(outbox) : Append(outbox, m)[i] = outbox[i]
                /\ Append(outbox, m) # <<>>
        BY <1>0, AppendProperties
      <4> QED BY <2>3, <3>1, <4>1
    <3>3. Newest' = Hand
      BY <1>0, <3>2 DEF Newest
    <3>4. Follows(Newest, Hand)
      BY <1>0, <2>1 DEF Paired, InHand
    <3>5. outbox' # <<>> => Follows(seen, outbox'[1])
      <4>1. CASE outbox = <<>>
        BY <1>0, <3>2, <3>4, <4>1 DEF Newest
      <4>2. CASE outbox # <<>>
        BY <1>0, <3>2, <4>2 DEF Paired
      <4> QED BY <4>1, <4>2
    <3>6. \A i \in 2..Len(outbox') : Follows(outbox'[i - 1], outbox'[i])
      <4> SUFFICES ASSUME NEW i \in 2..Len(outbox') PROVE Follows(outbox'[i - 1], outbox'[i])
        OBVIOUS
      <4>1. CASE i = Len(outbox) + 1
        <5>1. i - 1 = Len(outbox) /\ i - 1 \in 1..Len(outbox) /\ outbox # <<>>
          BY <1>0, <4>1
        <5>2. outbox'[i - 1] = Newest /\ outbox'[i] = Hand
          BY <3>2, <4>1, <5>1 DEF Newest
        <5> QED BY <3>4, <5>2
      <4>2. CASE i # Len(outbox) + 1
        <5>1. i \in 2..Len(outbox) /\ i - 1 \in 1..Len(outbox) /\ i \in 1..Len(outbox)
          BY <1>0, <3>2, <4>2
        <5>2. outbox'[i - 1] = outbox[i - 1] /\ outbox'[i] = outbox[i]
          BY <3>2, <5>1
        <5>3. Follows(outbox[i - 1], outbox[i])
          BY <1>0, <5>1 DEF Paired
        <5> QED BY <5>2, <5>3
      <4> QED BY <4>1, <4>2
    <3>7. /\ writing.at = "Header" => writing'.at = "Png" /\ writing'.frame = writing.frame
          /\ writing.at = "Png" => writing'.at = "Idle" /\ writing'.frame = 0
      BY <1>0, <2>3
    <3>8. InHand' => Follows(Newest', Hand')
      BY <1>0, <2>1, <3>1, <3>3, <3>7 DEF InHand, Hand, Follows
    <3>9. Paired'
      BY <2>1, <3>5, <3>6, <3>8 DEF Paired, Follows
    <3>10. Ordered'
      BY <1>0, <2>1, <3>1, <3>3, <3>7 DEF Ordered, InHand
    <3> QED BY <3>9, <3>10
  <2> QED BY <1>9, <2>2, <2>3 DEF N!WriterSends, N!Stopped, N!Idle, Hand
<1>10. CASE N!PeerReads
  <2>1. /\ UNCHANGED <<mode, writing, frames, done>> /\ outbox # <<>> /\ outbox' = Tail(outbox)
        /\ seen' = outbox[1]
    BY <1>0, <1>10 DEF N!PeerReads, N!tasks, N!loop
  <2>2. /\ Len(outbox') = Len(outbox) - 1
        /\ \A i \in 1..Len(outbox') : i + 1 \in 1..Len(outbox) /\ outbox'[i] = outbox[i + 1]
    BY <1>0, <2>1
  <2>3. Newest' = Newest
    <3>1. CASE outbox' = <<>>
      <4>1. Len(outbox) = 1
        <5>1. Len(outbox') = 0
          BY <3>1
        <5>2. Len(outbox) \in Nat /\ Len(outbox') = Len(outbox) - 1
          BY <1>0, <2>2
        <5> QED BY <5>1, <5>2
      <4> QED BY <2>1, <3>1, <4>1 DEF Newest
    <3>2. CASE outbox' # <<>>
      <4>1. Len(outbox') \in 1..Len(outbox') /\ Len(outbox') + 1 = Len(outbox)
        BY <1>0, <2>1, <2>2, <3>2
      <4>2. outbox'[Len(outbox')] = outbox[Len(outbox)]
        BY <2>2, <4>1
      <4> QED BY <2>1, <3>2, <4>2 DEF Newest
    <3> QED BY <3>1, <3>2
  <2>4. outbox' # <<>> => Follows(seen', outbox'[1])
    BY <1>0, <2>1, <2>2 DEF Paired
  <2>5. \A i \in 2..Len(outbox') : Follows(outbox'[i - 1], outbox'[i])
    <3> SUFFICES ASSUME NEW i \in 2..Len(outbox') PROVE Follows(outbox'[i - 1], outbox'[i])
      OBVIOUS
    <3>1. /\ i \in 1..Len(outbox') /\ i - 1 \in 1..Len(outbox') /\ i + 1 \in 2..Len(outbox)
          /\ (i + 1) - 1 = i /\ (i - 1) + 1 = i
      BY <1>0, <2>2
    <3>2. outbox'[i] = outbox[i + 1] /\ outbox'[i - 1] = outbox[i]
      BY <2>2, <3>1
    <3>3. Follows(outbox[(i + 1) - 1], outbox[i + 1])
      BY <1>0, <3>1 DEF Paired
    <3> QED BY <3>1, <3>2, <3>3
  <2>6. Paired'
    BY <1>0, <2>1, <2>3, <2>4, <2>5 DEF Paired, Follows, InHand, Hand
  <2>7. Ordered'
    BY <1>0, <2>1, <2>3 DEF Ordered, InHand
  <2> QED BY <2>6, <2>7
<1> QED BY <1>2, <1>3, <1>4, <1>5, <1>6, <1>7, <1>8, <1>9, <1>10
        DEF N!StreamNext, N!NodeStep, Opens, Waits

\* What is paired in the socket, the writer's hand and the peer's is paired on the way.
LEMMA WayIsPaired == ASSUME StreamTypes, Paired PROVE N!FramesArePaired
<1> DEFINE rest == IF InHand THEN <<Hand>> ELSE <<>>
           base == <<seen>> \o outbox
<1>1. InHand => Hand \in NodeMessages
  BY DEF StreamTypes, InHand, Hand, NodeMessages
<1>2. N!OnTheWay = base \o rest
  BY DEF N!OnTheWay, InHand, Hand
<1>3. <<seen>> \in Seq(NodeMessages) /\ rest \in Seq(NodeMessages) /\ outbox \in Seq(NodeMessages)
      /\ Len(rest) = IF InHand THEN 1 ELSE 0
  BY <1>1 DEF StreamTypes
<1>4. /\ base \in Seq(NodeMessages) /\ Len(base) = 1 + Len(outbox) /\ base[1] = seen
      /\ \A i \in 2..Len(base) : base[i] = outbox[i - 1]
      /\ Len(outbox) \in Nat
  BY <1>3
<1>5. base[Len(base)] = Newest
  BY <1>3, <1>4 DEF Newest
<1>6. \A i \in 2..Len(base) : Follows(base[i - 1], base[i])
  <2> SUFFICES ASSUME NEW i \in 2..Len(base) PROVE Follows(base[i - 1], base[i])
    OBVIOUS
  <2>1. CASE i = 2
    BY <1>4, <2>1 DEF Paired
  <2>2. CASE i # 2
    <3>1. i - 1 \in 2..Len(outbox) /\ i - 1 \in 2..Len(base)
      BY <1>4, <2>2
    <3>2. base[i] = outbox[i - 1] /\ base[i - 1] = outbox[(i - 1) - 1]
      BY <1>4, <3>1
    <3>3. Follows(outbox[(i - 1) - 1], outbox[i - 1])
      BY <3>1 DEF Paired
    <3> HIDE DEF base
    <3> QED BY <3>2, <3>3
  <2> QED BY <2>1, <2>2
<1>7. /\ Len(N!OnTheWay) = Len(base) + Len(rest)
      /\ \A i \in 1..Len(base) : N!OnTheWay[i] = base[i]
      /\ InHand => N!OnTheWay[Len(base) + 1] = Hand
  <2> HIDE DEF base
  <2> QED BY <1>2, <1>3, <1>4
<1>8. ASSUME NEW i \in 2..Len(N!OnTheWay) PROVE Follows(N!OnTheWay[i - 1], N!OnTheWay[i])
  <2> HIDE DEF base, rest
  <2>1. CASE i \in 2..Len(base)
    <3>1. i - 1 \in 1..Len(base) /\ i \in 1..Len(base)
      BY <1>4, <2>1
    <3> QED BY <1>6, <1>7, <2>1, <3>1
  <2>2. CASE i \notin 2..Len(base)
    <3>1. InHand /\ i = Len(base) + 1 /\ i - 1 = Len(base) /\ i - 1 \in 1..Len(base)
      BY <1>3, <1>4, <1>7, <2>2
    <3> QED BY <1>5, <1>7, <3>1 DEF Paired
  <2> QED BY <2>1, <2>2
<1> HIDE DEF base, rest
<1> QED BY <1>8 DEF N!FramesArePaired, Follows, N!Login, N!Header, N!Png

\* For any inputs, however peer, socket and page fail: the page sees each input once, whole and in
\* its order, unless it fails at it; frames leave in their order, each with its header; and a node
\* that returns a proof leaves no browser and no task (run_node(), run_login_node()).
THEOREM StreamHolds ==
  ASSUME ScriptsAreInputs
  PROVE  N!StreamSpec => [](N!PageIsAsTold /\ N!FramesArePaired /\ N!NothingIsLeftRunning)
<1>1. N!StreamInit => StreamInv
  BY StreamStarts
<1>2. StreamInv /\ [N!StreamNext]_(N!streamed) => StreamInv'
  BY StreamTypesKeep, RunsKeep, SeesKeep, OrderKeeps DEF StreamInv
<1>3. StreamInv => N!PageIsAsTold /\ N!FramesArePaired /\ N!NothingIsLeftRunning
  BY WayIsPaired DEF StreamInv, Sees, StreamRuns
<1> QED BY <1>1, <1>2, <1>3, PTL DEF N!StreamSpec
-----------------------------------------------------------------------------
(* StationRequests *)

CONSTANTS MaxTries, Limit

VARIABLES
    op, flaw, gates, services, contents, caller, answer, conn, target, changed, tally, accept, remote

R == INSTANCE StationRequests

\* Where a handler is at a request, where it is not, and what refuses one.
Busy == {"Handling", "Leasing", "Working", "Recovering"}
Idling == {"Reading", "Stopping", "Over", "Joined"}
Refusals == {"Invalid", "Conflict", "Unsupported", "Refused", "NoStation"}

\* How many tries were written, and how many may have a connection.
Asked == IF caller.at \in {"Connecting", "Sending"} THEN caller.try - 1 ELSE caller.try
Conns == IF caller.at = "Connecting" THEN caller.try - 1 ELSE caller.try

\* What a connection and the counters may hold.
Links == [at : R!Live \cup {"None", "Over", "Joined"}, try : 0..MaxTries,
          reply : R!Replies \cup {"None"}, peer : BOOLEAN, written : BOOLEAN, ok : BOOLEAN]
Tallies == [accepted : Int, active : Int, completed : Nat, aborted : Nat,
            started : Int, in_flight : Int, succeeded : Nat, failed : Nat]

\* What each variable may hold; the counters stand alone here.
RequestTypes ==
    /\ op \in R!Ops
    /\ contents \in [R!Tries -> {"None", "this", "other"}]
    /\ caller \in [at : {"Idle", "Connecting", "Sending", "Waiting"}, try : 0..MaxTries,
                   conn : 0..MaxTries]
    /\ answer \in [R!Tries -> R!Replies \cup {"None", "Refused", "NoStation", "Frame", "Timeout"}]
    /\ conn \in [R!Tries -> Links]
    /\ target \in [state : {"Absent", "Left", "Reserved", "There", "Taken", "Over", "Cancelled"},
                   content : {"None", "this", "other"}]
    /\ changed \subseteq R!Tries
    /\ tally \in Tallies
    /\ accept \in {"Accepting", "Draining", "Ended"}

\* The caller waits on the connection that carries its try; between tries its connection is
\* at rest, and a try has its end only when it is over.
CallerInv ==
    /\ caller.at # "Idle" => caller.try # 0
    /\ caller.at = "Connecting" => caller.conn = 0
    /\ caller.at \in {"Sending", "Waiting"} => caller.conn # 0
    /\ caller.at = "Waiting" => conn[caller.conn].try = caller.try
    /\ caller.at # "Waiting" /\ caller.conn # 0 =>
          conn[caller.conn].at \in Idling /\ ~ conn[caller.conn].written
          /\ conn[caller.conn].reply = "None"
    /\ \A n \in R!Tries : n > caller.try \/ (n = caller.try /\ caller.at # "Idle") => answer[n] = "None"

\* A connection has its client as long as the caller names it, carries a try that was asked, and
\* has an answer only for that try.
LinkOK(n) ==
    /\ conn[n].peer <=> n = caller.conn
    /\ conn[n].at = "None" => conn[n] = R!Unborn
    /\ conn[n].at # "None" => n <= Conns
    /\ conn[n].try <= Asked
    /\ conn[n].written => conn[n].at \in {"Reading", "Stopping"} /\ conn[n].try # 0
    /\ conn[n].at \in Busy => conn[n].reply = "None" /\ conn[n].try # 0
    /\ conn[n].at = "Writing" => conn[n].reply # "None"
    /\ conn[n].reply # "None" =>
          /\ conn[n].try # 0 /\ ~ conn[n].written
          /\ conn[n].at = "Writing" \/ n = caller.conn

\* Two connections never carry one try.
ConnInv ==
    /\ \A n \in R!Tries : LinkOK(n)
    /\ \A n, m \in R!Tries : conn[n].try = conn[m].try /\ conn[n].try # 0 => n = m

\* What changed the station is a try that was asked and not refused; its handler is past its
\* work, or a login that is being closed, and what it will answer is no refusal.
ChangeInv ==
    /\ \A n \in R!Tries : conn[n].at \in Busy \/ conn[n].written => answer[conn[n].try] \notin Refusals
    /\ \A t \in changed : t <= Asked /\ answer[t] \notin Refusals
    /\ \A n \in R!Tries : conn[n].try \in changed =>
          /\ ~ conn[n].written
          /\ conn[n].at \in Busy => op.kind = "FinishAuthSession" /\ conn[n].at = "Working"
          /\ conn[n].reply \notin Refusals

\* What is made once under its id.
OnceOps == {R!Op("Collection", "Begin"), R!Op("Crawl", "Begin"), R!Op("LiveEvents", "Begin"),
            R!Op("BeginAuthSession", "Only")}

\* One try at most made it, and what the id names says whether one did: a reservation, or a
\* collection in its admission, belongs to one handler.
OnceInv ==
    op \in OnceOps =>
       /\ \A n \in R!Tries : conn[n].at # "Leasing"
       /\ \A i, j \in changed : i = j
       /\ changed = {} <=> target.state \in {"Absent", "Reserved"}
       /\ target.state = "Reserved" => op.kind = "BeginAuthSession"
       /\ op.kind \in {"Collection", "BeginAuthSession"} =>
             \A n \in R!Tries : conn[n].at = "Working" =>
                /\ target.state = IF op.kind = "Collection" THEN "Absent" ELSE "Reserved"
                /\ \A m \in R!Tries : conn[m].at = "Working" => m = n

\* A crawl has its journal and no job.
CrawlLeft == op.kind = "Crawl" /\ target.state = "Left"

\* An answer agrees with what the id names.
Agrees(status, content) ==
    /\ status \in {"Ok", "Conflict"} => target.state # "Absent"
    /\ status = "Ok" => content = target.content
    /\ status = "Conflict" => content # target.content \/ CrawlLeft

\* So do all answers of a collection or crawl that were given or are on their way.
AgreeInv ==
    op \in {R!Op("Collection", "Begin"), R!Op("Crawl", "Begin")} =>
       /\ \A t \in R!Tries : Agrees(answer[t], contents[t])
       /\ \A n \in R!Tries : conn[n].reply # "None" => Agrees(conn[n].reply, contents[conn[n].try])

\* The steps of one handler, of a connection around it, of the caller, and of the server.
HandlerStep(n) ==
    \/ R!Missing(n) \/ R!Ungated(n) \/ R!Answers(n) \/ R!ReportsIdentity(n) \/ R!UpdatesIdentity(n)
    \/ R!ChecksSession(n) \/ R!ImportsSession(n) \/ R!Captures(n) \/ R!Leases(n) \/ R!Works(n)
    \/ R!BeginsCrawl(n) \/ R!BeginsCollection(n) \/ R!BeginsLive(n) \/ R!BeginsMonitor(n) \/ R!BeginsAuth(n)
    \/ R!FinishesAuth(n) \/ R!EndsTarget(n) \/ R!ReadsTarget(n)
LinkStep(n) == R!Takes(n) \/ R!StopsReading(n) \/ R!Writes(n) \/ R!AsksToStop(n) \/ R!Joins(n)
CallerStep ==
    \/ \E content \in {"this", "other"} : R!Asks(content)
    \/ R!Connects \/ R!CannotConnect \/ R!Sends \/ R!CannotSend \/ R!Receives \/ R!GivesUp
ServerStep == R!Finishes \/ R!StopsAccepting \/ R!Drained \/ R!DrainTimesOut

\* The caller asks at least once.
TriesAreFinite == MaxTries \in Nat \ {0}

\* The steps, by whose they are.
LEMMA StepsAre ==
    R!RequestNext <=> \/ CallerStep \/ ServerStep
                    \/ \E n \in R!Tries : HandlerStep(n) \/ LinkStep(n)
BY DEF R!RequestNext, CallerStep, ServerStep, HandlerStep, LinkStep

\* A handler works, and goes on or ends with an answer; who asks is not its business.
LEMMA HandlerMoves ==
    ASSUME NEW n \in R!Tries, HandlerStep(n)
    PROVE  /\ conn[n].at \in Busy
           /\ R!SameStation
           /\ \/ \E place \in Busy : R!Goes(n, place) /\ UNCHANGED tally
              \/ \E s \in R!Replies : R!Ends(n, s)
<1> USE DEF Busy, R!Replies
<1>1. CASE R!Missing(n) \/ R!Ungated(n)
  BY <1>1 DEF R!Missing, R!Ungated
<1>2. CASE R!Answers(n) \/ R!ReportsIdentity(n) \/ R!ReadsTarget(n)
  BY <1>2 DEF R!Answers, R!ReportsIdentity, R!ReadsTarget, R!Admitted
<1>3. CASE R!Captures(n) \/ R!Leases(n) \/ R!Works(n)
  BY <1>3 DEF R!Captures, R!Leases, R!Works, R!Admitted
<1>4. CASE R!BeginsCrawl(n) \/ R!BeginsCollection(n)
  BY <1>4 DEF R!BeginsCrawl, R!BeginsCollection, R!Admitted
<1>5. CASE R!BeginsLive(n) \/ R!BeginsMonitor(n)
  BY <1>5 DEF R!BeginsLive, R!BeginsMonitor, R!Admitted
<1>6. CASE R!BeginsAuth(n) \/ R!FinishesAuth(n)
  BY <1>6 DEF R!BeginsAuth, R!FinishesAuth, R!Admitted
<1>7. CASE R!EndsTarget(n)
  BY <1>7 DEF R!EndsTarget, R!Admitted
<1>8. CASE R!UpdatesIdentity(n) \/ R!ChecksSession(n) \/ R!ImportsSession(n)
  BY <1>8 DEF R!UpdatesIdentity, R!ChecksSession, R!ImportsSession, R!UsesSession, R!Admitted
<1>9. QED BY <1>1, <1>2, <1>3, <1>4, <1>5, <1>6, <1>7, <1>8 DEF HandlerStep

\* What a handler changes, its try changed: it answers Ok or that it cannot say, or goes on to
\* close a login.
LEMMA HandlerChanges ==
    ASSUME NEW n \in R!Tries, HandlerStep(n)
    PROVE  \/ /\ changed' = changed
              /\ op.kind = "FinishAuthSession" /\ conn[n].at = "Working" =>
                    \E s \in {"Ok", "Unavailable"} : R!Ends(n, s)
           \/ /\ changed' = changed \cup {conn[n].try}
              /\ \/ \E s \in {"Ok", "Unavailable"} : R!Ends(n, s)
                 \/ op.kind = "FinishAuthSession" /\ R!Goes(n, "Working")
<1> USE DEF R!Keeps, R!Becomes
<1>1. CASE R!Missing(n) \/ R!Ungated(n)
  BY <1>1 DEF R!Missing, R!Ungated
<1>2. CASE R!Answers(n) \/ R!ReportsIdentity(n) \/ R!ReadsTarget(n)
  BY <1>2 DEF R!Answers, R!ReportsIdentity, R!ReadsTarget, R!Admitted
<1>3. CASE R!Captures(n) \/ R!Leases(n) \/ R!Works(n)
  BY <1>3 DEF R!Captures, R!Leases, R!Works, R!Admitted, R!Counted
<1>4. CASE R!BeginsCrawl(n) \/ R!BeginsCollection(n)
  BY <1>4 DEF R!BeginsCrawl, R!BeginsCollection, R!Admitted, R!Op
<1>5. CASE R!BeginsLive(n) \/ R!BeginsMonitor(n)
  BY <1>5 DEF R!BeginsLive, R!BeginsMonitor, R!Admitted, R!Op
<1>6. CASE R!BeginsAuth(n) \/ R!FinishesAuth(n)
  BY <1>6 DEF R!BeginsAuth, R!FinishesAuth, R!Admitted
<1>7. CASE R!EndsTarget(n)
  BY <1>7 DEF R!EndsTarget, R!Admitted
<1>8. CASE R!UpdatesIdentity(n) \/ R!ChecksSession(n) \/ R!ImportsSession(n)
  BY <1>8 DEF R!UpdatesIdentity, R!ChecksSession, R!ImportsSession, R!UsesSession, R!Admitted
<1>9. QED BY <1>1, <1>2, <1>3, <1>4, <1>5, <1>6, <1>7, <1>8 DEF HandlerStep

\* What the id names keeps its type.
LEMMA TargetIsTyped ==
    ASSUME TriesAreFinite, RequestTypes, ConnInv, NEW n \in R!Tries, HandlerStep(n)
    PROVE  target' \in [state : {"Absent", "Left", "Reserved", "There", "Taken", "Over", "Cancelled"},
                        content : {"None", "this", "other"}]
<1> USE DEF R!Keeps, R!Becomes, R!Content, RequestTypes
<1>0. contents[conn[n].try] \in {"None", "this", "other"} /\ conn[n].try \in R!Tries
  <2>1. conn[n].at \in Busy
    BY HandlerMoves
  <2>2. conn[n].try # 0 /\ conn[n].try \in 0..MaxTries
    BY <2>1 DEF ConnInv, LinkOK, Links
  <2>3. QED BY <2>2 DEF R!Tries, TriesAreFinite
<1>1. CASE R!Missing(n) \/ R!Ungated(n)
  BY <1>1 DEF R!Missing, R!Ungated
<1>2. CASE R!Answers(n) \/ R!ReportsIdentity(n) \/ R!ReadsTarget(n)
  BY <1>2 DEF R!Answers, R!ReportsIdentity, R!ReadsTarget
<1>3. CASE R!Captures(n) \/ R!Leases(n) \/ R!Works(n)
  BY <1>3 DEF R!Captures, R!Leases, R!Works
<1>4. CASE R!BeginsCrawl(n) \/ R!BeginsCollection(n)
  BY <1>0, <1>4 DEF R!BeginsCrawl, R!BeginsCollection
<1>5. CASE R!BeginsLive(n) \/ R!BeginsMonitor(n)
  BY <1>0, <1>5 DEF R!BeginsLive, R!BeginsMonitor
<1>6. CASE R!BeginsAuth(n) \/ R!FinishesAuth(n)
  BY <1>0, <1>6 DEF R!BeginsAuth, R!FinishesAuth
<1>7. CASE R!EndsTarget(n)
  BY <1>0, <1>7 DEF R!EndsTarget
<1>8. CASE R!UpdatesIdentity(n) \/ R!ChecksSession(n) \/ R!ImportsSession(n)
  BY <1>0, <1>8 DEF R!UpdatesIdentity, R!ChecksSession, R!ImportsSession, R!UsesSession
<1>9. QED BY <1>1, <1>2, <1>3, <1>4, <1>5, <1>6, <1>7, <1>8 DEF HandlerStep

\* One connection moves; its try and its client stay.
LinkMoves(n) ==
    /\ conn' \in [R!Tries -> Links]
    /\ \A m \in R!Tries \ {n} : conn'[m] = conn[m]
    /\ conn'[n].try = conn[n].try /\ conn'[n].peer = conn[n].peer

\* Going on moves the place.
LEMMA GoesMoves ==
    ASSUME conn \in [R!Tries -> Links], NEW n \in R!Tries, NEW place \in R!Live, R!Goes(n, place)
    PROVE  /\ LinkMoves(n) /\ conn'[n].at = place /\ conn'[n].reply = conn[n].reply
           /\ conn'[n].written = conn[n].written /\ conn'[n].ok = conn[n].ok
BY DEF R!Goes, LinkMoves, Links

\* An answer moves the place and the answer.
LEMMA ResultMoves ==
    ASSUME conn \in [R!Tries -> Links], NEW n \in R!Tries, NEW s \in R!Replies, R!Result(n, s)
    PROVE  /\ LinkMoves(n) /\ conn'[n].at = "Writing" /\ conn'[n].reply = s
           /\ conn'[n].written = conn[n].written /\ conn'[n].ok = conn[n].ok
BY DEF R!Result, LinkMoves, Links, R!Live

\* Leaving drops what was not read.
LEMMA LeavesMoves ==
    ASSUME conn \in [R!Tries -> Links], NEW n \in R!Tries, NEW s \in BOOLEAN, R!Leaves(n, s)
    PROVE  /\ LinkMoves(n) /\ conn'[n].at = "Over" /\ conn'[n].reply = conn[n].reply
           /\ ~ conn'[n].written
BY DEF R!Leaves, LinkMoves, Links

\* A request is read once.
LEMMA TakesMoves ==
    ASSUME conn \in [R!Tries -> Links], NEW n \in R!Tries, R!Takes(n)
    PROVE  /\ LinkMoves(n) /\ conn'[n].at = "Handling" /\ conn'[n].reply = conn[n].reply
           /\ ~ conn'[n].written
BY DEF R!Takes, LinkMoves, Links, R!Live

\* Joining moves the place.
LEMMA JoinsMoves ==
    ASSUME conn \in [R!Tries -> Links], NEW n \in R!Tries, R!Joins(n)
    PROVE  /\ LinkMoves(n) /\ conn'[n].at = "Joined" /\ conn'[n].reply = conn[n].reply
           /\ conn'[n].written = conn[n].written /\ conn'[n].ok = conn[n].ok
BY DEF R!Joins, LinkMoves, Links, R!Live

\* Writing keeps the answer for a client that is there.
LEMMA WritesMoves ==
    ASSUME conn \in [R!Tries -> Links], NEW n \in R!Tries, R!Writes(n)
    PROVE  /\ LinkMoves(n) /\ conn'[n].at \in {"Over", "Reading", "Stopping"}
           /\ conn'[n].reply = IF conn[n].peer THEN conn[n].reply ELSE "None"
           /\ conn'[n].written = conn[n].written
BY DEF R!Writes, R!Goes, LinkMoves, Links, R!Live

\* Caller and connections are in step.
Talking == RequestTypes /\ CallerInv /\ ConnInv

\* The fields of a connection, from the type.
LEMMA LinksAre ==
    ASSUME Talking, NEW n \in R!Tries
    PROVE  conn[n].at \in R!Live \cup {"None", "Over", "Joined"} /\ conn[n].try \in 0..MaxTries
           /\ conn[n].reply \in R!Replies \cup {"None"} /\ conn[n].peer \in BOOLEAN
           /\ conn[n].written \in BOOLEAN
BY DEF Talking, RequestTypes, Links

\* A handler moves its connection: it is at work, or has answered and counted that.
LEMMA HandlersMove ==
    ASSUME Talking, NEW n \in R!Tries, HandlerStep(n)
    PROVE  /\ LinkMoves(n) /\ conn[n].at \in Busy
           /\ conn'[n].written = conn[n].written
           /\ (conn'[n].at \in Busy /\ conn'[n].reply = conn[n].reply /\ UNCHANGED tally)
              \/ (conn'[n].at = "Writing" /\ conn'[n].reply \in R!Replies /\ tally' = R!Observed(conn'[n].reply))
<1>1. conn[n].at \in Busy
  BY HandlerMoves
<1>2. CASE \E place \in Busy : R!Goes(n, place) /\ UNCHANGED tally
  BY <1>1, <1>2, GoesMoves DEF Talking, RequestTypes, Busy, R!Live
<1>3. CASE \E s \in R!Replies : R!Ends(n, s)
  BY <1>1, <1>3, ResultMoves DEF Talking, RequestTypes, R!Ends
<1>4. QED BY <1>2, <1>3, HandlerMoves

\* Connections stay in step when one moves and is in step.
LEMMA LinksStay ==
    ASSUME Talking, NEW n \in R!Tries, LinkMoves(n), LinkOK(n)', UNCHANGED caller
    PROVE  ConnInv'
<1>1. Conns' = Conns /\ Asked' = Asked
  BY DEF Conns, Asked
<1>2. \A m \in R!Tries : conn'[m].try = conn[m].try
  BY DEF LinkMoves
<1>3. \A m \in R!Tries : LinkOK(m)'
  <2> SUFFICES ASSUME NEW m \in R!Tries PROVE LinkOK(m)'
    OBVIOUS
  <2>1. CASE m = n
    BY <2>1
  <2>2. CASE m # n
    <3>1. conn'[m] = conn[m] /\ LinkOK(m)
      BY <2>2 DEF LinkMoves, Talking, ConnInv
    <3>2. QED BY <1>1, <3>1 DEF LinkOK
  <2>3. QED BY <2>1, <2>2
<1>4. QED BY <1>2, <1>3 DEF Talking, ConnInv

\* So does the caller, when its connection is at rest between tries.
LEMMA CallerStays ==
    ASSUME TriesAreFinite, Talking, NEW n \in R!Tries, LinkMoves(n), UNCHANGED <<caller, answer>>,
           n = caller.conn /\ caller.at # "Waiting" =>
              conn'[n].at \in Idling /\ ~ conn'[n].written /\ conn'[n].reply = "None"
    PROVE  CallerInv'
<1>1. caller.conn \in 0..MaxTries /\ (caller.conn # 0 => caller.conn \in R!Tries)
  BY DEF Talking, RequestTypes, R!Tries, TriesAreFinite
<1>2. \A m \in R!Tries \ {n} : conn'[m] = conn[m]
  BY DEF LinkMoves
<1>3. \A m \in R!Tries : conn'[m].try = conn[m].try
  BY DEF LinkMoves
<1>4. CallerInv
  BY DEF Talking
<1>5. QED BY <1>1, <1>2, <1>3, <1>4 DEF CallerInv

\* Handlers keep caller and connections in step.
LEMMA HandlersTalk ==
    ASSUME TriesAreFinite, Talking, NEW n \in R!Tries, HandlerStep(n)
    PROVE  Talking'
<1>1. /\ conn[n].at \in Busy /\ R!SameStation /\ LinkOK(n)
  BY HandlerMoves DEF Talking, ConnInv
<1>2. LinkMoves(n) /\ (conn'[n].at \in Busy \/ (conn'[n].at = "Writing" /\ conn'[n].reply # "None"))
      /\ conn'[n].written = conn[n].written /\ (conn'[n].at \in Busy => conn'[n].reply = conn[n].reply)
  <2>1. "None" \notin R!Replies
    BY DEF R!Replies
  <2>2. QED BY <2>1, HandlersMove DEF Busy
<1>3. RequestTypes'
  <2>1. conn' \in [R!Tries -> Links]
    BY <1>2 DEF LinkMoves
  <2>2. tally' \in Tallies
    <3>1. tally \in Tallies
      BY DEF Talking, RequestTypes
    <3>2. \A s \in R!Replies : R!Observed(s) \in Tallies
      <4> DEFINE yes == [tally EXCEPT !.succeeded = @ + 1, !.in_flight = @ - 1]
                 no == [tally EXCEPT !.failed = @ + 1, !.in_flight = @ - 1]
      <4>1. yes \in Tallies /\ no \in Tallies
        <5> DEFINE mid == [tally EXCEPT !.in_flight = @ - 1]
        <5>1. mid \in Tallies
          BY <3>1 DEF Tallies
        <5>2. [mid EXCEPT !.succeeded = @ + 1] \in Tallies /\ [mid EXCEPT !.failed = @ + 1] \in Tallies
          <6> HIDE DEF mid
          <6>1. QED BY <5>1 DEF Tallies
        <5>3. yes = [mid EXCEPT !.succeeded = @ + 1] /\ no = [mid EXCEPT !.failed = @ + 1]
          BY <3>1 DEF Tallies
        <5>4. QED BY <5>2, <5>3
      <4>2. \A s \in R!Replies : R!Observed(s) \in {tally, yes, no}
        BY DEF R!Observed
      <4>3. QED BY <3>1, <4>1, <4>2
    <3>3. UNCHANGED tally \/ \E s \in R!Replies : tally' = R!Observed(s)
      BY HandlersMove
    <3>4. QED BY <3>1, <3>2, <3>3
  <2>3. changed' \subseteq R!Tries
    <3>1. conn[n].try \in R!Tries
      BY <1>1, LinksAre DEF LinkOK, R!Tries, TriesAreFinite
    <3>2. QED BY <3>1, HandlerChanges DEF Talking, RequestTypes
  <2>4. QED BY <1>1, <2>1, <2>2, <2>3, TargetIsTyped DEF Talking, RequestTypes, R!SameStation
<1>4. CallerInv'
  <2>1. ~ (n = caller.conn /\ caller.at # "Waiting")
    BY <1>1 DEF Talking, CallerInv, Busy, Idling, RequestTypes, R!Tries
  <2>2. QED BY <1>1, <1>2, <2>1, CallerStays DEF R!SameStation
<1>5. ConnInv'
  <2>1. caller' = caller /\ Conns' = Conns /\ Asked' = Asked
    BY <1>1 DEF R!SameStation, Conns, Asked
  <2>2. LinkOK(n)'
    BY <1>1, <1>2, <2>1 DEF LinkOK, LinkMoves, Busy
  <2>3. QED BY <1>2, <2>1, <2>2, LinksStay
<1>6. QED BY <1>3, <1>4, <1>5 DEF Talking

\* Each step around a handler moves its connection: an answer stays or goes, what was written is
\* read or dropped.
LEMMA LinksMove ==
    ASSUME Talking, NEW n \in R!Tries, LinkStep(n)
    PROVE  /\ LinkMoves(n)
           /\ conn[n].at \in {"Reading", "Stopping", "Over", "Writing"}
           /\ conn'[n].at \in {"Handling", "Reading", "Stopping", "Over", "Joined"}
           /\ conn'[n].at = "Handling" => conn[n].written /\ ~ conn'[n].written
           /\ conn'[n].reply \in {conn[n].reply, "None"}
           /\ conn[n].at = "Writing" /\ ~ conn[n].peer => conn'[n].reply = "None"
           /\ conn'[n].written => conn[n].written
           /\ conn'[n].written => conn[n].at \in {"Writing", "Over"}
           /\ ~ conn'[n].written
<1>0. conn \in [R!Tries -> Links] /\ LinkOK(n)
  BY DEF Talking, RequestTypes, ConnInv
<1>1. /\ LinkMoves(n)
      /\ conn[n].at \in {"Reading", "Stopping", "Over", "Writing"}
      /\ conn'[n].at \in {"Handling", "Reading", "Stopping", "Over", "Joined"}
      /\ conn'[n].at = "Handling" => conn[n].written /\ ~ conn'[n].written
      /\ conn'[n].reply \in {conn[n].reply, "None"}
      /\ conn[n].at = "Writing" /\ ~ conn[n].peer => conn'[n].reply = "None"
      /\ conn'[n].written => conn[n].written
      /\ conn'[n].written => conn[n].at \in {"Writing", "Over"}
  <2>1. CASE R!Takes(n)
    BY <1>0, <2>1, TakesMoves DEF R!Takes
  <2>2. CASE R!StopsReading(n)
    BY <1>0, <2>2, LeavesMoves DEF R!StopsReading
  <2>3. CASE R!AsksToStop(n)
    BY <1>0, <2>3, LeavesMoves DEF R!AsksToStop
  <2>4. CASE R!Writes(n)
    BY <1>0, <2>4, WritesMoves DEF R!Writes
  <2>5. CASE R!Joins(n)
    BY <1>0, <2>5, JoinsMoves DEF R!Joins
  <2>6. QED BY <2>1, <2>2, <2>3, <2>4, <2>5 DEF LinkStep
<1>2. ~ conn'[n].written
  BY <1>0, <1>1 DEF LinkOK
<1>3. QED BY <1>1, <1>2

\* The steps around a handler keep caller and connections in step.
LEMMA LinksTalk ==
    ASSUME TriesAreFinite, Talking, NEW n \in R!Tries, LinkStep(n)
    PROVE  Talking'
<1>0. conn \in [R!Tries -> Links] /\ LinkOK(n)
  BY DEF Talking, RequestTypes, ConnInv
<1>1. UNCHANGED <<op, flaw, gates, services, contents, caller, answer, target, changed>>
      /\ accept' = accept
  BY DEF LinkStep, R!Takes, R!StopsReading, R!Writes, R!AsksToStop, R!Joins
<1>2. tally' \in Tallies
  <2>1. tally \in Tallies
    BY DEF Talking, RequestTypes
  <2>2. CASE R!Takes(n)
    <3> DEFINE mid == [tally EXCEPT !.started = @ + 1]
    <3>1. mid \in Tallies
      BY <2>1 DEF Tallies
    <3>2. [mid EXCEPT !.in_flight = @ + 1] \in Tallies
      <4> HIDE DEF mid
      <4>1. QED BY <3>1 DEF Tallies
    <3>3. [mid EXCEPT !.in_flight = @ + 1] = [tally EXCEPT !.started = @ + 1, !.in_flight = @ + 1]
      BY <2>1 DEF Tallies
    <3>4. QED BY <2>1, <2>2, <3>2, <3>3 DEF R!Takes
  <2>3. CASE R!StopsReading(n) \/ R!Writes(n) \/ R!AsksToStop(n)
    <3>1. R!Closed \in Tallies
      BY <2>1 DEF R!Closed, Tallies
    <3>2. tally' \in {tally, R!Closed}
      BY <2>3 DEF R!StopsReading, R!Writes, R!AsksToStop
    <3>3. QED BY <2>1, <3>1, <3>2
  <2>4. CASE R!Joins(n)
    BY <2>1, <2>4 DEF R!Joins, R!Joined, Tallies
  <2>5. QED BY <2>2, <2>3, <2>4 DEF LinkStep
<1>3. /\ LinkMoves(n)
      /\ conn[n].at \in {"Reading", "Stopping", "Over", "Writing"}
      /\ conn'[n].at \in {"Handling", "Reading", "Stopping", "Over", "Joined"}
      /\ conn'[n].at = "Handling" => conn[n].written /\ ~ conn'[n].written
      /\ conn'[n].reply \in {conn[n].reply, "None"}
      /\ conn[n].at = "Writing" /\ ~ conn[n].peer => conn'[n].reply = "None"
      /\ conn'[n].written => conn[n].written
      /\ conn'[n].written => conn[n].at \in {"Writing", "Over"}
  BY LinksMove
<1>4. RequestTypes'
  <2>1. conn' \in [R!Tries -> Links]
    BY <1>3 DEF LinkMoves
  <2>2. QED BY <1>1, <1>2, <2>1 DEF Talking, RequestTypes
<1>5. ~ conn'[n].written
  BY LinksMove
<1>6. CallerInv'
  <2>1. n = caller.conn /\ caller.at # "Waiting" =>
            conn[n].at \in Idling /\ ~ conn[n].written /\ conn[n].reply = "None"
    BY DEF Talking, CallerInv, R!Tries
  <2>2. n = caller.conn /\ caller.at # "Waiting" => conn'[n].at \in Idling /\ conn'[n].reply = "None"
    BY <1>3, <2>1 DEF Idling
  <2>3. QED BY <1>1, <1>3, <1>5, <2>2, CallerStays
<1>7. ConnInv'
  <2>1. Conns' = Conns /\ Asked' = Asked
    BY <1>1 DEF Conns, Asked
  <2>2. LinkOK(n)'
    BY <1>0, <1>1, <1>3, <1>5, <2>1 DEF LinkOK, LinkMoves, Busy
  <2>3. QED BY <1>1, <1>3, <2>2, LinksStay
<1>8. QED BY <1>4, <1>6, <1>7 DEF Talking

\* StationRequests counts as this module does.
LEMMA SizesAgree ==
    ASSUME NEW S
    PROVE  R!Cardinality(S) = Cardinality(S)
BY DEF R!Cardinality, Cardinality, R!IsFiniteSet, IsFiniteSet

\* There are finitely many tries.
LEMMA SubsetsAreCounted ==
    ASSUME TriesAreFinite, NEW S \in SUBSET R!Tries
    PROVE  IsFiniteSet(S) /\ Cardinality(S) \in Nat
<1>1. IsFiniteSet(1..MaxTries)
  BY FS_Interval DEF TriesAreFinite
<1>2. IsFiniteSet(S)
  BY <1>1, FS_Subset DEF R!Tries
<1>3. QED BY <1>2, FS_CardinalityType

\* A connection the server left at the drain timeout.
Left(n) == [conn[n] EXCEPT !.at = "Joined", !.written = FALSE,
                            !.reply = IF conn[n].at = "Writing" THEN "None" ELSE @]

\* It is joined, with nothing written and no answer on its way.
LEMMA LeftIsTyped ==
    ASSUME conn \in [R!Tries -> Links], NEW n \in R!Tries
    PROVE  /\ Left(n) \in Links /\ Left(n).at = "Joined" /\ ~ Left(n).written /\ Left(n).peer = conn[n].peer
           /\ Left(n).try = conn[n].try
           /\ Left(n).reply = IF conn[n].at = "Writing" THEN "None" ELSE conn[n].reply
<1> DEFINE L == conn[n]
<1>1. L \in Links
  OBVIOUS
<1> HIDE DEF L
<1> DEFINE a == [L EXCEPT !.at = "Joined"]
           b == [a EXCEPT !.written = FALSE]
           d == [b EXCEPT !.reply = IF L.at = "Writing" THEN "None" ELSE @]
<1>2. a \in Links /\ a.at = "Joined" /\ a.peer = L.peer /\ a.try = L.try /\ a.reply = L.reply
  BY <1>1 DEF Links
<1>3. b \in Links /\ b.at = "Joined" /\ ~ b.written /\ b.peer = L.peer /\ b.try = L.try /\ b.reply = L.reply
  <2> HIDE DEF a
  <2>1. QED BY <1>2 DEF Links
<1>4. d \in Links /\ d.at = "Joined" /\ ~ d.written /\ d.peer = L.peer /\ d.try = L.try
      /\ d.reply = IF L.at = "Writing" THEN "None" ELSE L.reply
  <2> HIDE DEF b
  <2>1. QED BY <1>3 DEF Links
<1>5. d = Left(n)
  BY <1>1 DEF Left, L, Links
<1>6. QED BY <1>4, <1>5 DEF L

\* The drain timeout leaves connections or does not touch them.
LEMMA DrainsMove ==
    ASSUME Talking, R!DrainTimesOut, NEW n \in R!Tries
    PROVE  /\ conn'[n] \in Links /\ (conn'[n].peer <=> conn[n].peer) /\ conn'[n].try = conn[n].try
           /\ conn'[n] = conn[n] \/ (/\ conn[n].at # "None" /\ conn'[n].at = "Joined" /\ ~ conn'[n].written
                                    /\ conn'[n].reply = IF conn[n].at = "Writing" THEN "None" ELSE conn[n].reply)
<1>1. conn' = [m \in R!Tries |-> IF m \in R!Unjoined THEN Left(m) ELSE conn[m]]
  BY DEF R!DrainTimesOut, Left
<1>2. conn \in [R!Tries -> Links]
  BY DEF Talking, RequestTypes
<1>3. QED BY <1>1, <1>2, LeftIsTyped DEF R!Unjoined, R!Live

\* The server keeps caller and connections in step.
LEMMA ServerTalks ==
    ASSUME TriesAreFinite, Talking, ServerStep
    PROVE  Talking'
<1>0. RequestTypes /\ CallerInv /\ ConnInv /\ conn \in [R!Tries -> Links] /\ tally \in Tallies
  BY DEF Talking, RequestTypes
<1>1. CASE R!StopsAccepting \/ R!Drained
  BY <1>0, <1>1 DEF Talking, R!StopsAccepting, R!Drained, RequestTypes, CallerInv, ConnInv, Conns, Asked, LinkOK
<1>2. CASE R!Finishes
  <2>1. UNCHANGED <<op, flaw, gates, services, contents, caller, answer, conn, changed, tally, accept>>
    BY <1>2 DEF R!Finishes
  <2>2. target' \in [state : {"Absent", "Left", "Reserved", "There", "Taken", "Over", "Cancelled"},
                     content : {"None", "this", "other"}]
    BY <1>0, <1>2 DEF R!Finishes, RequestTypes
  <2>3. QED BY <1>0, <2>1, <2>2 DEF Talking, RequestTypes, CallerInv, ConnInv, Conns, Asked, LinkOK
<1>3. CASE R!DrainTimesOut
  <2>1. conn' = [n \in R!Tries |-> IF n \in R!Unjoined THEN Left(n) ELSE conn[n]]
    BY <1>3 DEF R!DrainTimesOut, Left
  <2>2. UNCHANGED <<op, flaw, gates, services, contents, caller, answer, target, changed>>
        /\ accept' = "Ended"
    BY <1>3 DEF R!DrainTimesOut
  <2>3. tally' \in Tallies
    <3> DEFINE working == {n \in R!Unjoined : R!Counted /\ conn[n].at \in {"Handling", "Leasing", "Working",
                                                                  "Recovering"}}
               alive == {n \in R!Unjoined : conn[n].at \in R!Live}
               U == Cardinality(R!Unjoined)
               A == Cardinality(alive)
               Q == Cardinality(working)
    <3>1. U \in Nat /\ Q \in Nat /\ A \in Nat
      BY SubsetsAreCounted DEF R!Unjoined
    <3>0. R!Cardinality(R!Unjoined) = U /\ R!Cardinality(alive) = A /\ R!Cardinality(working) = Q
      BY SizesAgree
    <3>2. tally' = [tally EXCEPT !.aborted = @ + U, !.active = @ - A, !.failed = @ + Q,
                                 !.in_flight = @ - Q]
      BY <1>3, <3>0 DEF R!DrainTimesOut
    <3> HIDE DEF U, A, Q
    <3> DEFINE a == [tally EXCEPT !.aborted = @ + U]
               b == [a EXCEPT !.active = @ - A]
               d == [b EXCEPT !.failed = @ + Q]
               e == [d EXCEPT !.in_flight = @ - Q]
    <3>3. a \in Tallies
      BY <1>0, <3>1 DEF Tallies
    <3>4. b \in Tallies
      <4> HIDE DEF a
      <4>1. QED BY <3>1, <3>3 DEF Tallies
    <3>5. d \in Tallies
      <4> HIDE DEF b
      <4>1. QED BY <3>1, <3>4 DEF Tallies
    <3>6. e \in Tallies
      <4> HIDE DEF d
      <4>1. QED BY <3>1, <3>5 DEF Tallies
    <3>7. tally' = e
      BY <1>0, <3>2 DEF Tallies
    <3>8. QED BY <3>6, <3>7
  <2>4. ASSUME NEW n \in R!Tries
        PROVE  /\ conn'[n] \in Links /\ (conn'[n].peer <=> conn[n].peer) /\ conn'[n].try = conn[n].try
               /\ conn'[n] = conn[n] \/ (/\ conn[n].at # "None" /\ conn'[n].at = "Joined" /\ ~ conn'[n].written
                                        /\ conn'[n].reply = IF conn[n].at = "Writing" THEN "None" ELSE conn[n].reply)
    BY <1>3, DrainsMove
  <2>5. RequestTypes'
    <3>1. conn' \in [R!Tries -> Links]
      BY <2>1, <2>4
    <3>2. QED BY <1>0, <2>2, <2>3, <3>1 DEF RequestTypes
  <2>6. CallerInv'
    <3>1. caller.conn # 0 => caller.conn \in R!Tries
      BY <1>0 DEF RequestTypes, R!Tries, TriesAreFinite
    <3>2. QED BY <1>0, <2>2, <2>4, <3>1 DEF CallerInv, Idling
  <2>7. ConnInv'
    <3>1. Conns' = Conns /\ Asked' = Asked
      BY <2>2 DEF Conns, Asked
    <3>2. ASSUME NEW n \in R!Tries PROVE LinkOK(n)'
      <4>1. LinkOK(n) /\ caller' = caller
        BY <1>0, <2>2 DEF ConnInv
      <4>2. CASE conn'[n] = conn[n]
        BY <3>1, <4>1, <4>2 DEF LinkOK
      <4>3. CASE conn'[n] # conn[n]
        <5>1. /\ (conn'[n].peer <=> conn[n].peer) /\ conn'[n].try = conn[n].try
              /\ conn[n].at # "None" /\ conn'[n].at = "Joined" /\ ~ conn'[n].written
              /\ conn'[n].reply = IF conn[n].at = "Writing" THEN "None" ELSE conn[n].reply
          BY <2>4, <4>3
        <5>2. QED BY <3>1, <4>1, <5>1 DEF LinkOK, Busy
      <4>4. QED BY <4>2, <4>3
    <3>3. QED BY <1>0, <2>4, <3>2 DEF ConnInv
  <2>8. QED BY <2>5, <2>6, <2>7 DEF Talking
<1>4. QED BY <1>1, <1>2, <1>3 DEF ServerStep

\* The fields of the caller, from the type.
LEMMA CallerIsTyped ==
    ASSUME TriesAreFinite, Talking
    PROVE  /\ caller.at \in {"Idle", "Connecting", "Sending", "Waiting"}
           /\ caller.try \in 0..MaxTries /\ caller.conn \in 0..MaxTries
           /\ caller.conn # 0 => caller.conn \in R!Tries /\ LinkOK(caller.conn)
           /\ caller.try # 0 => caller.try \in R!Tries
           /\ caller.at # "Idle" => caller.try \in R!Tries
           /\ Asked \in Int /\ Conns \in Int /\ Asked <= Conns /\ Conns <= caller.try
BY DEF Talking, RequestTypes, CallerInv, ConnInv, Asked, Conns, R!Tries, TriesAreFinite

\* Asking keeps caller and connections in step.
LEMMA AskingTalks ==
    ASSUME TriesAreFinite, Talking, NEW content \in {"this", "other"}, R!Asks(content)
    PROVE  Talking'
<1>0. RequestTypes /\ CallerInv /\ ConnInv
  BY DEF Talking
<1>1. /\ caller.at = "Idle" /\ caller.try + 1 \in R!Tries
      /\ UNCHANGED <<op, flaw, gates, services, conn, target, changed, tally, accept, remote>>
  BY CallerIsTyped DEF R!Asks, R!Tries, TriesAreFinite
<1>2. contents' \in [R!Tries -> {"None", "this", "other"}]
  BY <1>0, <1>1 DEF R!Asks, RequestTypes
<1>3. /\ caller' \in [at : {"Idle", "Connecting", "Sending", "Waiting"}, try : 0..MaxTries,
                   conn : 0..MaxTries]
      /\ caller'.try = caller.try + 1 /\ caller'.conn = caller.conn
      /\ caller'.at = "Idle" \/ caller'.at = IF caller.conn = 0 THEN "Connecting" ELSE "Sending"
      /\ caller'.at # "Idle" => answer' = answer
      /\ answer' \in [R!Tries -> R!Replies \cup {"None", "Refused", "NoStation", "Frame", "Timeout"}]
      /\ \A n \in R!Tries : n # caller.try + 1 => answer'[n] = answer[n]
  <2>1. CASE flaw = "Own"
    <3>1. answer' = [answer EXCEPT ![caller.try + 1] = "Refused"] /\ caller' = [caller EXCEPT !.try = @ + 1]
      BY <2>1 DEF R!Asks
    <3>2. QED BY <1>0, <1>1, <3>1 DEF RequestTypes, R!Tries, TriesAreFinite
  <2>2. CASE flaw # "Own"
    <3>1. answer' = answer
          /\ caller' = [caller EXCEPT !.try = @ + 1, !.at = IF caller.conn = 0 THEN "Connecting" ELSE "Sending"]
      BY <2>2 DEF R!Asks
    <3> DEFINE to == IF caller.conn = 0 THEN "Connecting" ELSE "Sending"
    <3>2. to \in {"Connecting", "Sending"}
      OBVIOUS
    <3>3. caller' = [caller EXCEPT !.try = caller.try + 1, !.at = to]
      BY <3>1
    <3> HIDE DEF to
    <3>4. caller' = [at |-> to, try |-> caller.try + 1, conn |-> caller.conn]
      BY <1>0, <3>3 DEF RequestTypes
    <3>5. caller.try + 1 \in 0..MaxTries /\ caller.conn \in 0..MaxTries
      BY <1>1, CallerIsTyped DEF R!Tries
    <3>6. caller' \in [at : {"Idle", "Connecting", "Sending", "Waiting"}, try : 0..MaxTries,
                         conn : 0..MaxTries]
          /\ caller'.try = caller.try + 1 /\ caller'.conn = caller.conn /\ caller'.at = to
      BY <3>2, <3>4, <3>5
    <3>7. QED BY <1>0, <3>1, <3>6 DEF RequestTypes, to
  <2>3. QED BY <2>1, <2>2
<1>4. RequestTypes'
  BY <1>0, <1>1, <1>2, <1>3 DEF RequestTypes
<1>5. CallerInv'
  <2>1. caller.try \in Int /\ (caller.conn # 0 => caller.conn \in R!Tries)
    BY CallerIsTyped
  <2>2. caller'.at \in {"Idle", "Connecting", "Sending"} /\ caller'.try # 0
        /\ (caller'.at = "Connecting" => caller'.conn = 0) /\ (caller'.at = "Sending" => caller'.conn # 0)
    BY <1>1, <1>3, <2>1 DEF R!Tries
  <2>3. \A n \in R!Tries : n > caller'.try \/ (n = caller'.try /\ caller'.at # "Idle") => answer'[n] = "None"
    <3> SUFFICES ASSUME NEW n \in R!Tries, n > caller'.try \/ (n = caller'.try /\ caller'.at # "Idle")
                 PROVE  answer'[n] = "None"
      OBVIOUS
    <3>1. n \in Int /\ n > caller.try /\ (n = caller.try + 1 => caller'.at # "Idle")
      BY <1>3, <2>1 DEF R!Tries
    <3>2. answer[n] = "None"
      BY <1>0, <3>1 DEF CallerInv
    <3>3. answer'[n] = answer[n]
      BY <1>3, <3>1
    <3>4. QED BY <3>2, <3>3
  <2>4. QED BY <1>0, <1>1, <1>3, <2>2, <2>3 DEF CallerInv
<1>6. ConnInv'
  <2>1. Asked' \in Int /\ Conns' \in Int /\ Asked <= Asked' /\ Conns <= Conns'
    BY <1>1, <1>3, CallerIsTyped DEF Asked, Conns
  <2>2. \A n \in R!Tries : LinkOK(n) => LinkOK(n)'
    <3> SUFFICES ASSUME NEW n \in R!Tries, LinkOK(n) PROVE LinkOK(n)'
      OBVIOUS
    <3>1. conn[n].try \in Int /\ n \in Int
      BY LinksAre DEF R!Tries
    <3>2. QED BY <1>1, <1>3, <2>1, <3>1, CallerIsTyped DEF LinkOK
  <2>3. QED BY <1>0, <1>1, <2>2 DEF ConnInv
<1>7. QED BY <1>4, <1>5, <1>6 DEF Talking

\* The caller has a new connection, under the number of its try.
OpensAt(n) ==
    /\ n = caller.try /\ Asked = n - 1 /\ Conns = n - 1 /\ conn[n].try = 0 /\ conn[n] = R!Unborn
    /\ conn' \in [R!Tries -> Links] /\ (\A m \in R!Tries \ {n} : conn'[m] = conn[m])
    /\ conn'[n].at = "Reading" /\ conn'[n].try = 0 /\ conn'[n].reply = "None" /\ conn'[n].peer
    /\ ~ conn'[n].written
    /\ caller' \in [at : {"Idle", "Connecting", "Sending", "Waiting"}, try : 0..MaxTries,
                    conn : 0..MaxTries]
    /\ caller'.at = "Sending" /\ caller'.try = n /\ caller'.conn = n
    /\ UNCHANGED <<op, flaw, gates, services, contents, answer, target, changed, accept, remote>>

\* Connecting is that.
LEMMA ConnectsMove ==
    ASSUME TriesAreFinite, Talking, R!Connects
    PROVE  \E n \in R!Tries : OpensAt(n)
<1>a. RequestTypes /\ CallerInv /\ ConnInv /\ caller.at = "Connecting" /\ caller.try \in R!Tries
      /\ caller.conn = 0
  BY CallerIsTyped DEF Talking, R!Connects, CallerInv
<1>0. PICK n \in R!Tries : n = caller.try
  BY <1>a
<1>1. conn[n] = R!Unborn /\ Conns = n - 1 /\ Asked = n - 1
  <2>1. Conns = n - 1 /\ Asked = n - 1 /\ n \in Int
    BY <1>a, <1>0 DEF Conns, Asked, R!Tries
  <2>2. LinkOK(n) /\ ~ (n <= Conns)
    BY <1>a, <2>1 DEF ConnInv
  <2>3. QED BY <2>1, <2>2 DEF LinkOK
<1>2. /\ conn' = [conn EXCEPT ![n] = [R!Unborn EXCEPT !.at = "Reading", !.peer = TRUE]]
      /\ caller' = [caller EXCEPT !.at = "Sending", !.conn = n]
      /\ UNCHANGED <<op, flaw, gates, services, contents, answer, target, changed, accept, remote>>
  BY <1>0 DEF R!Connects
<1>3. conn' \in [R!Tries -> Links] /\ (\A m \in R!Tries \ {n} : conn'[m] = conn[m])
      /\ conn'[n].at = "Reading" /\ conn'[n].try = 0 /\ conn'[n].reply = "None" /\ conn'[n].peer
      /\ ~ conn'[n].written
  <2> DEFINE a == [R!Unborn EXCEPT !.at = "Reading"]
             b == [a EXCEPT !.peer = TRUE]
  <2>1. R!Unborn \in Links /\ R!Unborn.try = 0 /\ R!Unborn.reply = "None" /\ ~ R!Unborn.written
    BY DEF R!Unborn, Links, TriesAreFinite
  <2>2. a \in Links /\ a.at = "Reading" /\ a.try = 0 /\ a.reply = "None" /\ ~ a.written
    BY <2>1 DEF Links, R!Live
  <2>3. b \in Links /\ b.at = "Reading" /\ b.try = 0 /\ b.reply = "None" /\ ~ b.written /\ b.peer
    <3> HIDE DEF a
    <3>1. QED BY <2>2 DEF Links
  <2>4. conn' = [conn EXCEPT ![n] = b]
    <3>1. b = [R!Unborn EXCEPT !.at = "Reading", !.peer = TRUE]
      BY <2>1 DEF Links
    <3>2. QED BY <1>2, <3>1
  <2> HIDE DEF b
  <2>5. QED BY <1>a, <2>3, <2>4 DEF RequestTypes
<1>4. /\ caller' \in [at : {"Idle", "Connecting", "Sending", "Waiting"}, try : 0..MaxTries,
                       conn : 0..MaxTries]
      /\ caller'.at = "Sending" /\ caller'.try = n /\ caller'.conn = n
  BY <1>a, <1>0, <1>2 DEF RequestTypes, R!Tries
<1>5. conn[n].try = 0
  BY <1>1 DEF R!Unborn
<1>6. QED BY <1>0, <1>1, <1>2, <1>3, <1>4, <1>5 DEF OpensAt

\* Connecting keeps caller and connections in step.
LEMMA ConnectsTalk ==
    ASSUME TriesAreFinite, Talking, R!Connects \/ R!CannotConnect
    PROVE  Talking'
<1>0. RequestTypes /\ CallerInv /\ ConnInv /\ caller.at = "Connecting" /\ caller.try \in R!Tries
      /\ caller.conn = 0
  BY CallerIsTyped DEF Talking, R!Connects, R!CannotConnect, CallerInv
<1>1. CASE R!Connects
  <2>0. PICK n \in R!Tries : OpensAt(n)
    BY <1>1, ConnectsMove
  <2> USE DEF OpensAt
  <2>5. tally' \in Tallies
    <3>1. tally \in Tallies
      BY <1>0 DEF RequestTypes
    <3> DEFINE a == [tally EXCEPT !.accepted = @ + 1]
    <3>2. a \in Tallies
      BY <3>1 DEF Tallies
    <3>3. [a EXCEPT !.active = @ + 1] \in Tallies
      <4> HIDE DEF a
      <4>1. QED BY <3>2 DEF Tallies
    <3>4. [a EXCEPT !.active = @ + 1] = [tally EXCEPT !.accepted = @ + 1, !.active = @ + 1]
      BY <3>1 DEF Tallies
    <3>5. QED BY <1>1, <3>3, <3>4 DEF R!Connects
  <2>6. RequestTypes'
    BY <1>0, <2>0, <2>5 DEF RequestTypes
  <2>7. CallerInv'
    <3>1. n \in R!Tries /\ n # 0 /\ n = caller.try
      BY <2>0 DEF R!Tries
    <3>2. QED BY <1>0, <2>0, <3>1 DEF CallerInv, Idling
  <2>8. ConnInv'
    <3>1. n \in R!Tries /\ n \in Int /\ n >= 1 /\ n = caller.try
      BY <2>0 DEF R!Tries
    <3>2. Asked' = n - 1 /\ Conns' = n
      BY <2>0 DEF Asked, Conns
    <3>3. LinkOK(n)'
      BY <2>0, <3>1, <3>2 DEF LinkOK, Busy
    <3>4. ASSUME NEW m \in R!Tries \ {n} PROVE LinkOK(m)'
      <4>1. LinkOK(m) /\ conn'[m] = conn[m] /\ conn[m].try \in Int /\ m \in Int
        BY <1>0, <2>0, LinksAre DEF ConnInv, R!Tries
      <4>2. conn[m].peer = FALSE
        <5>1. m # caller.conn
          BY <1>0 DEF R!Tries
        <5>2. QED BY <4>1, <5>1, LinksAre DEF LinkOK
      <4>3. conn[m].reply = "None" \/ conn[m].at = "Writing"
        BY <1>0, <4>1 DEF LinkOK, R!Tries
      <4>4. QED BY <2>0, <3>1, <3>2, <4>1, <4>2, <4>3 DEF LinkOK
    <3>5. \A m \in R!Tries : conn'[m].try = conn[m].try
      BY <2>0
    <3>6. \A m \in R!Tries : LinkOK(m)'
      BY <3>3, <3>4
    <3>7. QED BY <1>0, <3>5, <3>6 DEF ConnInv
  <2>9. QED BY <2>6, <2>7, <2>8 DEF Talking
<1>2. CASE R!CannotConnect
  <2>1. /\ answer' = [answer EXCEPT ![caller.try] = "NoStation"] /\ caller' = [caller EXCEPT !.at = "Idle"]
        /\ UNCHANGED <<op, flaw, gates, services, contents, conn, target, changed, tally, accept, remote>>
    BY <1>2 DEF R!CannotConnect, R!Returns
  <2>2. /\ caller' \in [at : {"Idle", "Connecting", "Sending", "Waiting"}, try : 0..MaxTries,
                         conn : 0..MaxTries]
        /\ caller'.at = "Idle" /\ caller'.try = caller.try /\ caller'.conn = 0
        /\ answer' \in [R!Tries -> R!Replies \cup {"None", "Refused", "NoStation", "Frame", "Timeout"}]
        /\ \A n \in R!Tries : n # caller.try => answer'[n] = answer[n]
    BY <1>0, <2>1 DEF RequestTypes
  <2>3. RequestTypes'
    BY <1>0, <2>1, <2>2 DEF RequestTypes
  <2>4. CallerInv'
    BY <1>0, <2>1, <2>2, CallerIsTyped DEF CallerInv, R!Tries
  <2>5. ConnInv'
    <3>1. Asked' \in Int /\ Conns' \in Int /\ Asked <= Asked' /\ Conns <= Conns'
      BY <1>0, <2>2, CallerIsTyped DEF Asked, Conns
    <3>2. \A n \in R!Tries : LinkOK(n) => LinkOK(n)'
      <4> SUFFICES ASSUME NEW n \in R!Tries, LinkOK(n) PROVE LinkOK(n)'
        OBVIOUS
      <4>1. conn[n].try \in Int /\ n \in Int
        BY LinksAre DEF R!Tries
      <4>2. QED BY <1>0, <2>1, <2>2, <3>1, <4>1, CallerIsTyped DEF LinkOK
    <3>3. QED BY <1>0, <2>1, <3>2 DEF ConnInv
  <2>6. QED BY <2>3, <2>4, <2>5 DEF Talking
<1>3. QED BY <1>1, <1>2

\* The caller writes its try to its connection.
SendsOn(c, k) ==
    /\ c = caller.conn /\ k = caller.try /\ caller.at = "Sending" /\ LinkOK(c)
    /\ conn[c].at \in {"Reading", "Stopping"} /\ ~ conn[c].written /\ conn[c].reply = "None"
    /\ conn' \in [R!Tries -> Links] /\ \A m \in R!Tries \ {c} : conn'[m] = conn[m]
    /\ conn'[c].at = conn[c].at /\ conn'[c].try = k /\ conn'[c].reply = conn[c].reply
    /\ (conn'[c].peer <=> conn[c].peer) /\ conn'[c].written
    /\ caller' \in [at : {"Idle", "Connecting", "Sending", "Waiting"}, try : 0..MaxTries,
                    conn : 0..MaxTries]
    /\ caller'.at = "Waiting" /\ caller'.try = k /\ caller'.conn = c
    /\ UNCHANGED <<op, flaw, gates, services, contents, answer, target, changed, tally, accept, remote>>

\* Sending is that.
LEMMA SendsMove ==
    ASSUME TriesAreFinite, Talking, R!Sends
    PROVE  \E c, k \in R!Tries : SendsOn(c, k)
<1>0. RequestTypes /\ CallerInv /\ ConnInv /\ conn \in [R!Tries -> Links]
  BY DEF Talking, RequestTypes
<1>1. PICK c \in R!Tries : c = caller.conn
  BY CallerIsTyped DEF R!Sends, Talking, CallerInv
<1>2. PICK k \in R!Tries : k = caller.try
  BY CallerIsTyped DEF R!Sends
<1>3. /\ caller.at = "Sending" /\ conn[c].at \in {"Reading", "Stopping"} /\ ~ conn[c].written
      /\ conn[c].reply = "None" /\ LinkOK(c)
  BY <1>0, <1>1 DEF R!Sends, CallerInv, ConnInv, Idling, R!Live, R!Tries
<1>4. /\ conn' \in [R!Tries -> Links] /\ \A m \in R!Tries \ {c} : conn'[m] = conn[m]
      /\ conn'[c].at = conn[c].at /\ conn'[c].try = k /\ conn'[c].reply = conn[c].reply
      /\ (conn'[c].peer <=> conn[c].peer) /\ conn'[c].written
  <2> DEFINE L == conn[c]
             a == [L EXCEPT !.written = TRUE]
             b == [a EXCEPT !.try = k]
  <2>1. L \in Links /\ k \in 0..MaxTries
    BY <1>0, <1>2 DEF R!Tries
  <2> HIDE DEF L
  <2>2. a \in Links /\ a.at = L.at /\ a.reply = L.reply /\ (a.peer <=> L.peer) /\ a.written
    BY <2>1 DEF Links
  <2>3. b \in Links /\ b.at = L.at /\ b.try = k /\ b.reply = L.reply /\ (b.peer <=> L.peer) /\ b.written
    <3> HIDE DEF a
    <3>1. QED BY <2>1, <2>2 DEF Links
  <2>4. conn' = [conn EXCEPT ![c] = b]
    <3>1. b = [L EXCEPT !.written = TRUE, !.try = k]
      BY <2>1 DEF Links
    <3>2. conn' = [conn EXCEPT ![c].written = TRUE, ![c].try = k]
      BY <1>1, <1>2 DEF R!Sends
    <3>3. QED BY <3>1, <3>2 DEF L
  <2> HIDE DEF b
  <2>5. QED BY <1>0, <2>3, <2>4 DEF L
<1>5. /\ caller' \in [at : {"Idle", "Connecting", "Sending", "Waiting"}, try : 0..MaxTries,
                       conn : 0..MaxTries]
      /\ caller'.at = "Waiting" /\ caller'.try = k /\ caller'.conn = c
      /\ UNCHANGED <<op, flaw, gates, services, contents, answer, target, changed, tally, accept, remote>>
  BY <1>0, <1>1, <1>2 DEF R!Sends, RequestTypes
<1>6. QED BY <1>1, <1>2, <1>3, <1>4, <1>5 DEF SendsOn

\* Sending keeps caller and connections in step.
LEMMA SendsTalk ==
    ASSUME TriesAreFinite, Talking, R!Sends
    PROVE  Talking'
<1>0. RequestTypes /\ CallerInv /\ ConnInv /\ conn \in [R!Tries -> Links]
  BY DEF Talking, RequestTypes
<1>1. PICK c, k \in R!Tries : SendsOn(c, k)
  BY SendsMove
<1> USE DEF SendsOn
<1>6. RequestTypes'
  BY <1>0, <1>1 DEF RequestTypes
<1>7. CallerInv'
  BY <1>0, <1>1 DEF CallerInv, R!Tries
<1>8. Asked = k - 1 /\ Asked' = k /\ Conns = k /\ Conns' = k /\ k \in Int /\ k >= 1 /\ c # 0
  BY <1>1 DEF Asked, Conns, R!Tries
<1>9. \A m \in R!Tries : LinkOK(m)'
  <2>1. LinkOK(c)'
    BY <1>1, <1>8 DEF LinkOK, Busy
  <2>2. ASSUME NEW m \in R!Tries \ {c} PROVE LinkOK(m)'
    <3>1. LinkOK(m) /\ conn'[m] = conn[m] /\ conn[m].try \in Int
      BY <1>0, <1>1, LinksAre DEF ConnInv
    <3>2. QED BY <1>1, <1>8, <3>1 DEF LinkOK
  <2>3. QED BY <2>1, <2>2
<1>10. \A n, m \in R!Tries : conn'[n].try = conn'[m].try /\ conn'[n].try # 0 => n = m
  <2>1. \A m \in R!Tries \ {c} : conn'[m] = conn[m] /\ conn[m].try # k
    <3> SUFFICES ASSUME NEW m \in R!Tries \ {c} PROVE conn'[m] = conn[m] /\ conn[m].try # k
      OBVIOUS
    <3>1. conn[m].try \in Int /\ conn[m].try <= Asked
      BY <1>0, LinksAre DEF ConnInv, LinkOK
    <3>2. QED BY <1>1, <1>8, <3>1
  <2>2. QED BY <1>0, <1>1, <2>1 DEF ConnInv
<1>11. QED BY <1>6, <1>7, <1>9, <1>10 DEF Talking, ConnInv

\* The client gives up its try and its end of the connection.
GivesUpOn(c, k, outcome) ==
    /\ c = caller.conn /\ k = caller.try /\ LinkOK(c) /\ caller.at \in {"Sending", "Waiting"}
    /\ answer' = [answer EXCEPT ![k] = outcome]
    /\ conn' \in [R!Tries -> Links] /\ \A m \in R!Tries \ {c} : conn'[m] = conn[m]
    /\ conn'[c].at = conn[c].at /\ conn'[c].try = conn[c].try /\ conn'[c].written = conn[c].written
    /\ conn'[c].reply = IF conn[c].at = "Writing" THEN conn[c].reply ELSE "None"
    /\ ~ conn'[c].peer
    /\ caller' \in [at : {"Idle", "Connecting", "Sending", "Waiting"}, try : 0..MaxTries,
                    conn : 0..MaxTries]
    /\ caller'.at = "Idle" /\ caller'.try = k /\ caller'.conn = 0
    /\ UNCHANGED <<op, flaw, gates, services, contents, target, changed, tally, accept, remote>>

\* Giving up is that.
LEMMA DisconnectsMove ==
    ASSUME TriesAreFinite, Talking, R!CannotSend \/ R!GivesUp
    PROVE  \E c, k \in R!Tries, outcome \in {"Frame", "Timeout"} : GivesUpOn(c, k, outcome)
<1>0. RequestTypes /\ CallerInv /\ ConnInv /\ conn \in [R!Tries -> Links]
  BY DEF Talking, RequestTypes
<1>1. PICK c \in R!Tries : c = caller.conn
  BY CallerIsTyped DEF R!CannotSend, R!GivesUp, Talking, CallerInv
<1>2. PICK k \in R!Tries : k = caller.try
  BY CallerIsTyped DEF R!CannotSend, R!GivesUp
<1>3. /\ LinkOK(c) /\ caller.at \in {"Sending", "Waiting"}
      /\ UNCHANGED <<op, flaw, gates, services, contents, target, changed, tally, accept, remote>>
  BY <1>0 DEF R!CannotSend, R!GivesUp, ConnInv
<1>4. PICK outcome \in {"Frame", "Timeout"} :
        /\ answer' = [answer EXCEPT ![k] = outcome]
        /\ caller' = [caller EXCEPT !.at = "Idle", !.conn = 0]
        /\ conn' = [conn EXCEPT ![c].peer = FALSE, ![c].reply = IF conn[c].at = "Writing" THEN @ ELSE "None"]
  BY <1>1, <1>2 DEF R!CannotSend, R!GivesUp, R!Disconnects
<1>5. /\ conn' \in [R!Tries -> Links] /\ \A m \in R!Tries \ {c} : conn'[m] = conn[m]
      /\ conn'[c].at = conn[c].at /\ conn'[c].try = conn[c].try /\ conn'[c].written = conn[c].written
      /\ conn'[c].reply = IF conn[c].at = "Writing" THEN conn[c].reply ELSE "None"
      /\ ~ conn'[c].peer
  <2> DEFINE L == conn[c]
             a == [L EXCEPT !.peer = FALSE]
             b == [a EXCEPT !.reply = IF L.at = "Writing" THEN L.reply ELSE "None"]
  <2>1. L \in Links
    BY <1>0
  <2> HIDE DEF L
  <2>2. a \in Links /\ a.at = L.at /\ a.try = L.try /\ a.reply = L.reply /\ a.written = L.written /\ ~ a.peer
    BY <2>1 DEF Links
  <2>3. b \in Links /\ b.at = L.at /\ b.try = L.try /\ b.written = L.written /\ ~ b.peer
        /\ b.reply = IF L.at = "Writing" THEN L.reply ELSE "None"
    <3> HIDE DEF a
    <3>1. QED BY <2>1, <2>2 DEF Links
  <2>4. conn' = [conn EXCEPT ![c] = b]
    <3>1. b = [L EXCEPT !.peer = FALSE, !.reply = IF L.at = "Writing" THEN L.reply ELSE "None"]
      BY <2>1 DEF Links
    <3>2. QED BY <1>4, <2>1, <3>1 DEF L, Links
  <2> HIDE DEF b
  <2>5. QED BY <1>0, <2>3, <2>4 DEF L
<1>6. /\ caller' \in [at : {"Idle", "Connecting", "Sending", "Waiting"}, try : 0..MaxTries,
                       conn : 0..MaxTries]
      /\ caller'.at = "Idle" /\ caller'.try = k /\ caller'.conn = 0
  <2>1. caller' = [at |-> "Idle", try |-> k, conn |-> 0]
    BY <1>0, <1>2, <1>4 DEF RequestTypes
  <2>2. k \in 0..MaxTries /\ 0 \in 0..MaxTries
    BY <1>2 DEF R!Tries, TriesAreFinite
  <2>3. QED BY <2>1, <2>2
<1>7. QED BY <1>1, <1>2, <1>3, <1>4, <1>5, <1>6 DEF GivesUpOn

\* Giving up keeps caller and connections in step.
LEMMA DisconnectsTalk ==
    ASSUME TriesAreFinite, Talking, R!CannotSend \/ R!GivesUp
    PROVE  Talking'
<1>0. RequestTypes /\ CallerInv /\ ConnInv /\ conn \in [R!Tries -> Links]
  BY DEF Talking, RequestTypes
<1>1. PICK c, k \in R!Tries, outcome \in {"Frame", "Timeout"} : GivesUpOn(c, k, outcome)
  BY DisconnectsMove
<1> USE DEF GivesUpOn
<1>7. RequestTypes'
  BY <1>0, <1>1 DEF RequestTypes
<1>8. Asked \in Int /\ Conns \in Int /\ Asked <= k /\ Conns = k /\ Asked' = k /\ Conns' = k
      /\ k \in Int /\ c # 0
  BY <1>1 DEF Asked, Conns, R!Tries
<1>9. CallerInv'
  <2>1. \A n \in R!Tries : n > k => answer'[n] = "None"
    BY <1>0, <1>1, <1>8 DEF CallerInv, RequestTypes
  <2>2. QED BY <1>1, <1>8, <2>1 DEF CallerInv, LinkOK, Idling
<1>10. \A m \in R!Tries : LinkOK(m)'
  <2>0. conn[c].at # "None" /\ conn[c].try \in Int
    <3>1. conn[c].peer
      BY <1>1 DEF LinkOK
    <3>2. ~ R!Unborn.peer
      BY DEF R!Unborn
    <3>3. QED BY <1>1, <3>1, <3>2, LinksAre DEF LinkOK
  <2>1. LinkOK(c)'
    BY <1>1, <1>8, <2>0 DEF LinkOK, Busy
  <2>2. ASSUME NEW m \in R!Tries \ {c} PROVE LinkOK(m)'
    <3>1. LinkOK(m) /\ conn'[m] = conn[m] /\ conn[m].try \in Int /\ m # 0 /\ m \in Int
      BY <1>0, <1>1, LinksAre DEF ConnInv, R!Tries
    <3>2. QED BY <1>1, <1>8, <3>1 DEF LinkOK
  <2>3. QED BY <2>1, <2>2
<1>11. QED BY <1>0, <1>1, <1>7, <1>9, <1>10 DEF Talking, ConnInv
\* The client reads the answer to its try.
ReadsFrom(c, k) ==
    /\ c = caller.conn /\ k = caller.try /\ LinkOK(c) /\ caller.at = "Waiting"
    /\ conn[c].reply \in R!Replies /\ conn[c].reply # "None" /\ conn[c].at # "Writing"
    /\ answer' = [answer EXCEPT ![k] = conn[c].reply]
    /\ conn' \in [R!Tries -> Links] /\ \A m \in R!Tries \ {c} : conn'[m] = conn[m]
    /\ conn'[c].at = conn[c].at /\ conn'[c].try = conn[c].try /\ conn'[c].written = conn[c].written
    /\ conn'[c].reply = "None" /\ conn'[c].peer
    /\ caller' \in [at : {"Idle", "Connecting", "Sending", "Waiting"}, try : 0..MaxTries,
                    conn : 0..MaxTries]
    /\ caller'.at = "Idle" /\ caller'.try = k /\ caller'.conn = c
    /\ UNCHANGED <<op, flaw, gates, services, contents, target, changed, tally, accept, remote>>

\* Receiving is that.
LEMMA ReceivesMove ==
    ASSUME TriesAreFinite, Talking, R!Receives
    PROVE  \E c, k \in R!Tries : ReadsFrom(c, k)
<1>0. RequestTypes /\ CallerInv /\ ConnInv /\ conn \in [R!Tries -> Links]
  BY DEF Talking, RequestTypes
<1>1. PICK c \in R!Tries : c = caller.conn
  BY CallerIsTyped DEF R!Receives, Talking, CallerInv
<1>2. PICK k \in R!Tries : k = caller.try
  BY CallerIsTyped DEF R!Receives
<1>3. /\ LinkOK(c) /\ caller.at = "Waiting" /\ conn[c].reply # "None" /\ conn[c].at # "Writing"
      /\ UNCHANGED <<op, flaw, gates, services, contents, target, changed, tally, accept, remote>>
  BY <1>0, <1>1 DEF R!Receives, ConnInv
<1>4. /\ answer' = [answer EXCEPT ![k] = conn[c].reply] /\ conn[c].reply \in R!Replies
      /\ caller' = [caller EXCEPT !.at = "Idle"]
      /\ conn' = [conn EXCEPT ![c].reply = "None"]
  BY <1>1, <1>2, <1>3, LinksAre DEF R!Receives, R!Returns
<1>5. /\ conn' \in [R!Tries -> Links] /\ \A m \in R!Tries \ {c} : conn'[m] = conn[m]
      /\ conn'[c].at = conn[c].at /\ conn'[c].try = conn[c].try /\ conn'[c].written = conn[c].written
      /\ conn'[c].reply = "None" /\ conn'[c].peer
  BY <1>0, <1>1, <1>3, <1>4 DEF Links, LinkOK
<1>6. /\ caller' \in [at : {"Idle", "Connecting", "Sending", "Waiting"}, try : 0..MaxTries,
                       conn : 0..MaxTries]
      /\ caller'.at = "Idle" /\ caller'.try = k /\ caller'.conn = c
  BY <1>0, <1>1, <1>2, <1>4 DEF RequestTypes
<1>7. QED BY <1>1, <1>2, <1>3, <1>4, <1>5, <1>6 DEF ReadsFrom

\* Receiving keeps caller and connections in step.
LEMMA ReceivesTalk ==
    ASSUME TriesAreFinite, Talking, R!Receives
    PROVE  Talking'
<1>0. RequestTypes /\ CallerInv /\ ConnInv /\ conn \in [R!Tries -> Links]
  BY DEF Talking, RequestTypes
<1>1. PICK c, k \in R!Tries : ReadsFrom(c, k)
  BY ReceivesMove
<1> USE DEF ReadsFrom
<1>7. RequestTypes'
  BY <1>0, <1>1 DEF RequestTypes
<1>8. Asked \in Int /\ Conns \in Int /\ Asked <= k /\ Conns = k /\ Asked' = k /\ Conns' = k
      /\ k \in Int /\ c # 0
  BY <1>1 DEF Asked, Conns, R!Tries
<1>9. CallerInv'
  <2>1. \A n \in R!Tries : n > k => answer'[n] = "None"
    BY <1>0, <1>1, <1>8 DEF CallerInv, RequestTypes
  <2>2. conn[c].at \in Idling /\ ~ conn[c].written
    <3>1. R!Unborn.reply = "None"
      BY DEF R!Unborn
    <3>2. QED BY <1>1, <3>1, LinksAre DEF LinkOK, Idling, R!Live, Busy
  <2>3. QED BY <1>1, <1>8, <2>1, <2>2 DEF CallerInv
<1>10. \A m \in R!Tries : LinkOK(m)'
  <2>0. conn[c].at # "None" /\ conn[c].try \in Int
    <3>1. conn[c].peer
      BY <1>1 DEF LinkOK
    <3>2. ~ R!Unborn.peer
      BY DEF R!Unborn
    <3>3. QED BY <1>1, <3>1, <3>2, LinksAre DEF LinkOK
  <2>1. LinkOK(c)'
    BY <1>1, <1>8, <2>0 DEF LinkOK, Busy
  <2>2. ASSUME NEW m \in R!Tries \ {c} PROVE LinkOK(m)'
    <3>1. LinkOK(m) /\ conn'[m] = conn[m] /\ conn[m].try \in Int /\ m # 0 /\ m \in Int
      BY <1>0, <1>1, LinksAre DEF ConnInv, R!Tries
    <3>2. QED BY <1>1, <1>8, <3>1 DEF LinkOK
  <2>3. QED BY <2>1, <2>2
<1>11. QED BY <1>0, <1>1, <1>7, <1>9, <1>10 DEF Talking, ConnInv

\* Every step keeps caller and connections in step.
LEMMA TalkingStays ==
    ASSUME TriesAreFinite, Talking, [R!RequestNext]_(R!requestVars)
    PROVE  Talking'
<1>1. CASE CallerStep
  BY <1>1, AskingTalks, ConnectsTalk, SendsTalk, DisconnectsTalk, ReceivesTalk DEF CallerStep
<1>2. CASE UNCHANGED R!requestVars
  BY <1>2 DEF R!requestVars, Talking, RequestTypes, CallerInv, ConnInv, LinkOK, Conns, Asked
<1>3. QED BY <1>1, <1>2, StepsAre, HandlersTalk, LinksTalk, ServerTalks

\* Nothing is asked, answered or changed; connections only lose what they hold.
Quiet ==
    /\ \A n \in R!Tries :
          /\ conn'[n].try = conn[n].try
          /\ conn'[n].written => conn[n].written
          /\ conn'[n].at \in Busy => conn'[n].at = conn[n].at \/ (conn[n].written /\ conn'[n].at = "Handling")
          /\ conn'[n].reply \in {conn[n].reply, "None"}
    /\ UNCHANGED <<op, contents, caller, answer, changed>>

\* The server and the steps around a handler are quiet.
LEMMA QuietSteps ==
    ASSUME Talking, ServerStep \/ \E n \in R!Tries : LinkStep(n)
    PROVE  Quiet
<1>1. CASE \E n \in R!Tries : LinkStep(n)
  <2>1. PICK n \in R!Tries : LinkStep(n)
    BY <1>1
  <2>2. UNCHANGED <<op, contents, caller, answer, changed>>
    BY <2>1 DEF LinkStep, R!Takes, R!StopsReading, R!Writes, R!AsksToStop, R!Joins
  <2>3. /\ LinkMoves(n)
        /\ conn'[n].at = "Handling" => conn[n].written
        /\ conn'[n].at \in {"Handling", "Reading", "Stopping", "Over", "Joined"}
        /\ conn'[n].reply \in {conn[n].reply, "None"} /\ ~ conn'[n].written
    BY <2>1, LinksMove
  <2>4. QED BY <2>2, <2>3 DEF Quiet, LinkMoves, Busy
<1>2. CASE R!Finishes \/ R!StopsAccepting \/ R!Drained
  BY <1>2 DEF R!Finishes, R!StopsAccepting, R!Drained, Quiet
<1>3. CASE R!DrainTimesOut
  <2>1. UNCHANGED <<op, contents, caller, answer, changed>>
    BY <1>3 DEF R!DrainTimesOut
  <2>2. QED BY <1>3, <2>1, DrainsMove DEF Quiet, Busy
<1>4. QED BY <1>1, <1>2, <1>3 DEF ServerStep

\* Handlers: a refusal goes to a try that changed nothing.
LEMMA HandlersRefuse ==
    ASSUME TriesAreFinite, Talking, ChangeInv, NEW n \in R!Tries, HandlerStep(n)
    PROVE  ChangeInv'
<1>1. /\ conn[n].at \in Busy /\ UNCHANGED <<op, caller, answer>> /\ LinkOK(n) /\ ~ conn[n].written
  BY HandlerMoves DEF R!SameStation, Talking, ConnInv, LinkOK, Busy
<1>2. /\ conn'[n].try = conn[n].try /\ \A m \in R!Tries \ {n} : conn'[m] = conn[m]
      /\ ~ conn'[n].written /\ conn[n].try # 0 /\ conn[n].try <= Asked
      /\ Asked' = Asked
  BY <1>1, HandlersMove DEF LinkMoves, LinkOK, Asked
<1>3. \A m \in R!Tries \ {n} : conn[m].try # conn[n].try
  BY <1>2 DEF Talking, ConnInv
<1>4. \A m \in R!Tries : conn'[m].at \in Busy \/ conn'[m].written => answer'[conn'[m].try] \notin Refusals
  BY <1>1, <1>2 DEF ChangeInv
<1>5. \A s \in {"Ok", "Unavailable"} : R!Ends(n, s) => conn'[n].at = "Writing" /\ conn'[n].reply = s
  BY ResultMoves DEF R!Ends, R!Replies, Talking, RequestTypes
<1>6. \A m \in R!Tries \ {n} : conn'[m].try \in changed =>
          /\ ~ conn'[m].written
          /\ conn'[m].at \in Busy => op'.kind = "FinishAuthSession" /\ conn'[m].at = "Working"
          /\ conn'[m].reply \notin Refusals
  BY <1>1, <1>2 DEF ChangeInv
<1>7. CASE /\ changed' = changed
           /\ op.kind = "FinishAuthSession" /\ conn[n].at = "Working" =>
                    \E s \in {"Ok", "Unavailable"} : R!Ends(n, s)
  <2>1. conn[n].try \in changed => conn'[n].at = "Writing" /\ conn'[n].reply \in {"Ok", "Unavailable"}
    BY <1>1, <1>5, <1>7 DEF ChangeInv
  <2>2. QED BY <1>1, <1>2, <1>4, <1>6, <1>7, <2>1 DEF ChangeInv, Busy, Refusals
<1>8. CASE /\ changed' = changed \cup {conn[n].try}
           /\ \/ \E s \in {"Ok", "Unavailable"} : R!Ends(n, s)
              \/ op.kind = "FinishAuthSession" /\ R!Goes(n, "Working")
  <2>1. R!Goes(n, "Working") => conn'[n].at = "Working" /\ conn'[n].reply = conn[n].reply
    BY GoesMoves DEF R!Live, Talking, RequestTypes
  <2>2. conn[n].reply = "None"
    BY <1>1 DEF LinkOK
  <2>3. (conn'[n].at = "Writing" /\ conn'[n].reply \in {"Ok", "Unavailable"})
        \/ (op.kind = "FinishAuthSession" /\ conn'[n].at = "Working" /\ conn'[n].reply = "None")
    BY <1>5, <1>8, <2>1, <2>2
  <2>4. answer'[conn[n].try] \notin Refusals
    BY <1>1 DEF ChangeInv
  <2>5. \A m \in R!Tries \ {n} : conn'[m].try \in changed' => conn'[m].try \in changed
    BY <1>2, <1>3, <1>8
  <2>6. QED BY <1>1, <1>2, <1>4, <1>6, <1>8, <2>3, <2>4, <2>5 DEF ChangeInv, Busy, Refusals
<1>9. QED BY <1>7, <1>8, HandlerChanges

\* The caller: the answer it notes is the one of its try.
LEMMA CallersRefuse ==
    ASSUME TriesAreFinite, Talking, ChangeInv, CallerStep
    PROVE  ChangeInv'
<1>0. RequestTypes /\ CallerInv /\ ConnInv /\ conn \in [R!Tries -> Links]
  BY DEF Talking, RequestTypes
<1>1. CASE \E content \in {"this", "other"} : R!Asks(content)
  <2>1. /\ caller.at = "Idle" /\ caller'.try = caller.try + 1
        /\ UNCHANGED <<op, conn, changed>>
        /\ \A t \in R!Tries : t # caller.try + 1 => answer'[t] = answer[t]
    BY <1>0, <1>1 DEF R!Asks, RequestTypes
  <2>2. Asked' \in Int /\ Asked' >= Asked /\ Asked <= caller.try /\ Asked \in Int
    BY <2>1, CallerIsTyped DEF Asked
  <2>3. \A t \in R!Tries : t <= Asked => answer'[t] = answer[t]
    BY <2>1, <2>2, CallerIsTyped DEF R!Tries
  <2>4. \A n \in R!Tries : conn[n].try \in Int /\ conn[n].try <= Asked
                         /\ (conn[n].at \in Busy \/ conn[n].written => conn[n].try \in R!Tries)
    BY <1>0, LinksAre DEF ConnInv, LinkOK, R!Tries
  <2>5. \A t \in changed : t \in R!Tries /\ t \in Int
    BY <1>0 DEF RequestTypes, R!Tries
  <2>6. QED BY <2>1, <2>2, <2>3, <2>4, <2>5 DEF ChangeInv
<1>2. CASE R!Connects
  <2>1. PICK n \in R!Tries : OpensAt(n)
    BY <1>2, ConnectsMove
  <2>2. Asked' = Asked /\ UNCHANGED <<op, changed, answer>>
    BY <2>1 DEF OpensAt, Asked
  <2>3. conn'[n].at = "Reading" /\ ~ conn'[n].written /\ conn'[n].try = 0 /\ conn'[n].reply = "None"
        /\ \A m \in R!Tries \ {n} : conn'[m] = conn[m]
    BY <2>1 DEF OpensAt
  <2>4. QED BY <2>2, <2>3 DEF ChangeInv, Busy, Refusals
<1>3. CASE R!CannotConnect
  <2>1. /\ caller.at = "Connecting" /\ caller'.at = "Idle" /\ caller'.try = caller.try
        /\ UNCHANGED <<op, conn, changed>>
        /\ \A t \in R!Tries : t # caller.try => answer'[t] = answer[t]
    BY <1>0, <1>3 DEF R!CannotConnect, R!Returns, RequestTypes
  <2>2. Asked = caller.try - 1 /\ Asked' = caller.try /\ caller.try \in Int
    BY <2>1, CallerIsTyped DEF Asked
  <2>3. \A t \in R!Tries : t <= Asked => answer'[t] = answer[t]
    BY <2>1, <2>2
  <2>4. \A n \in R!Tries : conn[n].try \in Int /\ conn[n].try <= Asked
                         /\ (conn[n].at \in Busy \/ conn[n].written => conn[n].try \in R!Tries)
    BY <1>0, LinksAre DEF ConnInv, LinkOK, R!Tries
  <2>5. \A t \in changed : t \in R!Tries /\ t \in Int
    BY <1>0 DEF RequestTypes, R!Tries
  <2>6. QED BY <2>1, <2>2, <2>3, <2>4, <2>5 DEF ChangeInv
<1>4. CASE R!Sends
  <2>1. PICK c, k \in R!Tries : SendsOn(c, k)
    BY <1>4, SendsMove
  <2>2. Asked = k - 1 /\ Asked' = k /\ k \in Int /\ UNCHANGED <<op, changed, answer>>
    BY <2>1 DEF SendsOn, Asked, R!Tries
  <2>3. k \notin changed /\ answer[k] = "None"
    BY <1>0, <2>1, <2>2 DEF ChangeInv, SendsOn, CallerInv
  <2>4. conn'[c].at \in {"Reading", "Stopping"} /\ conn'[c].try = k
        /\ \A m \in R!Tries \ {c} : conn'[m] = conn[m]
    BY <2>1 DEF SendsOn
  <2>5. \A t \in changed : t \in Int
    BY <1>0 DEF RequestTypes, R!Tries
  <2>6. QED BY <2>2, <2>3, <2>4, <2>5 DEF ChangeInv, Refusals
<1>5. CASE R!CannotSend \/ R!GivesUp
  <2>1. PICK c, k \in R!Tries, outcome \in {"Frame", "Timeout"} : GivesUpOn(c, k, outcome)
    BY <1>5, DisconnectsMove
  <2>2. Asked <= Asked' /\ Asked \in Int /\ Asked' \in Int /\ UNCHANGED <<op, changed>>
    BY <2>1 DEF GivesUpOn, Asked, R!Tries
  <2>3. \A t \in R!Tries : answer'[t] = answer[t] \/ answer'[t] \notin Refusals
    BY <1>0, <2>1 DEF GivesUpOn, RequestTypes, Refusals
  <2>4. \A m \in R!Tries : conn'[m].at = conn[m].at /\ conn'[m].try = conn[m].try
          /\ conn'[m].written = conn[m].written /\ conn'[m].reply \in {conn[m].reply, "None"}
    BY <2>1 DEF GivesUpOn
  <2>5. \A n \in R!Tries : conn[n].at \in Busy \/ conn[n].written => conn[n].try \in R!Tries
    BY <1>0, LinksAre DEF ConnInv, LinkOK, R!Tries
  <2>6. \A t \in changed : t \in R!Tries /\ t \in Int
    BY <1>0 DEF RequestTypes, R!Tries
  <2>7. QED BY <2>2, <2>3, <2>4, <2>5, <2>6 DEF ChangeInv, Refusals
<1>6. CASE R!Receives
  <2>1. PICK c, k \in R!Tries : ReadsFrom(c, k)
    BY <1>6, ReceivesMove
  <2>2. Asked' = k /\ Asked = k /\ conn[c].try = k /\ UNCHANGED <<op, changed>> /\ k # 0
    BY <1>0, <2>1 DEF ReadsFrom, Asked, CallerInv, R!Tries
  <2>3. \A t \in R!Tries : t # k => answer'[t] = answer[t]
    BY <1>0, <2>1 DEF ReadsFrom, RequestTypes
  <2>4. k \in changed => answer'[k] \notin Refusals
    BY <1>0, <2>1, <2>2 DEF ReadsFrom, ChangeInv, RequestTypes
  <2>5. \A m \in R!Tries : conn'[m].at = conn[m].at /\ conn'[m].try = conn[m].try
          /\ conn'[m].written = conn[m].written /\ conn'[m].reply \in {conn[m].reply, "None"}
    BY <2>1 DEF ReadsFrom
  <2>6. \A n \in R!Tries : conn[n].at \in Busy \/ conn[n].written => conn[n].try \in R!Tries /\ conn[n].try # k
    <3> SUFFICES ASSUME NEW n \in R!Tries, conn[n].at \in Busy \/ conn[n].written
                 PROVE  conn[n].try \in R!Tries /\ conn[n].try # k
      OBVIOUS
    <3>1. conn[n].try \in R!Tries
      BY <1>0, LinksAre DEF ConnInv, LinkOK, R!Tries
    <3>2. conn[n].reply = "None"
      BY <1>0 DEF ConnInv, LinkOK
    <3>3. n # c
      BY <2>1, <3>2 DEF ReadsFrom
    <3>4. QED BY <1>0, <2>2, <3>1, <3>3 DEF ConnInv
  <2>7. \A t \in changed : t \in R!Tries
    BY <1>0 DEF RequestTypes
  <2>8. QED BY <2>2, <2>3, <2>4, <2>5, <2>6, <2>7 DEF ChangeInv, Refusals
<1>7. QED BY <1>1, <1>2, <1>3, <1>4, <1>5, <1>6 DEF CallerStep

\* Every step keeps refusals apart from changes.
LEMMA ChangesStay ==
    ASSUME TriesAreFinite, Talking, ChangeInv, [R!RequestNext]_(R!requestVars)
    PROVE  ChangeInv'
<1>1. CASE Quiet
  <2>1. Asked' = Asked
    BY <1>1 DEF Quiet, Asked
  <2>2. QED BY <1>1, <2>1 DEF Quiet, ChangeInv, Refusals
<1>2. CASE UNCHANGED R!requestVars
  BY <1>2 DEF R!requestVars, ChangeInv, Asked
<1>3. QED BY <1>1, <1>2, StepsAre, QuietSteps, HandlersRefuse, CallersRefuse

\* What is made once is made by its own handler.
LEMMA OnlyBegins ==
    ASSUME op \in OnceOps, NEW n \in R!Tries, conn[n].at # "Leasing", HandlerStep(n)
    PROVE  \/ R!Missing(n) \/ R!Ungated(n)
           \/ op = R!Op("Crawl", "Begin") /\ R!BeginsCrawl(n)
           \/ op = R!Op("Collection", "Begin") /\ R!BeginsCollection(n)
           \/ op = R!Op("LiveEvents", "Begin") /\ R!BeginsLive(n)
           \/ op = R!Op("BeginAuthSession", "Only") /\ R!BeginsAuth(n)
<1>1. /\ op.kind \in {"Collection", "Crawl", "LiveEvents", "BeginAuthSession"}
      /\ op.verb \in {"Begin", "Only"}
      /\ op.kind = "BeginAuthSession" => op = R!Op("BeginAuthSession", "Only")
  BY DEF OnceOps, R!Op
<1>2. /\ ~ R!Answers(n) /\ ~ R!ReportsIdentity(n) /\ ~ R!UpdatesIdentity(n)
      /\ ~ R!ChecksSession(n) /\ ~ R!ImportsSession(n) /\ ~ R!Captures(n) /\ ~ R!Leases(n) /\ ~ R!Works(n)
  BY <1>1 DEF R!Answers, R!ReportsIdentity, R!UpdatesIdentity, R!ChecksSession, R!ImportsSession,
     R!Captures, R!Leases, R!Works,
     R!Controls, R!Counted
<1>3. ~ R!FinishesAuth(n) /\ ~ R!EndsTarget(n) /\ ~ R!ReadsTarget(n) /\ ~ R!BeginsMonitor(n)
  BY <1>1 DEF R!FinishesAuth, R!EndsTarget, R!ReadsTarget, R!BeginsMonitor, R!Op
<1>4. R!BeginsCrawl(n) => op = R!Op("Crawl", "Begin")
  BY DEF R!BeginsCrawl
<1>5. (R!BeginsCollection(n) => op = R!Op("Collection", "Begin")) /\ (R!BeginsLive(n) => op = R!Op("LiveEvents", "Begin"))
  BY DEF R!BeginsCollection, R!BeginsLive
<1>6. R!BeginsAuth(n) => op = R!Op("BeginAuthSession", "Only")
  BY <1>1 DEF R!BeginsAuth
<1>7. QED BY <1>2, <1>3, <1>4, <1>5, <1>6 DEF HandlerStep

\* Nothing is made or taken away.
Steady ==
    /\ op' = op /\ changed' = changed
    /\ \/ target' = target
       \/ target.state = "There" /\ target' = [target EXCEPT !.state = "Over"]
    /\ \A m \in R!Tries : conn'[m].at \in {"Working", "Leasing"} => conn'[m].at = conn[m].at

\* What is made once stays made once.
LEMMA SteadyOnce ==
    ASSUME RequestTypes, OnceInv, Steady
    PROVE  OnceInv'
<1>1. CASE target' = target
  BY <1>1 DEF Steady, OnceInv
<1>2. CASE target.state = "There" /\ target' = [target EXCEPT !.state = "Over"]
  <2>1. target'.state = "Over"
    BY <1>2 DEF RequestTypes
  <2>2. QED BY <1>2, <2>1 DEF Steady, OnceInv
<1>3. QED BY <1>1, <1>2 DEF Steady

\* Only handlers make or take away.
LEMMA SteadySteps ==
    ASSUME TriesAreFinite, Talking,
           CallerStep \/ ServerStep \/ \E n \in R!Tries : LinkStep(n) \/ R!Missing(n) \/ R!Ungated(n)
    PROVE  Steady
<1>1. CASE CallerStep
  <2>1. CASE (\E content \in {"this", "other"} : R!Asks(content)) \/ R!CannotConnect
    BY <2>1 DEF R!Asks, R!CannotConnect, Steady
  <2>2. CASE R!Connects
    <3>1. PICK n \in R!Tries : OpensAt(n)
      BY <2>2, ConnectsMove
    <3>2. QED BY <3>1 DEF OpensAt, Steady
  <2>3. CASE R!Sends
    <3>1. PICK c, k \in R!Tries : SendsOn(c, k)
      BY <2>3, SendsMove
    <3>2. QED BY <3>1 DEF SendsOn, Steady
  <2>4. CASE R!CannotSend \/ R!GivesUp
    <3>1. PICK c, k \in R!Tries, outcome \in {"Frame", "Timeout"} : GivesUpOn(c, k, outcome)
      BY <2>4, DisconnectsMove
    <3>2. QED BY <3>1 DEF GivesUpOn, Steady
  <2>5. CASE R!Receives
    <3>1. PICK c, k \in R!Tries : ReadsFrom(c, k)
      BY <2>5, ReceivesMove
    <3>2. QED BY <3>1 DEF ReadsFrom, Steady
  <2>6. QED BY <1>1, <2>1, <2>2, <2>3, <2>4, <2>5 DEF CallerStep
<1>2. CASE ServerStep \/ \E n \in R!Tries : LinkStep(n)
  <2>1. Quiet
    BY <1>2, QuietSteps
  <2>2. \/ target' = target
        \/ target.state = "There" /\ target' = [target EXCEPT !.state = "Over"]
    BY <1>2 DEF ServerStep, R!Finishes, R!StopsAccepting, R!Drained, R!DrainTimesOut, LinkStep, R!Takes,
       R!StopsReading, R!Writes, R!AsksToStop, R!Joins
  <2>3. QED BY <2>1, <2>2 DEF Quiet, Steady, Busy
<1>3. CASE \E n \in R!Tries : R!Missing(n) \/ R!Ungated(n)
  <2>1. PICK n \in R!Tries : R!Missing(n) \/ R!Ungated(n)
    BY <1>3
  <2>2. op' = op /\ R!Keeps /\ \E s \in R!Replies : R!Ends(n, s)
    BY <2>1 DEF R!Missing, R!Ungated, R!SameStation, R!Replies
  <2>3. LinkMoves(n) /\ conn'[n].at = "Writing"
    BY <2>2, ResultMoves DEF R!Ends, Talking, RequestTypes
  <2>4. QED BY <2>2, <2>3 DEF LinkMoves, R!Keeps, Steady
<1>4. QED BY <1>1, <1>2, <1>3

\* It is made, and the answer says so, or it is left behind.
Makes(n) ==
    \/ R!Ends(n, "Ok") /\ R!Becomes(conn[n].try, "There", R!Content(n))
    \/ R!Ends(n, "Unavailable") /\ R!Becomes(conn[n].try, "Left", R!Content(n))

\* What begin() of a collection or a crawl does: it answers by what is there, gets into its
\* admission, or makes what is asked for, where nothing is.
Begins(n) ==
    \/ /\ R!Keeps
       /\ \/ R!Goes(n, "Working") /\ op.kind = "Collection" /\ target.state = "Absent"
             /\ \A m \in R!Tries : conn[m].at # "Working"
          \/ \E s \in R!Replies : R!Ends(n, s) /\ Agrees(s, R!Content(n))
    \/ target.state = "Absent" /\ Makes(n)

\* The two managers do that.
LEMMA BeginsWhat ==
    ASSUME OnceInv, op \in {R!Op("Collection", "Begin"), R!Op("Crawl", "Begin")}, NEW n \in R!Tries, HandlerStep(n)
    PROVE  Begins(n)
<1>1. conn[n].at # "Leasing" /\ op \in OnceOps
  BY DEF OnceInv, OnceOps
<1>2. CASE R!Missing(n) \/ R!Ungated(n)
  BY <1>2 DEF R!Missing, R!Ungated, Begins, Agrees, R!Replies, R!Op
<1>3. CASE R!BeginsCrawl(n)
  <2>1. op.kind = "Crawl"
    BY <1>3 DEF R!BeginsCrawl, R!Op
  <2>2. QED BY <1>3, <2>1 DEF R!BeginsCrawl, Begins, Makes, Agrees, CrawlLeft, R!Replies
<1>4. CASE R!BeginsCollection(n)
  <2>1. conn[n].at = "Working" => target.state = "Absent"
    BY <1>1, <1>4 DEF R!BeginsCollection, OnceInv, R!Op
  <2>2. op.kind = "Collection"
    BY <1>4 DEF R!BeginsCollection, R!Op
  <2>3. QED BY <1>4, <2>1, <2>2 DEF R!BeginsCollection, Begins, Makes, Agrees, R!Replies
<1>5. ~ (op = R!Op("LiveEvents", "Begin")) /\ ~ (op = R!Op("BeginAuthSession", "Only"))
  BY DEF R!Op
<1>6. QED BY <1>1, <1>2, <1>3, <1>4, <1>5, OnlyBegins

\* Something is begun where nothing was.
LEMMA FirstOnce ==
    ASSUME OnceInv, op \in OnceOps, op' = op, NEW n \in R!Tries, changed = {},
           changed' = changed \cup {conn[n].try}, target'.state \in {"There", "Left"},
           conn'[n].at = "Writing", \A m \in R!Tries \ {n} : conn'[m] = conn[m],
           op.kind \in {"Collection", "BeginAuthSession"} => \A m \in R!Tries \ {n} : conn[m].at # "Working"
    PROVE  OnceInv'
BY DEF OnceInv

\* Handlers make it once.
LEMMA HandlersOnce ==
    ASSUME TriesAreFinite, Talking, OnceInv, NEW n \in R!Tries, HandlerStep(n)
    PROVE  OnceInv'
<1> SUFFICES ASSUME op \in OnceOps PROVE OnceInv'
  BY HandlerMoves DEF OnceInv, R!SameStation
<1>0. RequestTypes /\ conn \in [R!Tries -> Links] /\ op' = op
  BY HandlerMoves DEF Talking, RequestTypes, R!SameStation
<1>1. /\ conn[n].at # "Leasing"
      /\ \A i, j \in changed : i = j
      /\ changed = {} <=> target.state \in {"Absent", "Reserved"}
      /\ target.state = "Reserved" => op.kind = "BeginAuthSession"
      /\ \A m \in R!Tries : conn[m].at # "Leasing"
  BY DEF OnceInv
<1>2. ASSUME NEW s, R!Ends(n, s), s \in R!Replies
      PROVE  conn'[n].at = "Writing" /\ \A m \in R!Tries \ {n} : conn'[m] = conn[m]
  BY <1>0, <1>2, ResultMoves DEF R!Ends, LinkMoves
<1>3. ASSUME R!Goes(n, "Working")
      PROVE  conn'[n].at = "Working" /\ \A m \in R!Tries \ {n} : conn'[m] = conn[m]
  BY <1>0, <1>3, GoesMoves DEF LinkMoves, R!Live
<1>4. ASSUME R!Keeps, \E s \in R!Replies : R!Ends(n, s)
      PROVE  OnceInv'
  <2>1. Steady
    BY <1>0, <1>2, <1>4 DEF Steady, R!Keeps
  <2>2. QED BY <1>0, <2>1, SteadyOnce
<1>5. CASE R!Missing(n) \/ R!Ungated(n)
  BY <1>4, <1>5 DEF R!Missing, R!Ungated, R!Replies
<1>6. CASE op = R!Op("Crawl", "Begin") \/ op = R!Op("Collection", "Begin")
  <2>1. op.kind \in {"Crawl", "Collection"}
    BY <1>6 DEF R!Op
  <2>2. CASE R!Keeps /\ \E s \in R!Replies : R!Ends(n, s)
    BY <1>4, <2>2
  <2>3. CASE R!Keeps /\ R!Goes(n, "Working") /\ op.kind = "Collection" /\ target.state = "Absent"
             /\ \A m \in R!Tries : conn[m].at # "Working"
    BY <1>0, <1>1, <1>3, <2>3 DEF OnceInv, R!Keeps
  <2>4. CASE target.state = "Absent" /\ Makes(n)
    <3>1. op.kind = "Collection" => \A m \in R!Tries \ {n} : conn[m].at # "Working"
      <4>1. op.kind = "Collection" => R!BeginsCollection(n) \/ R!Missing(n) \/ R!Ungated(n)
        BY <1>1, <1>6, OnlyBegins DEF R!Op
      <4>2. CASE R!Missing(n) \/ R!Ungated(n)
        <5>1. changed' = changed
          BY <4>2 DEF R!Missing, R!Ungated, R!Keeps
        <5>2. conn[n].try \in changed'
          BY <2>4 DEF Makes, R!Becomes
        <5>3. changed = {}
          BY <1>1, <2>4
        <5>4. QED BY <5>1, <5>2, <5>3
      <4>3. CASE R!BeginsCollection(n)
        <5>1. changed' # changed
          <6>1. changed = {}
            BY <1>1, <2>4
          <6>2. QED BY <2>4, <6>1 DEF Makes, R!Becomes
        <5>2. conn[n].at = "Working"
          BY <4>3, <5>1 DEF R!BeginsCollection, R!Keeps
        <5>3. QED BY <1>6, <5>2 DEF OnceInv, OnceOps
      <4>4. QED BY <4>1, <4>2, <4>3
    <3>2. QED BY <1>0, <1>1, <1>2, <2>1, <2>4, <3>1, FirstOnce DEF Makes, R!Becomes, R!Replies
  <2>5. QED BY <1>6, <2>2, <2>3, <2>4, BeginsWhat DEF Begins
<1>7. CASE op = R!Op("LiveEvents", "Begin") /\ R!BeginsLive(n)
  <2>1. op.kind = "LiveEvents"
    BY <1>7 DEF R!Op
  <2>2. CASE R!Keeps /\ \E s \in R!Replies : R!Ends(n, s)
    BY <1>4, <2>2
  <2>3. CASE R!Keeps /\ R!Goes(n, "Working")
    BY <1>0, <1>1, <1>3, <2>1, <2>3 DEF OnceInv, R!Keeps
  <2>4. CASE target.state = "Absent" /\ R!Ends(n, "Ok") /\ R!Becomes(conn[n].try, "There", R!Content(n))
    BY <1>0, <1>1, <1>2, <2>1, <2>4, FirstOnce DEF R!Becomes, R!Replies
  <2>5. QED BY <1>7, <2>2, <2>3, <2>4 DEF R!BeginsLive, R!Replies
<1>8. CASE op = R!Op("BeginAuthSession", "Only") /\ R!BeginsAuth(n)
  <2>1. op.kind = "BeginAuthSession"
    BY <1>8 DEF R!Op
  <2>2. CASE R!Keeps /\ \E s \in R!Replies : R!Ends(n, s)
    BY <1>4, <2>2
  <2>3. CASE target.state = "Absent" /\ R!Goes(n, "Working") /\ changed' = changed
             /\ target' = [state |-> "Reserved", content |-> R!Content(n)]
    <3>1. \A m \in R!Tries : conn[m].at # "Working"
      BY <2>1, <2>3 DEF OnceInv
    <3>2. target'.state = "Reserved"
      BY <2>3
    <3>3. QED BY <1>0, <1>1, <1>3, <2>1, <2>3, <3>1, <3>2 DEF OnceInv
  <2>4. CASE conn[n].at = "Working" /\ R!Ends(n, "Ok") /\ R!Becomes(conn[n].try, "There", R!Content(n))
    <3>1. target.state = "Reserved" /\ \A m \in R!Tries \ {n} : conn[m].at # "Working"
      BY <2>1, <2>4 DEF OnceInv
    <3>2. QED BY <1>0, <1>1, <1>2, <2>4, <3>1, FirstOnce DEF R!Becomes, R!Replies
  <2>5. CASE conn[n].at = "Working" /\ changed' = changed /\ (\E s \in R!Replies : R!Ends(n, s))
             /\ target' = [state |-> "Absent", content |-> "None"]
    <3>1. target.state = "Reserved" /\ \A m \in R!Tries \ {n} : conn[m].at # "Working"
      BY <2>1, <2>5 DEF OnceInv
    <3>2. target'.state = "Absent"
      BY <2>5
    <3>3. QED BY <1>0, <1>1, <1>2, <2>1, <2>5, <3>1, <3>2 DEF OnceInv
  <2>6. QED BY <1>8, <2>2, <2>3, <2>4, <2>5 DEF R!BeginsAuth, R!Replies
<1>9. QED BY <1>1, <1>5, <1>6, <1>7, <1>8, OnlyBegins

\* Every step keeps it made once.
LEMMA OnceStays ==
    ASSUME TriesAreFinite, Talking, OnceInv, [R!RequestNext]_(R!requestVars)
    PROVE  OnceInv'
<1>1. CASE CallerStep \/ ServerStep \/ \E n \in R!Tries : LinkStep(n)
  BY <1>1, SteadySteps, SteadyOnce DEF Talking
<1>2. CASE UNCHANGED R!requestVars
  BY <1>2 DEF R!requestVars, OnceInv
<1>3. QED BY <1>1, <1>2, StepsAre, HandlersOnce

\* Every step keeps the answers in agreement with what the id names.
LEMMA AgreeStays ==
    ASSUME TriesAreFinite, Talking, OnceInv, AgreeInv, [R!RequestNext]_(R!requestVars)
    PROVE  AgreeInv'
<1> SUFFICES ASSUME op \in {R!Op("Collection", "Begin"), R!Op("Crawl", "Begin")} PROVE AgreeInv'
  <2>1. op' = op
    BY StepsAre, SteadySteps, HandlerMoves DEF R!SameStation, Steady, R!requestVars
  <2>2. QED BY <2>1 DEF AgreeInv
<1>0. RequestTypes /\ CallerInv /\ ConnInv /\ conn \in [R!Tries -> Links] /\ op \in OnceOps
  BY DEF Talking, RequestTypes, OnceOps
<1>1. /\ \A t \in R!Tries : Agrees(answer[t], contents[t])
      /\ \A m \in R!Tries : conn[m].reply # "None" => Agrees(conn[m].reply, contents[conn[m].try])
  BY DEF AgreeInv
<1>2. \A s \in {"None", "Refused", "NoStation", "Frame", "Timeout"}, c \in {"None", "this", "other"} :
         Agrees(s, c)
  BY DEF Agrees
\* What is there stays as it is.
<1>3. ASSUME Steady,
             \A t \in R!Tries : Agrees(answer'[t], contents'[t]),
             \A m \in R!Tries : conn'[m].reply # "None" => Agrees(conn'[m].reply, contents'[conn'[m].try])
      PROVE  AgreeInv'
  <2>1. target'.content = target.content /\ (target.state # "Absent" => target'.state # "Absent")
    BY <1>0, <1>3 DEF Steady, RequestTypes
  <2>2. ASSUME NEW s, NEW c, Agrees(s, c)
        PROVE  /\ s \in {"Ok", "Conflict"} => target'.state # "Absent"
               /\ s = "Ok" => c = target'.content
               /\ s = "Conflict" => c # target'.content \/ CrawlLeft'
    <3>1. CrawlLeft => CrawlLeft'
      BY <1>3 DEF Steady, CrawlLeft
    <3>2. QED BY <2>1, <2>2, <3>1 DEF Agrees
  <2>3. QED BY <1>3, <2>2 DEF AgreeInv, Agrees
<1>4. CASE \E content \in {"this", "other"} : R!Asks(content)
  <2>1. /\ UNCHANGED conn /\ caller.at = "Idle" /\ caller.try \in Int
        /\ \A t \in R!Tries : t # caller.try + 1 => answer'[t] = answer[t] /\ contents'[t] = contents[t]
        /\ caller.try + 1 \in R!Tries
        /\ answer'[caller.try + 1] \in {answer[caller.try + 1], "Refused"}
    BY <1>0, <1>4, CallerIsTyped DEF R!Asks, RequestTypes, R!Tries, TriesAreFinite
  <2>2. answer[caller.try + 1] = "None"
    BY <1>0, <2>1 DEF CallerInv
  <2>3. \A m \in R!Tries : conn[m].reply # "None" => conn[m].try \in R!Tries /\ conn[m].try # caller.try + 1
    BY <1>0, <2>1, LinksAre, CallerIsTyped DEF ConnInv, LinkOK, R!Tries
  <2>4. Steady
    BY <1>4, SteadySteps DEF CallerStep
  <2>5. \A t \in R!Tries : Agrees(answer'[t], contents'[t])
    BY <1>1, <2>1, <2>2 DEF Agrees
  <2>6. QED BY <1>1, <1>3, <2>1, <2>3, <2>4, <2>5
<1>5. CASE R!CannotConnect
  <2>1. UNCHANGED <<conn, contents>> /\ \A t \in R!Tries : answer'[t] \in {answer[t], "NoStation"}
    BY <1>0, <1>5 DEF R!CannotConnect, R!Returns, RequestTypes
  <2>2. Steady
    BY <1>5, SteadySteps DEF CallerStep
  <2>3. \A t \in R!Tries : Agrees(answer'[t], contents'[t])
    BY <1>1, <2>1 DEF Agrees
  <2>4. QED BY <1>1, <1>3, <2>1, <2>2, <2>3
<1>6. CASE R!Connects
  <2>1. PICK n \in R!Tries : OpensAt(n)
    BY <1>6, ConnectsMove
  <2>2. Steady
    BY <1>6, SteadySteps DEF CallerStep
  <2>3. QED BY <1>1, <1>3, <2>1, <2>2 DEF OpensAt
<1>7. CASE R!Sends
  <2>1. PICK c, k \in R!Tries : SendsOn(c, k)
    BY <1>7, SendsMove
  <2>2. Steady
    BY <1>7, SteadySteps DEF CallerStep
  <2>3. QED BY <1>1, <1>3, <2>1, <2>2 DEF SendsOn
<1>8. CASE R!CannotSend \/ R!GivesUp
  <2>1. PICK c, k \in R!Tries, outcome \in {"Frame", "Timeout"} : GivesUpOn(c, k, outcome)
    BY <1>8, DisconnectsMove
  <2>2. Steady
    BY <1>8, SteadySteps DEF CallerStep
  <2>3. \A t \in R!Tries : answer'[t] \in {answer[t], "Frame", "Timeout"} /\ contents' = contents
    BY <1>0, <2>1 DEF GivesUpOn, RequestTypes
  <2>4. \A t \in R!Tries : Agrees(answer'[t], contents'[t])
    BY <1>1, <2>3 DEF Agrees
  <2>5. \A m \in R!Tries : conn'[m].reply \in {conn[m].reply, "None"} /\ conn'[m].try = conn[m].try
    BY <2>1 DEF GivesUpOn
  <2>6. QED BY <1>1, <1>3, <2>2, <2>3, <2>4, <2>5
<1>9. CASE R!Receives
  <2>1. PICK c, k \in R!Tries : ReadsFrom(c, k)
    BY <1>9, ReceivesMove
  <2>2. Steady
    BY <1>9, SteadySteps DEF CallerStep
  <2>3. conn[c].try = k /\ contents' = contents /\ conn[c].reply # "None"
    BY <1>0, <2>1 DEF ReadsFrom, CallerInv
  <2>4. \A t \in R!Tries : answer'[t] = answer[t] \/ (t = k /\ answer'[t] = conn[c].reply)
    BY <1>0, <2>1 DEF ReadsFrom, RequestTypes
  <2>5. \A t \in R!Tries : Agrees(answer'[t], contents'[t])
    BY <1>1, <2>3, <2>4
  <2>6. \A m \in R!Tries : conn'[m].reply \in {conn[m].reply, "None"} /\ conn'[m].try = conn[m].try
    BY <2>1 DEF ReadsFrom
  <2>7. QED BY <1>1, <1>3, <2>2, <2>3, <2>5, <2>6
<1>10. CASE ServerStep \/ \E n \in R!Tries : LinkStep(n)
  BY <1>1, <1>3, <1>10, SteadySteps, QuietSteps DEF Quiet
<1>11. CASE \E n \in R!Tries : HandlerStep(n)
  <2>1. PICK n \in R!Tries : HandlerStep(n)
    BY <1>11
  <2>2. UNCHANGED <<op, contents, answer>> /\ LinkMoves(n) /\ Begins(n)
    BY <2>1, HandlerMoves, HandlersMove, BeginsWhat DEF R!SameStation
  <2>3. /\ conn'[n].try = conn[n].try
        /\ \A m \in R!Tries \ {n} : conn'[m] = conn[m]
    BY <2>2 DEF LinkMoves
  <2>4. CASE R!Keeps /\ R!Goes(n, "Working")
    <3>1. conn'[n].reply = conn[n].reply
      BY <1>0, <2>4, GoesMoves DEF R!Live
    <3>2. target' = target
      BY <2>4 DEF R!Keeps
    <3>3. QED BY <1>1, <2>2, <2>3, <3>1, <3>2 DEF AgreeInv, Agrees, CrawlLeft
  <2>5. ASSUME R!Keeps, NEW s \in R!Replies, R!Ends(n, s), Agrees(s, R!Content(n))
        PROVE  AgreeInv'
    <3>1. conn'[n].reply = s
      BY <1>0, <2>5, ResultMoves DEF R!Ends
    <3>2. target' = target
      BY <2>5 DEF R!Keeps
    <3>3. Agrees(s, contents[conn[n].try])
      BY <2>5 DEF R!Content
    <3>4. QED BY <1>1, <2>2, <2>3, <3>1, <3>2, <3>3 DEF AgreeInv, Agrees, CrawlLeft
  <2>6. CASE target.state = "Absent" /\ Makes(n)
    <3>1. conn'[n].reply \in {"Ok", "Unavailable"}
      BY <1>0, <2>6, ResultMoves DEF Makes, R!Ends, R!Replies
    <3>2. target'.state \in {"There", "Left"} /\ target'.content = contents[conn[n].try]
      BY <2>6 DEF Makes, R!Becomes, R!Content
    <3>3. \A t \in R!Tries : answer[t] \notin {"Ok", "Conflict"}
      BY <1>1, <2>6 DEF Agrees
    <3>4. \A m \in R!Tries : conn[m].reply \notin {"Ok", "Conflict"}
      BY <1>1, <2>6 DEF Agrees
    <3>5. QED BY <2>2, <2>3, <3>1, <3>2, <3>3, <3>4 DEF AgreeInv, Agrees
  <2>7. QED BY <2>2, <2>4, <2>5, <2>6 DEF Begins
<1>12. CASE UNCHANGED R!requestVars
  BY <1>12 DEF R!requestVars, AgreeInv, Agrees, CrawlLeft
<1>13. QED BY <1>4, <1>5, <1>6, <1>7, <1>8, <1>9, <1>10, <1>11, <1>12, StepsAre DEF CallerStep

\* The connections that are counted: at work, with an active handler, with a request written and
\* not read.
BusyOnes == {n \in R!Tries : conn[n].at \in Busy}
LiveOnes == {n \in R!Tries : conn[n].at \in R!Live}
WrittenOnes == {n \in R!Tries : conn[n].written}
One(condition) == IF condition THEN 1 ELSE 0

\* A set that changes at one try changes its size by one.
LEMMA OneChanges ==
    ASSUME TriesAreFinite, NEW n \in R!Tries, NEW A \in SUBSET R!Tries, NEW B \in SUBSET R!Tries,
           \A m \in R!Tries \ {n} : m \in A <=> m \in B
    PROVE  /\ Cardinality(A) \in Nat /\ Cardinality(B) \in Nat
           /\ Cardinality(B) = Cardinality(A) + One(n \in B) - One(n \in A)
<1>1. IsFiniteSet(A) /\ IsFiniteSet(B) /\ Cardinality(A) \in Nat /\ Cardinality(B) \in Nat
  BY SubsetsAreCounted
<1>2. CASE n \in A /\ n \notin B
  <2>1. B = A \ {n}
    BY <1>2
  <2>2. QED BY <1>1, <1>2, <2>1, FS_RemoveElement DEF One
<1>3. CASE n \notin A /\ n \in B
  <2>1. B = A \cup {n}
    BY <1>3
  <2>2. QED BY <1>1, <1>3, <2>1, FS_AddElement DEF One
<1>4. CASE n \in A <=> n \in B
  <2>1. A = B
    BY <1>4
  <2>2. QED BY <1>1, <2>1 DEF One
<1>5. QED BY <1>2, <1>3, <1>4

\* So a connection that moves changes each count by one at most.
LEMMA OneCounts ==
    ASSUME TriesAreFinite, NEW n \in R!Tries, \A m \in R!Tries \ {n} : conn'[m] = conn[m]
    PROVE  /\ Cardinality(BusyOnes) \in Nat /\ Cardinality(LiveOnes) \in Nat
           /\ Cardinality(WrittenOnes) \in Nat /\ Cardinality(R!Unjoined) \in Nat
           /\ Cardinality(BusyOnes') = Cardinality(BusyOnes) + One(conn'[n].at \in Busy) - One(conn[n].at \in Busy)
           /\ Cardinality(LiveOnes') = Cardinality(LiveOnes) + One(conn'[n].at \in R!Live) - One(conn[n].at \in R!Live)
           /\ Cardinality(WrittenOnes') = Cardinality(WrittenOnes) + One(conn'[n].written) - One(conn[n].written)
           /\ Cardinality(R!Unjoined') = Cardinality(R!Unjoined) + One(conn'[n].at \in R!Live \cup {"Over"})
                                                            - One(conn[n].at \in R!Live \cup {"Over"})
<1>1. R!Tries' = R!Tries /\ R!Live' = R!Live /\ Busy' = Busy
  BY DEF R!Tries, R!Live, Busy
<1>2. BusyOnes' = {m \in R!Tries : conn'[m].at \in Busy} /\ LiveOnes' = {m \in R!Tries : conn'[m].at \in R!Live}
      /\ WrittenOnes' = {m \in R!Tries : conn'[m].written}
      /\ R!Unjoined' = {m \in R!Tries : conn'[m].at \in R!Live \cup {"Over"}}
  BY DEF BusyOnes, LiveOnes, WrittenOnes, R!Unjoined
<1>3. Cardinality(BusyOnes') = Cardinality(BusyOnes) + One(n \in BusyOnes') - One(n \in BusyOnes)
      /\ Cardinality(BusyOnes) \in Nat
  <2>1. \A m \in R!Tries \ {n} : m \in BusyOnes <=> m \in BusyOnes'
    BY <1>2 DEF BusyOnes
  <2>2. BusyOnes \in SUBSET R!Tries /\ BusyOnes' \in SUBSET R!Tries
    BY <1>2 DEF BusyOnes
  <2>3. QED BY <2>1, <2>2, OneChanges
<1>4. Cardinality(LiveOnes') = Cardinality(LiveOnes) + One(n \in LiveOnes') - One(n \in LiveOnes)
      /\ Cardinality(LiveOnes) \in Nat
  <2>1. \A m \in R!Tries \ {n} : m \in LiveOnes <=> m \in LiveOnes'
    BY <1>2 DEF LiveOnes
  <2>2. LiveOnes \in SUBSET R!Tries /\ LiveOnes' \in SUBSET R!Tries
    BY <1>2 DEF LiveOnes
  <2>3. QED BY <2>1, <2>2, OneChanges
<1>5. Cardinality(WrittenOnes') = Cardinality(WrittenOnes) + One(n \in WrittenOnes') - One(n \in WrittenOnes)
      /\ Cardinality(WrittenOnes) \in Nat
  <2>1. \A m \in R!Tries \ {n} : m \in WrittenOnes <=> m \in WrittenOnes'
    BY <1>2 DEF WrittenOnes
  <2>2. WrittenOnes \in SUBSET R!Tries /\ WrittenOnes' \in SUBSET R!Tries
    BY <1>2 DEF WrittenOnes
  <2>3. QED BY <2>1, <2>2, OneChanges
<1>6. Cardinality(R!Unjoined') = Cardinality(R!Unjoined) + One(n \in R!Unjoined') - One(n \in R!Unjoined)
      /\ Cardinality(R!Unjoined) \in Nat
  <2>1. \A m \in R!Tries \ {n} : m \in R!Unjoined <=> m \in R!Unjoined'
    BY <1>2 DEF R!Unjoined
  <2>2. R!Unjoined \in SUBSET R!Tries /\ R!Unjoined' \in SUBSET R!Tries
    BY <1>2 DEF R!Unjoined
  <2>3. QED BY <2>1, <2>2, OneChanges
<1>7. One(n \in BusyOnes') = One(conn'[n].at \in Busy) /\ One(n \in BusyOnes) = One(conn[n].at \in Busy)
  BY <1>2 DEF BusyOnes, One
<1>8. One(n \in LiveOnes') = One(conn'[n].at \in R!Live) /\ One(n \in LiveOnes) = One(conn[n].at \in R!Live)
  BY <1>2 DEF LiveOnes, One
<1>9. One(n \in WrittenOnes') = One(conn'[n].written) /\ One(n \in WrittenOnes) = One(conn[n].written)
  BY <1>2 DEF WrittenOnes, One
<1>10. /\ One(n \in R!Unjoined') = One(conn'[n].at \in R!Live \cup {"Over"})
       /\ One(n \in R!Unjoined) = One(conn[n].at \in R!Live \cup {"Over"})
  BY <1>2 DEF R!Unjoined, One
<1>11. QED BY <1>3, <1>4, <1>5, <1>6, <1>7, <1>8, <1>9, <1>10

\* The counters are those counts.  That they stay within what was asked, and that a server which
\* has ended has joined everybody, carries them on.
Books ==
    /\ tally.started = tally.in_flight + tally.succeeded + tally.failed
    /\ tally.in_flight = IF R!Counted THEN Cardinality(BusyOnes) ELSE 0
    /\ tally.active = Cardinality(LiveOnes)
    /\ tally.accepted = Cardinality(R!Unjoined) + tally.completed + tally.aborted
    /\ accept = "Ended" => R!Unjoined = {}
    /\ tally.started + Cardinality(WrittenOnes) <= Asked
    /\ tally.accepted <= Conns

\* Handlers keep the books.
LEMMA HandlersCount ==
    ASSUME TriesAreFinite, Talking, Books, NEW n \in R!Tries, HandlerStep(n)
    PROVE  Books'
<1>0. tally \in Tallies /\ LinkOK(n)
  BY DEF Talking, RequestTypes, ConnInv
<1>1. UNCHANGED <<op, caller, accept>> /\ conn[n].at \in Busy
  BY HandlerMoves DEF R!SameStation
<1>2. /\ LinkMoves(n) /\ conn'[n].written = conn[n].written
      /\ (conn'[n].at \in Busy /\ UNCHANGED tally)
         \/ (conn'[n].at = "Writing" /\ tally' = R!Observed(conn'[n].reply))
  BY HandlersMove
<1>3. Asked' = Asked /\ Conns' = Conns /\ R!Counted' = R!Counted /\ Asked \in Int /\ Conns \in Int
  BY <1>1, CallerIsTyped DEF Asked, Conns, R!Counted
<1>4. /\ Cardinality(LiveOnes') = Cardinality(LiveOnes)
      /\ Cardinality(WrittenOnes') = Cardinality(WrittenOnes)
      /\ Cardinality(R!Unjoined') = Cardinality(R!Unjoined) /\ R!Unjoined # {}
      /\ Cardinality(BusyOnes') = Cardinality(BusyOnes) - (IF conn'[n].at = "Writing" THEN 1 ELSE 0)
      /\ Cardinality(BusyOnes) \in Nat /\ Cardinality(LiveOnes) \in Nat /\ Cardinality(R!Unjoined) \in Nat
      /\ Cardinality(WrittenOnes) \in Nat
  <2>1. \A m \in R!Tries \ {n} : conn'[m] = conn[m]
    BY <1>2 DEF LinkMoves
  <2>2. conn[n].at \in R!Live /\ conn'[n].at \in R!Live /\ (conn'[n].at \in Busy <=> conn'[n].at # "Writing")
    BY <1>1, <1>2 DEF Busy, R!Live
  <2>3. n \in R!Unjoined
    BY <2>2 DEF R!Unjoined
  <2>4. QED BY <1>1, <1>2, <2>1, <2>2, <2>3, OneCounts DEF One
<1>5. CASE conn'[n].at \in Busy /\ UNCHANGED tally
  <2>1. conn'[n].at # "Writing"
    BY <1>5 DEF Busy
  <2>2. QED BY <1>1, <1>3, <1>4, <1>5, <2>1 DEF Books
<1>6. CASE conn'[n].at = "Writing" /\ tally' = R!Observed(conn'[n].reply)
  <2>1. CASE ~ R!Counted
    <3>1. tally' = tally
      BY <1>6, <2>1 DEF R!Observed
    <3>2. QED BY <1>1, <1>3, <1>4, <2>1, <3>1 DEF Books
  <2>2. CASE R!Counted
    <3>1. /\ tally'.started = tally.started /\ tally'.in_flight = tally.in_flight - 1
          /\ tally'.succeeded + tally'.failed = tally.succeeded + tally.failed + 1
          /\ tally'.active = tally.active /\ tally'.accepted = tally.accepted
          /\ tally'.completed = tally.completed /\ tally'.aborted = tally.aborted
          /\ tally'.succeeded \in Int /\ tally'.failed \in Int
      BY <1>0, <1>6, <2>2 DEF R!Observed, Tallies
    <3>2. /\ tally.started \in Int /\ tally.in_flight \in Int /\ tally.succeeded \in Int /\ tally.failed \in Int
      BY <1>0 DEF Tallies
    <3>3. QED BY <1>1, <1>3, <1>4, <1>6, <2>2, <3>1, <3>2 DEF Books
  <2>3. QED BY <2>1, <2>2
<1>7. QED BY <1>2, <1>5, <1>6

\* The steps around a handler keep the books.
LEMMA LinksCount ==
    ASSUME TriesAreFinite, Talking, Books, NEW n \in R!Tries, LinkStep(n)
    PROVE  Books'
<1>0. conn \in [R!Tries -> Links] /\ tally \in Tallies /\ LinkOK(n)
  BY DEF Talking, RequestTypes, ConnInv
<1>1. UNCHANGED <<op, caller, accept>>
  BY DEF LinkStep, R!Takes, R!StopsReading, R!Writes, R!AsksToStop, R!Joins
<1>2. Asked' = Asked /\ Conns' = Conns /\ R!Counted' = R!Counted /\ Asked \in Int /\ Conns \in Int
  BY <1>1, CallerIsTyped DEF Asked, Conns, R!Counted
<1>3. \A m \in R!Tries \ {n} : conn'[m] = conn[m]
  BY LinksMove DEF LinkMoves
<1>4. conn[n].at \in {"Reading", "Stopping", "Over", "Writing"} /\ ~ conn'[n].written
  BY LinksMove
<1>5. n \in R!Unjoined /\ R!Unjoined # {}
  BY <1>4 DEF R!Unjoined, R!Live
<1>6. /\ tally.started \in Int /\ tally.in_flight \in Int /\ tally.succeeded \in Int /\ tally.failed \in Int
      /\ tally.accepted \in Int /\ tally.active \in Int /\ tally.completed \in Int /\ tally.aborted \in Int
  BY <1>0 DEF Tallies
<1>7. /\ Cardinality(BusyOnes) \in Nat /\ Cardinality(LiveOnes) \in Nat
      /\ Cardinality(WrittenOnes) \in Nat /\ Cardinality(R!Unjoined) \in Nat
      /\ Cardinality(BusyOnes') = Cardinality(BusyOnes) + One(conn'[n].at \in Busy) - One(conn[n].at \in Busy)
      /\ Cardinality(LiveOnes') = Cardinality(LiveOnes) + One(conn'[n].at \in R!Live) - One(conn[n].at \in R!Live)
      /\ Cardinality(WrittenOnes') = Cardinality(WrittenOnes) + One(conn'[n].written) - One(conn[n].written)
      /\ Cardinality(R!Unjoined') = Cardinality(R!Unjoined) + One(conn'[n].at \in R!Live \cup {"Over"})
                                                        - One(conn[n].at \in R!Live \cup {"Over"})
  BY <1>3, OneCounts
<1>8. accept # "Ended"
  BY <1>5 DEF Books
<1>9. CASE R!Takes(n)
  <2>1. conn[n].at = "Reading" /\ conn[n].written /\ conn'[n].at = "Handling" /\ ~ conn'[n].written
    BY <1>0, <1>9, TakesMoves DEF R!Takes
  <2>2. /\ Cardinality(BusyOnes') = Cardinality(BusyOnes) + 1
        /\ Cardinality(LiveOnes') = Cardinality(LiveOnes)
        /\ Cardinality(WrittenOnes') = Cardinality(WrittenOnes) - 1
        /\ Cardinality(R!Unjoined') = Cardinality(R!Unjoined)
    BY <1>7, <2>1 DEF One, Busy, R!Live
  <2>3. CASE R!Counted
    <3>1. /\ tally'.started = tally.started + 1 /\ tally'.in_flight = tally.in_flight + 1
          /\ tally'.succeeded = tally.succeeded /\ tally'.failed = tally.failed
          /\ tally'.active = tally.active /\ tally'.accepted = tally.accepted
          /\ tally'.completed = tally.completed /\ tally'.aborted = tally.aborted
      <4> DEFINE mid == [tally EXCEPT !.started = @ + 1]
                 end == [mid EXCEPT !.in_flight = @ + 1]
      <4>1. tally' = end
        BY <1>0, <1>9, <2>3 DEF R!Takes, Tallies
      <4>2. /\ mid \in Tallies /\ mid.started = tally.started + 1 /\ mid.in_flight = tally.in_flight
            /\ mid.succeeded = tally.succeeded /\ mid.failed = tally.failed
            /\ mid.active = tally.active /\ mid.accepted = tally.accepted
            /\ mid.completed = tally.completed /\ mid.aborted = tally.aborted
        BY <1>0 DEF Tallies
      <4>3. QED
        <5> HIDE DEF mid
        <5>1. /\ end.started = mid.started /\ end.in_flight = mid.in_flight + 1
              /\ end.succeeded = mid.succeeded /\ end.failed = mid.failed
              /\ end.active = mid.active /\ end.accepted = mid.accepted
              /\ end.completed = mid.completed /\ end.aborted = mid.aborted
          BY <4>2 DEF Tallies
        <5> HIDE DEF end
        <5>2. QED BY <4>1, <4>2, <5>1
    <3>2. tally'.started = tally'.in_flight + tally'.succeeded + tally'.failed
      BY <1>6, <3>1 DEF Books
    <3>3. tally'.in_flight = (IF R!Counted THEN Cardinality(BusyOnes) ELSE 0)'
      BY <1>2, <2>2, <2>3, <3>1 DEF Books
    <3>4. tally'.started + Cardinality(WrittenOnes') <= Asked'
      BY <1>2, <1>6, <1>7, <2>2, <3>1 DEF Books
    <3>5. QED BY <1>1, <1>2, <1>8, <2>2, <3>1, <3>2, <3>3, <3>4 DEF Books
  <2>4. CASE ~ R!Counted
    <3>1. tally' = tally
      BY <1>9, <2>4 DEF R!Takes
    <3>2. QED BY <1>1, <1>2, <1>6, <1>7, <1>8, <2>2, <2>4, <3>1 DEF Books
  <2>5. QED BY <2>3, <2>4
<1>10. CASE conn'[n].at = "Over" /\ tally' = R!Closed
  <2>1. CASE conn[n].at \in R!Live
    <3>1. /\ Cardinality(BusyOnes') = Cardinality(BusyOnes)
          /\ Cardinality(LiveOnes') = Cardinality(LiveOnes) - 1
          /\ Cardinality(WrittenOnes') <= Cardinality(WrittenOnes)
          /\ Cardinality(WrittenOnes') \in Int
          /\ Cardinality(R!Unjoined') = Cardinality(R!Unjoined)
      BY <1>4, <1>7, <1>10, <2>1 DEF One, Busy, R!Live
    <3>2. /\ tally'.started = tally.started /\ tally'.in_flight = tally.in_flight
          /\ tally'.succeeded = tally.succeeded /\ tally'.failed = tally.failed
          /\ tally'.active = tally.active - 1 /\ tally'.accepted = tally.accepted
          /\ tally'.completed = tally.completed /\ tally'.aborted = tally.aborted
      BY <1>0, <1>10 DEF R!Closed, Tallies
    <3>3. QED BY <1>1, <1>2, <1>6, <1>7, <1>8, <3>1, <3>2 DEF Books
  <2>2. conn[n].at \in R!Live
    <3>1. ~ R!Joins(n) \/ conn'[n].at = "Joined"
      BY <1>0, JoinsMoves
    <3>2. QED BY <1>10, <3>1 DEF LinkStep, R!Takes, R!StopsReading, R!Writes, R!AsksToStop, R!Live
  <2>3. QED BY <2>1, <2>2
<1>11. CASE R!Writes(n) /\ tally' = tally /\ conn'[n].at \in {"Reading", "Stopping"}
  <2>1. conn[n].at = "Writing" /\ conn'[n].written = conn[n].written
    BY <1>0, <1>11, WritesMoves DEF R!Writes
  <2>2. /\ Cardinality(BusyOnes') = Cardinality(BusyOnes)
        /\ Cardinality(LiveOnes') = Cardinality(LiveOnes)
        /\ Cardinality(WrittenOnes') = Cardinality(WrittenOnes)
        /\ Cardinality(R!Unjoined') = Cardinality(R!Unjoined)
    BY <1>7, <1>11, <2>1 DEF One, Busy, R!Live
  <2>3. QED BY <1>1, <1>2, <1>8, <1>11, <2>2 DEF Books
<1>12. CASE R!Joins(n)
  <2>1. conn[n].at = "Over" /\ conn'[n].at = "Joined" /\ conn'[n].written = conn[n].written
    BY <1>0, <1>12, JoinsMoves DEF R!Joins
  <2>2. /\ Cardinality(BusyOnes') = Cardinality(BusyOnes)
        /\ Cardinality(LiveOnes') = Cardinality(LiveOnes)
        /\ Cardinality(WrittenOnes') = Cardinality(WrittenOnes)
        /\ Cardinality(R!Unjoined') = Cardinality(R!Unjoined) - 1
    BY <1>7, <2>1 DEF One, Busy, R!Live
  <2>3. /\ tally'.started = tally.started /\ tally'.in_flight = tally.in_flight
        /\ tally'.succeeded = tally.succeeded /\ tally'.failed = tally.failed
        /\ tally'.active = tally.active /\ tally'.accepted = tally.accepted
        /\ tally'.completed + tally'.aborted = tally.completed + tally.aborted + 1
        /\ tally'.completed \in Int /\ tally'.aborted \in Int
    BY <1>0, <1>12 DEF R!Joins, R!Joined, Tallies
  <2>4. QED BY <1>1, <1>2, <1>6, <1>7, <1>8, <2>2, <2>3 DEF Books
<1>13. CASE R!Writes(n)
  <2>1. CASE conn[n].peer
    <3>1. tally' = tally /\ conn'[n].at \in {"Reading", "Stopping"}
      <4>1. PICK place \in {"Reading", "Stopping"} : R!Goes(n, place)
        BY <1>13, <2>1 DEF R!Writes
      <4>2. conn'[n].at = place
        BY <1>0, <4>1, GoesMoves DEF R!Live
      <4>3. QED BY <1>13, <2>1, <4>1, <4>2 DEF R!Writes
    <3>2. QED BY <1>11, <1>13, <3>1
  <2>2. CASE ~ conn[n].peer
    <3>1. tally' = R!Closed /\ conn' = [conn EXCEPT ![n].at = "Over", ![n].ok = FALSE, ![n].reply = "None"]
      BY <1>13, <2>2 DEF R!Writes
    <3>2. conn'[n].at = "Over"
      BY <1>0, <3>1 DEF Links
    <3>3. QED BY <1>10, <3>1, <3>2
  <2>3. QED BY <2>1, <2>2
<1>14. CASE R!StopsReading(n) \/ R!AsksToStop(n)
  <2>1. conn'[n].at = "Over" /\ tally' = R!Closed
    BY <1>0, <1>14, LeavesMoves DEF R!StopsReading, R!AsksToStop
  <2>2. QED BY <1>10, <2>1
<1>15. QED BY <1>9, <1>12, <1>13, <1>14 DEF LinkStep

\* The server keeps the books, and those it leaves at the drain timeout are written off.
LEMMA ServerCounts ==
    ASSUME TriesAreFinite, Talking, Books, ServerStep
    PROVE  Books'
<1>0. conn \in [R!Tries -> Links] /\ tally \in Tallies
  BY DEF Talking, RequestTypes
<1>1. UNCHANGED <<op, caller>>
  BY DEF ServerStep, R!Finishes, R!StopsAccepting, R!Drained, R!DrainTimesOut
<1>2. Asked' = Asked /\ Conns' = Conns /\ R!Counted' = R!Counted /\ Asked \in Int /\ Conns \in Int
  BY <1>1, CallerIsTyped DEF Asked, Conns, R!Counted
<1>3. /\ tally.started \in Int /\ tally.in_flight \in Int /\ tally.succeeded \in Int /\ tally.failed \in Int
      /\ tally.accepted \in Int /\ tally.active \in Int /\ tally.completed \in Int /\ tally.aborted \in Int
  BY <1>0 DEF Tallies
<1>4. CASE R!Finishes \/ R!StopsAccepting \/ R!Drained
  <2>1. UNCHANGED <<conn, tally>> /\ (accept' = "Ended" => accept = "Ended" \/ R!Unjoined = {})
    BY <1>4 DEF R!Finishes, R!StopsAccepting, R!Drained
  <2>2. BusyOnes' = BusyOnes /\ LiveOnes' = LiveOnes /\ WrittenOnes' = WrittenOnes /\ R!Unjoined' = R!Unjoined
    BY <2>1 DEF BusyOnes, LiveOnes, WrittenOnes, R!Unjoined, Busy, R!Live, R!Tries
  <2>3. QED BY <1>2, <2>1, <2>2 DEF Books
<1>5. CASE R!DrainTimesOut
  <2>1. \A m \in R!Tries : conn'[m] = IF m \in R!Unjoined THEN Left(m) ELSE conn[m]
    BY <1>5 DEF R!DrainTimesOut, Left
  <2>2. \A m \in R!Tries : conn'[m].at \notin R!Live \cup {"Over"}
    <3> SUFFICES ASSUME NEW m \in R!Tries PROVE conn'[m].at \notin R!Live \cup {"Over"}
      OBVIOUS
    <3>1. CASE m \in R!Unjoined
      <4>1. conn'[m].at = "Joined"
        BY <1>0, <2>1, <3>1, LeftIsTyped
      <4>2. QED BY <4>1 DEF R!Live
    <3>2. CASE m \notin R!Unjoined
      BY <2>1, <3>2 DEF R!Unjoined
    <3>3. QED BY <3>1, <3>2
  <2>3. \A m \in R!Tries : conn'[m].written => conn[m].written
    BY <1>0, <2>1, LeftIsTyped
  <2>4. BusyOnes' = {} /\ LiveOnes' = {} /\ R!Unjoined' = {}
    BY <2>2 DEF BusyOnes, LiveOnes, R!Unjoined, Busy, R!Live, R!Tries
  <2>5. /\ Cardinality(WrittenOnes) \in Nat /\ Cardinality(WrittenOnes') \in Nat
        /\ Cardinality(WrittenOnes') <= Cardinality(WrittenOnes)
    <3>1. WrittenOnes' \subseteq WrittenOnes /\ WrittenOnes \subseteq R!Tries
      BY <2>3 DEF WrittenOnes, R!Tries
    <3>2. IsFiniteSet(WrittenOnes) /\ WrittenOnes' \subseteq R!Tries
      BY <3>1, SubsetsAreCounted
    <3>3. QED BY <3>1, <3>2, SubsetsAreCounted, FS_Subset
  <2> DEFINE working == {n \in R!Unjoined : R!Counted /\ conn[n].at \in {"Handling", "Leasing", "Working",
                                                                     "Recovering"}}
             alive == {n \in R!Unjoined : conn[n].at \in R!Live}
             U == Cardinality(R!Unjoined)
             A == Cardinality(alive)
             Q == Cardinality(working)
  <2>6. alive = LiveOnes
    BY DEF R!Unjoined, LiveOnes
  <2>7. working = IF R!Counted THEN BusyOnes ELSE {}
    BY DEF R!Unjoined, BusyOnes, Busy, R!Live
  <2>8. U \in Nat /\ A \in Nat /\ Q \in Nat
    BY SubsetsAreCounted DEF R!Unjoined
  <2>9. tally' = [tally EXCEPT !.aborted = @ + U, !.active = @ - A, !.failed = @ + Q, !.in_flight = @ - Q]
        /\ accept' = "Ended"
    <3>1. R!Cardinality(R!Unjoined) = U /\ R!Cardinality(alive) = A /\ R!Cardinality(working) = Q
      BY SizesAgree
    <3>2. QED BY <1>5, <3>1 DEF R!DrainTimesOut
  <2>10. A = tally.active /\ Q = tally.in_flight /\ tally.accepted = U + tally.completed + tally.aborted
    BY <2>6, <2>7, FS_EmptySet DEF Books
  <2> HIDE DEF U, A, Q
  <2>11. /\ tally'.started = tally.started /\ tally'.in_flight = tally.in_flight - Q
         /\ tally'.succeeded = tally.succeeded /\ tally'.failed = tally.failed + Q
         /\ tally'.active = tally.active - A /\ tally'.accepted = tally.accepted
         /\ tally'.completed = tally.completed /\ tally'.aborted = tally.aborted + U
    BY <1>0, <2>9 DEF Tallies
  <2>12. Cardinality(BusyOnes') = 0 /\ Cardinality(LiveOnes') = 0 /\ Cardinality(R!Unjoined') = 0
    BY <2>4, FS_EmptySet
  <2>13. QED BY <1>2, <1>3, <2>4, <2>5, <2>8, <2>10, <2>11, <2>12 DEF Books
<1>6. QED BY <1>4, <1>5 DEF ServerStep

\* The caller keeps the books.
LEMMA CallersCount ==
    ASSUME TriesAreFinite, Talking, Books, CallerStep
    PROVE  Books'
<1>0. conn \in [R!Tries -> Links] /\ tally \in Tallies
  BY DEF Talking, RequestTypes
<1>1. UNCHANGED <<op, accept>> /\ R!Counted' = R!Counted
  BY DEF CallerStep, R!Asks, R!Connects, R!CannotConnect, R!Sends, R!CannotSend, R!Receives, R!GivesUp, R!Counted
<1>2. /\ tally.started \in Int /\ tally.in_flight \in Int /\ tally.succeeded \in Int /\ tally.failed \in Int
      /\ tally.accepted \in Int /\ tally.active \in Int /\ tally.completed \in Int /\ tally.aborted \in Int
      /\ Asked \in Int /\ Conns \in Int
  BY <1>0, CallerIsTyped DEF Tallies
<1>3. ASSUME UNCHANGED tally, Asked <= Asked', Conns <= Conns', Asked' \in Int, Conns' \in Int,
             \A m \in R!Tries : conn'[m].at = conn[m].at /\ conn'[m].written = conn[m].written
      PROVE  Books'
  <2>1. BusyOnes' = BusyOnes /\ LiveOnes' = LiveOnes /\ WrittenOnes' = WrittenOnes /\ R!Unjoined' = R!Unjoined
    BY <1>3 DEF BusyOnes, LiveOnes, WrittenOnes, R!Unjoined, Busy, R!Live, R!Tries
  <2>2. Cardinality(WrittenOnes) \in Nat
    BY SubsetsAreCounted DEF WrittenOnes
  <2>3. QED BY <1>1, <1>2, <1>3, <2>1, <2>2 DEF Books
<1>4. CASE \E content \in {"this", "other"} : R!Asks(content)
  <2>1. /\ caller.at = "Idle" /\ UNCHANGED <<conn, tally>>
    BY <1>4 DEF R!Asks
  <2>2. /\ caller'.try = caller.try + 1
        /\ caller'.at \in {"Idle", "Connecting", "Sending"}
    BY <1>4 DEF R!Asks, Talking, RequestTypes
  <2>3. caller.try \in Int
    BY CallerIsTyped
  <2>4. Asked <= Asked' /\ Conns <= Conns' /\ Asked' \in Int /\ Conns' \in Int
    BY <2>1, <2>2, <2>3 DEF Asked, Conns
  <2>5. QED BY <1>3, <2>1, <2>4
<1>5. CASE R!CannotConnect
  <2>1. /\ caller.at = "Connecting" /\ UNCHANGED <<conn, tally>>
        /\ caller'.try = caller.try /\ caller'.at = "Idle"
    BY <1>5 DEF R!CannotConnect, R!Returns, Talking, RequestTypes
  <2>2. caller.try \in Int
    BY CallerIsTyped
  <2>3. Asked <= Asked' /\ Conns <= Conns' /\ Asked' \in Int /\ Conns' \in Int
    BY <2>1, <2>2 DEF Asked, Conns
  <2>4. QED BY <1>3, <2>1, <2>3
<1>6. CASE R!CannotSend \/ R!GivesUp
  <2>1. PICK c, k \in R!Tries, outcome \in {"Frame", "Timeout"} : GivesUpOn(c, k, outcome)
    BY <1>6, DisconnectsMove
  <2>2. k \in Int
    BY DEF R!Tries
  <2>3. Asked <= Asked' /\ Conns <= Conns' /\ Asked' \in Int /\ Conns' \in Int
    BY <2>1, <2>2 DEF Asked, Conns, GivesUpOn
  <2>4. UNCHANGED tally /\ \A m \in R!Tries : conn'[m].at = conn[m].at /\ conn'[m].written = conn[m].written
    BY <2>1 DEF GivesUpOn
  <2>5. QED BY <1>3, <2>3, <2>4
<1>7. CASE R!Receives
  <2>1. PICK c, k \in R!Tries : ReadsFrom(c, k)
    BY <1>7, ReceivesMove
  <2>2. k \in Int
    BY DEF R!Tries
  <2>3. Asked <= Asked' /\ Conns <= Conns' /\ Asked' \in Int /\ Conns' \in Int
    BY <2>1, <2>2 DEF Asked, Conns, ReadsFrom
  <2>4. UNCHANGED tally /\ \A m \in R!Tries : conn'[m].at = conn[m].at /\ conn'[m].written = conn[m].written
    BY <2>1 DEF ReadsFrom
  <2>5. QED BY <1>3, <2>3, <2>4
<1>8. CASE R!Connects
  <2>1. PICK n \in R!Tries : OpensAt(n)
    BY <1>8, ConnectsMove
  <2>2. n \in Int /\ conn[n].at = "None" /\ ~ conn[n].written
    BY <2>1 DEF R!Tries, OpensAt, R!Unborn
  <2>3. conn'[n].at = "Reading" /\ ~ conn'[n].written /\ \A m \in R!Tries \ {n} : conn'[m] = conn[m]
    BY <2>1 DEF OpensAt
  <2>4. Asked' = Asked /\ Conns' = Conns + 1
    BY <2>1, <2>2 DEF OpensAt, Asked, Conns
  <2>5. /\ Cardinality(BusyOnes) \in Nat /\ Cardinality(LiveOnes) \in Nat
        /\ Cardinality(WrittenOnes) \in Nat /\ Cardinality(R!Unjoined) \in Nat
        /\ Cardinality(BusyOnes') = Cardinality(BusyOnes)
        /\ Cardinality(LiveOnes') = Cardinality(LiveOnes) + 1
        /\ Cardinality(WrittenOnes') = Cardinality(WrittenOnes)
        /\ Cardinality(R!Unjoined') = Cardinality(R!Unjoined) + 1
    BY <2>2, <2>3, OneCounts DEF One, Busy, R!Live
  <2>6. /\ tally'.started = tally.started /\ tally'.in_flight = tally.in_flight
        /\ tally'.succeeded = tally.succeeded /\ tally'.failed = tally.failed
        /\ tally'.active = tally.active + 1 /\ tally'.accepted = tally.accepted + 1
        /\ tally'.completed = tally.completed /\ tally'.aborted = tally.aborted
    BY <1>0, <1>8 DEF R!Connects, Tallies
  <2>7. accept' # "Ended"
    BY <1>8 DEF R!Connects
  <2>8. QED BY <1>1, <1>2, <2>4, <2>5, <2>6, <2>7 DEF Books
<1>9. CASE R!Sends
  <2>1. PICK c, k \in R!Tries : SendsOn(c, k)
    BY <1>9, SendsMove
  <2>2. k \in Int /\ ~ conn[c].written /\ conn'[c].written /\ conn'[c].at = conn[c].at /\ UNCHANGED tally
        /\ (\A m \in R!Tries \ {c} : conn'[m] = conn[m])
    BY <2>1 DEF R!Tries, SendsOn
  <2>3. Asked' = Asked + 1 /\ Conns' = Conns
    BY <2>1, <2>2 DEF SendsOn, Asked, Conns
  <2>4. /\ Cardinality(WrittenOnes) \in Nat
        /\ Cardinality(BusyOnes') = Cardinality(BusyOnes)
        /\ Cardinality(LiveOnes') = Cardinality(LiveOnes)
        /\ Cardinality(WrittenOnes') = Cardinality(WrittenOnes) + 1
        /\ Cardinality(R!Unjoined') = Cardinality(R!Unjoined)
    <3>1. /\ One(conn'[c].at \in Busy) = One(conn[c].at \in Busy)
          /\ One(conn'[c].at \in R!Live) = One(conn[c].at \in R!Live)
          /\ One(conn'[c].at \in R!Live \cup {"Over"}) = One(conn[c].at \in R!Live \cup {"Over"})
          /\ One(conn'[c].written) = 1 /\ One(conn[c].written) = 0
      BY <2>2 DEF One
    <3>2. /\ One(conn[c].at \in Busy) \in Int /\ One(conn[c].at \in R!Live) \in Int
          /\ One(conn[c].at \in R!Live \cup {"Over"}) \in Int
      BY DEF One
    <3>3. /\ Cardinality(BusyOnes) \in Nat /\ Cardinality(LiveOnes) \in Nat
          /\ Cardinality(WrittenOnes) \in Nat /\ Cardinality(R!Unjoined) \in Nat
          /\ Cardinality(BusyOnes') = Cardinality(BusyOnes) + One(conn'[c].at \in Busy) - One(conn[c].at \in Busy)
          /\ Cardinality(LiveOnes') = Cardinality(LiveOnes) + One(conn'[c].at \in R!Live) - One(conn[c].at \in R!Live)
          /\ Cardinality(WrittenOnes') = Cardinality(WrittenOnes) + One(conn'[c].written) - One(conn[c].written)
          /\ Cardinality(R!Unjoined') = Cardinality(R!Unjoined) + One(conn'[c].at \in R!Live \cup {"Over"})
                                                                - One(conn[c].at \in R!Live \cup {"Over"})
      BY <2>2, OneCounts
    <3>4. QED BY <3>1, <3>2, <3>3
  <2>5. accept = "Ended" => R!Unjoined' = {}
    <3>1. R!Unjoined' = R!Unjoined
      BY <2>2 DEF R!Unjoined, R!Live, R!Tries
    <3>2. QED BY <3>1 DEF Books
  <2>6. QED BY <1>1, <1>2, <2>2, <2>3, <2>4, <2>5 DEF Books
<1>10. QED BY <1>4, <1>5, <1>6, <1>7, <1>8, <1>9 DEF CallerStep

\* Every step keeps the books.
LEMMA BooksStay ==
    ASSUME TriesAreFinite, Talking, Books, [R!RequestNext]_(R!requestVars)
    PROVE  Books'
<1>1. CASE UNCHANGED R!requestVars
  <2>1. UNCHANGED <<op, caller, conn, tally, accept>>
    BY <1>1 DEF R!requestVars
  <2>2. BusyOnes' = BusyOnes /\ LiveOnes' = LiveOnes /\ WrittenOnes' = WrittenOnes /\ R!Unjoined' = R!Unjoined
        /\ Asked' = Asked /\ Conns' = Conns /\ R!Counted' = R!Counted
    BY <2>1 DEF BusyOnes, LiveOnes, WrittenOnes, R!Unjoined, Busy, R!Live, R!Tries, Asked, Conns, R!Counted
  <2>3. QED BY <2>1, <2>2 DEF Books
<1>2. QED BY <1>1, StepsAre, HandlersCount, LinksCount, ServerCounts, CallersCount

\* The invariant.
Requested == Talking /\ ChangeInv /\ OnceInv /\ AgreeInv /\ Books

\* It holds at the start.
LEMMA RequestsBegin ==
    ASSUME TriesAreFinite, R!RequestInit
    PROVE  Requested
<1>0. /\ contents = [n \in R!Tries |-> "None"]
      /\ caller = [at |-> "Idle", try |-> 0, conn |-> 0]
      /\ answer = [n \in R!Tries |-> "None"]
      /\ conn = [n \in R!Tries |-> R!Unborn]
      /\ target.state \in {"Absent", "There"}
      /\ target \in {[state |-> "Absent", content |-> "None"], [state |-> "There", content |-> "this"]}
      /\ changed = {} /\ tally = R!NoTally /\ accept = "Accepting"
      /\ op \in R!Ops /\ (target.state = "There" => op.verb \in {"Read", "End"} \/ op.kind = "FinishAuthSession")
  BY DEF R!RequestInit
<1>1. \A n \in R!Tries : /\ conn[n] = R!Unborn /\ conn[n].at = "None" /\ conn[n].try = 0 /\ conn[n].reply = "None"
                       /\ ~ conn[n].peer /\ ~ conn[n].written
  BY <1>0 DEF R!Unborn
<1>2. RequestTypes
  <2>1. R!Unborn \in Links
    BY DEF R!Unborn, Links, TriesAreFinite
  <2>2. tally \in Tallies
    BY <1>0 DEF R!NoTally, Tallies
  <2>3. caller \in [at : {"Idle", "Connecting", "Sending", "Waiting"}, try : 0..MaxTries, conn : 0..MaxTries]
    BY <1>0 DEF TriesAreFinite
  <2>4. QED BY <1>0, <2>1, <2>2, <2>3 DEF RequestTypes
<1>3. CallerInv
  BY <1>0, <1>1 DEF CallerInv
<1>4. Asked = 0 /\ Conns = 0
  BY <1>0 DEF Asked, Conns
<1>5. ConnInv
  <2>1. \A n \in R!Tries : n # 0
    BY DEF R!Tries
  <2>2. QED BY <1>0, <1>1, <1>4, <2>1 DEF ConnInv, LinkOK, Busy
<1>6. ChangeInv
  BY <1>0, <1>1 DEF ChangeInv, Busy
<1>7. OnceInv
  BY <1>0, <1>1 DEF OnceInv, OnceOps, R!Op
<1>8. AgreeInv
  BY <1>0, <1>1 DEF AgreeInv, Agrees
<1>9. Books
  <2>1. BusyOnes = {} /\ LiveOnes = {} /\ WrittenOnes = {} /\ R!Unjoined = {}
    BY <1>1 DEF BusyOnes, LiveOnes, WrittenOnes, R!Unjoined, Busy, R!Live
  <2>2. /\ tally.started = 0 /\ tally.in_flight = 0 /\ tally.succeeded = 0 /\ tally.failed = 0
        /\ tally.active = 0 /\ tally.accepted = 0 /\ tally.completed = 0 /\ tally.aborted = 0
    BY <1>0 DEF R!NoTally
  <2>3. QED BY <1>0, <1>4, <2>1, <2>2, FS_EmptySet DEF Books
<1>10. QED BY <1>2, <1>3, <1>5, <1>6, <1>7, <1>8, <1>9 DEF Requested, Talking

\* It is inductive.
LEMMA RequestInvariance ==
    ASSUME TriesAreFinite
    PROVE  R!RequestSpec => []Requested
<1>1. R!RequestInit => Requested
  BY RequestsBegin
<1>2. Requested /\ [R!RequestNext]_(R!requestVars) => Requested'
  BY TalkingStays, ChangesStay, OnceStays, AgreeStays, BooksStay DEF Requested
<1>3. QED BY <1>1, <1>2, PTL DEF R!RequestSpec

\* A set without two elements.
LEMMA AtMostOne ==
    ASSUME NEW S, \A i, j \in S : i = j
    PROVE  Cardinality(S) <= 1
<1>1. CASE S = {}
  BY <1>1, FS_EmptySet
<1>2. CASE S # {}
  <2>1. PICK i : S = {i}
    BY <1>2
  <2>2. Cardinality(S) = 1
    BY <2>1, FS_Singleton
  <2>3. QED BY <2>2
<1>3. QED BY <1>1, <1>2

\* It is as strong as the properties.
LEMMA RequestedIsSafe ==
    ASSUME TriesAreFinite, Requested
    PROVE  R!RefusalsChangeNothing /\ R!RetriesAgree /\ R!SessionsBeginOnce /\ R!BooksBalance
<1>1. R!RefusalsChangeNothing
  BY DEF Requested, ChangeInv, R!RefusalsChangeNothing, Refusals
<1>2. op \in OnceOps => Cardinality(changed) <= 1
  BY AtMostOne DEF Requested, OnceInv
<1>3. R!RetriesAgree
  <2>1. op \in R!Ops
    BY DEF Requested, Talking, RequestTypes
  <2>2. op.verb = "Begin" /\ op.kind \in {"Collection", "Crawl"} =>
           op \in {R!Op("Collection", "Begin"), R!Op("Crawl", "Begin")}
    BY <2>1 DEF R!Ops, R!Op
  <2>3. QED BY <1>2, <2>2, SizesAgree DEF Requested, AgreeInv, Agrees, CrawlLeft, R!RetriesAgree, OnceOps
<1>4. R!SessionsBeginOnce
  BY <1>2, SizesAgree DEF R!SessionsBeginOnce, OnceOps
<1>5. R!BooksBalance
  <2>1. BusyOnes = {n \in R!Tries : conn[n].at \in {"Handling", "Leasing", "Working", "Recovering"}}
    BY DEF BusyOnes, Busy
  <2>2. accept = "Ended" => tally.active = 0 /\ tally.in_flight = 0
    <3>1. R!Unjoined = {} => LiveOnes = {} /\ BusyOnes = {}
      BY DEF R!Unjoined, LiveOnes, BusyOnes, Busy, R!Live
    <3>2. QED BY <3>1, FS_EmptySet DEF Requested, Books
  <2>3. QED BY <2>1, <2>2, SizesAgree DEF Requested, Books, R!BooksBalance, LiveOnes
<1>6. QED BY <1>1, <1>3, <1>4, <1>5

\* However often the caller asks, whatever of its answers is lost or late and whoever closes
\* first: what was refused changed nothing, what is asked again under its id is done once and
\* answered as it was at first, a crawl whose journal was left without a job excepted, and every request that was counted in is counted out once (the handlers
\* of ipc.rs, CollectionManager::begin(), CrawlManager::begin(), LiveCaptureManager::begin(),
\* ServerTelemetry).
THEOREM RequestsHold ==
    ASSUME TriesAreFinite
    PROVE  R!RequestSpec => [](R!RefusalsChangeNothing /\ R!RetriesAgree /\ R!SessionsBeginOnce /\ R!BooksBalance)
<1>1. Requested => R!RefusalsChangeNothing /\ R!RetriesAgree /\ R!SessionsBeginOnce /\ R!BooksBalance
  BY RequestedIsSafe
<1>2. QED BY <1>1, RequestInvariance, PTL
=============================================================================
