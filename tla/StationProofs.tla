---------------------------- MODULE StationProofs ----------------------------
(***************************************************************************)
(* Theorems about Station, for any callers, identities and profiles, any   *)
(* bound on residents and calls, and any calls offered.                    *)
(*                                                                         *)
(* The argument goes up in layers, each of which uses those below it:      *)
(*   Types         every variable is well formed, and every caller is at a *)
(*                 point of its call with what it needs there;             *)
(*   Gates         who is behind the gate, and who has the mutex;          *)
(*   Evolution     what any step may do to a worker;                       *)
(*   Tables        what the three tables say of the callers in flight;     *)
(*   Owned         every reservation has its browser or its call;          *)
(*   Accounted     every worker is in use, or some call sees it released;  *)
(*   Apart, Silent who starts, and what an evicted worker leaves behind;   *)
(*   Room          lease() fills no more room than it counted;             *)
(*   Shutdowns     every browser is in the registry, or somebody answers   *)
(*                 for its release.                                        *)
(* Owned, Accounted and Room need that no future is dropped: a dropped one *)
(* leaves its reservation or its worker behind.  Shutdowns needs bounded   *)
(* closes, or that nobody drops a call or asks for an emergency.           *)
(***************************************************************************)
EXTENDS Station, FiniteSetTheorems, SequenceTheorems, TLAPS

-----------------------------------------------------------------------------
(* Where a caller may be in each call, and what it knows there *)

Waits == {"repair", "repairing", "repaired", "broken", "settle"}
Opens == {"retire", "room", "evict", "spawn", "settleNew", "dispose"}

PcsOf(call) ==
    CASE call = "None" -> {"idle"}
      [] call = "Lease" -> {"gate", "decide"} \cup Waits \cup Opens
      [] call = "BeginAuth" -> {"gate", "reserve", "evict", "spawn", "settleNew", "navigate",
                                "install", "dispose", "unreserve"}
      [] call = "FinishAuth" -> {"gate", "take", "close", "unreserve"}
      [] call = "Use" -> {"gate", "session", "using", "restarting", "retried"}
      [] call = "Subscribe" -> {"gate", "subscribe", "subscribed"}
      [] call = "Shutdown" -> {"gate", "drained", "closing"}
      [] call = "Emergency" -> {"gate", "drained", "aborting"}

\* Here a caller is concerned with one worker.
Holding == Waits \cup {"retire", "evict", "settleNew", "dispose", "navigate", "install", "close"}

Shaped(r, handles) ==
    /\ r \in CallerStates /\ r.pc \in PcsOf(r.call)
    /\ r.call \in OnIdentity => r.id \in Identities /\ r.runtime \in Runtimes
    /\ r.worker \in handles \cup {None} /\ r.todo \subseteq handles
    /\ r.pc \in Holding \/ r.call \in OnLease => r.worker \in handles
    /\ r.pc \notin {"closing", "aborting"} => r.todo = {}

\* Who waits at the gate is there, once.
Queued ==
    /\ \A i \in 1 .. Len(gate.waiting) : At(gate.waiting[i], "gate")
    /\ \A i, j \in 1 .. Len(gate.waiting) : gate.waiting[i] = gate.waiting[j] => i = j

Types == TypeOK /\ Queued /\ \A c \in Callers : Shaped(caller[c], Handles)

-----------------------------------------------------------------------------
(* Operators *)

\* A set of naturals that is not empty contains its least element.
LEMMA MinIsMember ==
    ASSUME NEW S \in SUBSET Nat, S # {}
    PROVE  Min(S) \in S
<1> DEFINE below(n) == S \cap (0 .. n)
           T == {below(n) : n \in S}
<1>1. T \subseteq FiniteSubsetsOf(Nat) /\ T # {}
  <2>1. \A n \in S : IsFiniteSet(0 .. n)
    BY FS_Interval
  <2>2. \A n \in S : IsFiniteSet(below(n))
    BY <2>1, FS_Subset
  <2> QED  BY <2>2 DEF FiniteSubsetsOf
<1>2. PICK t \in T : \A u \in T : <<u, t>> \notin StrictSubsetOrdering(Nat)
  BY <1>1, FS_StrictSubsetOrderingWellFounded, WFMin
<1>3. PICK x \in S : t = below(x)
  BY <1>2
<1>4. \A y \in S : x <= y
  <2> SUFFICES ASSUME NEW y \in S, y < x  PROVE FALSE
    OBVIOUS
  <2>1. below(y) \subseteq below(x) /\ x \in below(x) /\ x \notin below(y)
    OBVIOUS
  <2>2. <<below(y), t>> \in StrictSubsetOrdering(Nat)
    BY <1>3, <2>1 DEF StrictSubsetOrdering
  <2> QED  BY <1>2, <2>2
<1> QED  BY <1>4 DEF Min

\* Without() takes a waiter out and keeps the others.
LEMMA WithoutWaiter ==
    ASSUME NEW S, NEW queue \in Seq(S), NEW c
    PROVE  /\ Without(queue, c) \in Seq(S)
           /\ \A i \in 1 .. Len(Without(queue, c)) :
                 \E k \in 1 .. Len(queue) : Without(queue, c)[i] = queue[k]
           /\ (\A i, j \in 1 .. Len(queue) : queue[i] = queue[j] => i = j)
              => /\ \A i \in 1 .. Len(Without(queue, c)) : Without(queue, c)[i] # c
                 /\ \A i, j \in 1 .. Len(Without(queue, c)) :
                       Without(queue, c)[i] = Without(queue, c)[j] => i = j
<1>1. Len(queue) \in Nat /\ DOMAIN queue = 1 .. Len(queue) /\ queue \in [1 .. Len(queue) -> S]
  BY LenProperties
<1>2. CASE ~ \E k \in DOMAIN queue : queue[k] = c
  BY <1>1, <1>2 DEF Without
<1>3. CASE \E k \in DOMAIN queue : queue[k] = c
  <2> DEFINE at == CHOOSE k \in DOMAIN queue : queue[k] = c
             q == [i \in 1 .. Len(queue) - 1 |-> queue[IF i < at THEN i ELSE i + 1]]
  <2>1. at \in 1 .. Len(queue) /\ queue[at] = c
    BY <1>1, <1>3
  <2>2. Without(queue, c) = q
    BY <1>3 DEF Without
  <2> HIDE DEF at
  <2>3. \A i \in 1 .. Len(queue) - 1 :
           (IF i < at THEN i ELSE i + 1) \in (1 .. Len(queue)) \ {at}
    BY <1>1, <2>1
  <2>4. q \in [1 .. Len(queue) - 1 -> S]
    BY <1>1, <2>3
  <2>5. Len(queue) - 1 \in Nat
    BY <1>1, <2>1
  <2>6. q \in Seq(S) /\ Len(q) = Len(queue) - 1
    BY <2>4, <2>5
  <2>7. \A i \in 1 .. Len(q) : q[i] = queue[IF i < at THEN i ELSE i + 1]
    BY <2>6
  <2> HIDE DEF q
  <2> QED  BY <1>1, <2>1, <2>2, <2>3, <2>6, <2>7
<1> QED  BY <1>2, <1>3

-----------------------------------------------------------------------------
(* Workers *)

WorkersOK == worker' \in Seq(WorkerRecords) /\ Handles' = Handles

\* Nothing but w changes.
OnlyOne(w) == WorkersOK /\ \A v \in Handles \ {w} : worker'[v] = worker[v]

\* Writing one entry of the worker table keeps the table typed, adds no worker and touches no other
\* one.
LEMMA WorkerChanges ==
    ASSUME worker \in Seq(WorkerRecords), NEW w \in Handles, NEW e \in WorkerRecords,
           worker' = [worker EXCEPT ![w] = e]
    PROVE  OnlyOne(w) /\ worker'[w] = e
<1>1. Handles = 1 .. Len(worker)
  BY LenProperties DEF Handles
<1>2. worker' \in Seq(WorkerRecords) /\ Len(worker') = Len(worker)
      /\ \A v \in 1 .. Len(worker) : worker'[v] = IF v = w THEN e ELSE worker[v]
  BY <1>1, ExceptSeq
<1>3. Handles' = 1 .. Len(worker')
  BY <1>2, LenProperties DEF Handles
<1> QED  BY <1>1, <1>2, <1>3 DEF OnlyOne, WorkersOK

\* What Asked() leaves alone.
LEMMA AskedChanges ==
    ASSUME worker \in Seq(WorkerRecords), NEW w \in Handles,
           NEW what \in {"shutdown", "abort"}, Asked(w, what)
    PROVE  /\ OnlyOne(w) /\ worker'[w] \in WorkerRecords
           /\ worker'[w].asked = IF worker[w].asked = "nothing" THEN what ELSE worker[w].asked
           /\ UNCHANGED <<worker[w].state, worker[w].id, worker[w].runtime, worker[w].subscriber>>
<1> DEFINE asked == IF worker[w].asked = "nothing" THEN what ELSE worker[w].asked
           e == [worker[w] EXCEPT !.asked = asked]
<1>1. worker[w] \in WorkerRecords
  BY DEF Handles
<1>2. asked \in {"nothing", "shutdown", "abort", "kill"}
  BY <1>1 DEF WorkerRecords
<1>3. worker' = [worker EXCEPT ![w] = e]
  BY DEF Asked
<1> HIDE DEF asked
<1>4. /\ e \in WorkerRecords /\ e.asked = asked
      /\ e.state = worker[w].state /\ e.id = worker[w].id
      /\ e.runtime = worker[w].runtime /\ e.subscriber = worker[w].subscriber
  BY <1>1, <1>2 DEF WorkerRecords
<1> HIDE DEF e
<1>5. OnlyOne(w) /\ worker'[w] = e
  BY <1>3, <1>4, WorkerChanges
<1> QED  BY <1>4, <1>5 DEF asked

\* What Became() leaves alone.
LEMMA BecameChanges ==
    ASSUME worker \in Seq(WorkerRecords), NEW w \in Handles,
           NEW states \in SUBSET Workers, Became(w, states)
    PROVE  /\ OnlyOne(w) /\ worker'[w] \in WorkerRecords
           /\ worker'[w].state \in states
           /\ UNCHANGED <<worker[w].id, worker[w].runtime, worker[w].asked,
                          worker[w].subscriber>>
<1>1. PICK s \in states : worker' = [worker EXCEPT ![w].state = s]
  BY DEF Became
<1> DEFINE e == [worker[w] EXCEPT !.state = s]
<1>2. worker[w] \in WorkerRecords
  BY DEF Handles
<1>3. /\ e \in WorkerRecords /\ e.state = s /\ e.id = worker[w].id
      /\ e.runtime = worker[w].runtime /\ e.asked = worker[w].asked
      /\ e.subscriber = worker[w].subscriber
  BY <1>2 DEF WorkerRecords
<1>4. worker' = [worker EXCEPT ![w] = e]
  BY <1>1
<1> HIDE DEF e
<1>5. OnlyOne(w) /\ worker'[w] = e
  BY <1>3, <1>4, WorkerChanges
<1> QED  BY <1>3, <1>5

\* The states of WorkerStates.
LEMMA StatesAreWorkers ==
    ASSUME NEW s \in Workers
    PROVE  /\ Started(s) \in SUBSET Workers /\ Degraded(s) \in SUBSET Workers
           /\ Restarting(s) \in SUBSET Workers /\ Restarted(s) \in SUBSET Workers
           /\ Closing(s) \in SUBSET Workers /\ Stopped(s) \in SUBSET Workers
           /\ Released(s) \in SUBSET Workers
<1>1. s.live \in BOOLEAN /\ s.condemned \in BOOLEAN
  BY DEF Workers
<1>2. \A phase \in Phases, live \in BOOLEAN : Turned(s, phase, live) \in Workers
  BY <1>1 DEF Workers, Turned
<1>3. [phase : {"degraded"}, condemned : {TRUE}, live : BOOLEAN] \in SUBSET Workers
  BY DEF Workers, Phases
<1>4. \A phase \in Phases : {Turned(s, phase, l) : l \in {s.live, FALSE}} \in SUBSET Workers
  BY <1>1, <1>2
<1>5. Started(s) \in SUBSET Workers /\ Degraded(s) \in SUBSET Workers
      /\ Restarting(s) \in SUBSET Workers /\ Released(s) \in SUBSET Workers
  BY <1>1, <1>2, <1>3 DEF Started, Degraded, Restarting, Released, Phases
<1>6. Closing(s) \in SUBSET Workers /\ Stopped(s) \in SUBSET Workers
  BY <1>4 DEF Closing, Stopped, Phases
<1>7. Restarted(s) \in SUBSET Workers
  BY <1>2, <1>4 DEF Restarted, Phases
<1> QED  BY <1>5, <1>6, <1>7

\* abort_all asks every worker of the set to abort and changes nothing else about any worker.
LEMMA AbortAllChanges ==
    ASSUME worker \in Seq(WorkerRecords), NEW ws, AbortAll(ws)
    PROVE  /\ WorkersOK
           /\ \A w \in Handles :
                 /\ worker'[w] \in WorkerRecords
                 /\ worker'[w].asked = IF w \in ws THEN "abort" ELSE worker[w].asked
                 /\ UNCHANGED <<worker[w].state, worker[w].id, worker[w].runtime,
                                worker[w].subscriber>>
<1>1. Len(worker) \in Nat /\ Handles = 1 .. Len(worker)
  BY LenProperties DEF Handles
<1>2. \A w \in Handles : worker[w] \in WorkerRecords
  BY <1>1
<1>3. ASSUME NEW w \in Handles
      PROVE  /\ worker'[w] \in WorkerRecords
             /\ worker'[w].asked = IF w \in ws THEN "abort" ELSE worker[w].asked
             /\ UNCHANGED <<worker[w].state, worker[w].id, worker[w].runtime,
                            worker[w].subscriber>>
  <2>1. worker'[w] = IF w \in ws THEN [worker[w] EXCEPT !.asked = "abort"] ELSE worker[w]
    BY <1>3 DEF AbortAll
  <2> QED  BY <1>2, <1>3, <2>1 DEF WorkerRecords
<1>4. worker' \in [1 .. Len(worker) -> WorkerRecords]
  BY <1>1, <1>3 DEF AbortAll
<1> QED  BY <1>1, <1>3, <1>4 DEF WorkersOK, Handles

-----------------------------------------------------------------------------
(* Callers *)

\* The call of a caller, by where it is.
LEMMA CallAt ==
    ASSUME Types, NEW c \in Callers
    PROVE  /\ caller[c].pc = "idle" <=> caller[c].call = "None"
           /\ caller[c].pc \in {"decide", "retire", "room"} \cup Waits => caller[c].call = "Lease"
           /\ caller[c].pc \in {"evict", "spawn", "settleNew", "dispose"}
              => caller[c].call \in {"Lease", "BeginAuth"}
           /\ caller[c].pc \in {"reserve", "navigate", "install"} => caller[c].call = "BeginAuth"
           /\ caller[c].pc \in {"take", "close"} => caller[c].call = "FinishAuth"
           /\ caller[c].pc = "unreserve" => caller[c].call \in {"BeginAuth", "FinishAuth"}
           /\ caller[c].pc \in {"session", "using", "restarting", "retried"}
              => caller[c].call = "Use"
           /\ caller[c].pc \in {"subscribe", "subscribed"} => caller[c].call = "Subscribe"
           /\ caller[c].pc = "drained" => caller[c].call \in Writers
           /\ caller[c].pc = "closing" => caller[c].call = "Shutdown"
           /\ caller[c].pc = "aborting" => caller[c].call = "Emergency"
<1>1. caller[c].pc \in PcsOf(caller[c].call) /\ caller[c].call \in Calls \cup {"None"}
  BY DEF Types, Shaped, CallerStates
<1> QED  BY <1>1 DEF PcsOf, Calls, OnIdentity, OnLease, Writers, Waits, Opens

CallersOK == caller' \in [Callers -> CallerStates] /\ \A c \in Callers : Shaped(caller'[c], Handles')

\* Nobody who waits is moved.
StillQueued == \A c \in Callers : At(c, "gate") => At(c, "gate")'

\* A caller that fits the workers known so far still fits once more workers are known.
LEMMA Grows ==
    ASSUME NEW r, NEW small, NEW large, small \subseteq large, Shaped(r, small)
    PROVE  Shaped(r, large)
BY DEF Shaped

\* c becomes r.
LEMMA BecomesShaped ==
    ASSUME Types, Handles \subseteq Handles', NEW c \in Callers, NEW r, Shaped(r, Handles'),
           caller' = [caller EXCEPT ![c] = r]
    PROVE  CallersOK /\ (caller[c].pc # "gate" => StillQueued)
<1>1. \A d \in Callers : caller'[d] = IF d = c THEN r ELSE caller[d]
  BY DEF Types, TypeOK
<1>2. \A d \in Callers : Shaped(caller'[d], Handles')
  BY <1>1, Grows DEF Types
<1>3. caller' \in [Callers -> CallerStates]
  BY DEF Types, TypeOK, Shaped
<1> QED  BY <1>1, <1>2, <1>3 DEF CallersOK, StillQueued, At

\* A caller that only moves to another point of its call keeps every caller well formed, as long as
\* the new point belongs to the call and it is concerned with a worker wherever the point needs
\* one.
LEMMA GotoShaped ==
    ASSUME Types, Handles \subseteq Handles', NEW c \in Callers,
           NEW pc \in PcsOf(caller[c].call), pc \in CallerPcs, Goto(c, pc),
           caller[c].pc \notin {"closing", "aborting", "gate"}, pc \notin {"closing", "aborting"},
           pc \in Holding => Mine(c) \in Handles
    PROVE  CallersOK /\ StillQueued
<1> DEFINE r == [caller[c] EXCEPT !.pc = pc]
<1>1. Shaped(caller[c], Handles) /\ caller[c] \in CallerStates
  BY DEF Types, Shaped
<1>2. /\ r \in CallerStates /\ r.pc = pc /\ r.call = caller[c].call /\ r.id = caller[c].id
      /\ r.runtime = caller[c].runtime /\ r.worker = caller[c].worker /\ r.todo = caller[c].todo
  BY <1>1 DEF CallerStates
<1>3. caller' = [caller EXCEPT ![c] = r]
  BY DEF Goto
<1> HIDE DEF r
<1>4. Shaped(r, Handles')
  BY <1>1, <1>2 DEF Shaped, Mine
<1> QED  BY <1>3, <1>4, BecomesShaped

\* The same for a move that also changes the worker the caller is concerned with.
LEMMA GotoForShaped ==
    ASSUME Types, Handles \subseteq Handles', NEW c \in Callers,
           NEW pc \in PcsOf(caller[c].call), pc \in CallerPcs,
           NEW w \in Handles' \cup {None}, w \in Nat, GotoFor(c, pc, w),
           pc # "closing" => pc # "aborting" /\ caller[c].pc \notin {"closing", "aborting"},
           caller[c].call \notin OnLease, caller[c].pc # "gate", pc \in Holding => w \in Handles'
    PROVE  CallersOK /\ StillQueued
<1> DEFINE r == [caller[c] EXCEPT !.pc = pc, !.worker = w]
<1>1. Shaped(caller[c], Handles) /\ caller[c] \in CallerStates
  BY DEF Types, Shaped
<1>2. /\ r \in CallerStates /\ r.pc = pc /\ r.call = caller[c].call /\ r.id = caller[c].id
      /\ r.runtime = caller[c].runtime /\ r.worker = w /\ r.todo = caller[c].todo
  BY <1>1 DEF CallerStates
<1>3. caller' = [caller EXCEPT ![c] = r]
  BY DEF GotoFor
<1> HIDE DEF r
<1>4. Shaped(r, Handles')
  BY <1>1, <1>2 DEF Shaped
<1> QED  BY <1>3, <1>4, BecomesShaped

\* A call begins with a record at the gate, and ends idle.
LEMMA RestShaped ==
    ASSUME NEW handles
    PROVE  /\ Shaped(Idle, handles)
           /\ \A call \in OnIdentity, id \in Identities, runtime \in Runtimes :
                 Shaped([Idle EXCEPT !.pc = "gate", !.call = call, !.id = id, !.runtime = runtime],
                        handles)
           /\ \A call \in OnLease, w \in handles \cap Nat :
                 Shaped([Idle EXCEPT !.pc = "gate", !.call = call, !.worker = w], handles)
           /\ \A call \in Writers : Shaped([Idle EXCEPT !.pc = "gate", !.call = call], handles)
<1>1. /\ Idle \in CallerStates /\ Idle.pc = "idle" /\ Idle.call = "None" /\ Idle.id = Nobody
      /\ Idle.runtime = Nobody /\ Idle.worker = None /\ Idle.todo = {}
  BY DEF Idle, CallerStates, CallerPcs, None
<1>2. \A call \in Calls : "gate" \in PcsOf(call)
  BY DEF Calls, OnIdentity, OnLease, Writers, PcsOf
<1>3. "gate" \in CallerPcs \ Holding
  BY DEF CallerPcs, Holding, Waits
<1>4. Shaped(Idle, handles)
  BY <1>1 DEF Shaped, OnIdentity, OnLease, PcsOf, Holding, Waits
<1>5. ASSUME NEW call \in OnIdentity, NEW id \in Identities, NEW runtime \in Runtimes
      PROVE  Shaped([Idle EXCEPT !.pc = "gate", !.call = call, !.id = id, !.runtime = runtime],
                    handles)
  <2> DEFINE r == [Idle EXCEPT !.pc = "gate", !.call = call, !.id = id, !.runtime = runtime]
  <2>1. /\ r \in CallerStates /\ r.pc = "gate" /\ r.call = call /\ r.id = id
        /\ r.runtime = runtime /\ r.worker = None /\ r.todo = {}
    BY <1>1, <1>3 DEF CallerStates, Calls
  <2>2. call \in Calls \ OnLease
    BY DEF Calls, OnIdentity, OnLease
  <2> QED  BY <1>2, <1>3, <2>1, <2>2 DEF Shaped
<1>6. ASSUME NEW call \in OnLease, NEW w \in handles \cap Nat
      PROVE  Shaped([Idle EXCEPT !.pc = "gate", !.call = call, !.worker = w], handles)
  <2> DEFINE r == [Idle EXCEPT !.pc = "gate", !.call = call, !.worker = w]
  <2>1. /\ r \in CallerStates /\ r.pc = "gate" /\ r.call = call /\ r.worker = w /\ r.todo = {}
    BY <1>1, <1>3 DEF CallerStates, Calls
  <2>2. call \in Calls \ OnIdentity
    BY DEF Calls, OnIdentity, OnLease
  <2> QED  BY <1>2, <1>3, <2>1, <2>2 DEF Shaped
<1>7. ASSUME NEW call \in Writers
      PROVE  Shaped([Idle EXCEPT !.pc = "gate", !.call = call], handles)
  <2> DEFINE r == [Idle EXCEPT !.pc = "gate", !.call = call]
  <2>1. /\ r \in CallerStates /\ r.pc = "gate" /\ r.call = call /\ r.worker = None /\ r.todo = {}
    BY <1>1, <1>3 DEF CallerStates, Calls
  <2>2. call \in Calls \ (OnIdentity \cup OnLease)
    BY DEF Calls, OnIdentity, OnLease, Writers
  <2> QED  BY <1>2, <1>3, <2>1, <2>2 DEF Shaped
<1> QED  BY <1>4, <1>5, <1>6, <1>7

GatesOK ==
    /\ gate' \in [readers : SUBSET Callers, writer : Callers \cup {Nobody}, waiting : Seq(Callers)]
    /\ lock' \in Callers \cup {Nobody}

\* Nobody's place in the queue of the gate changes while the queue and those who wait there stay.
LEMMA QueueStays ==
    ASSUME Types, StillQueued, gate'.waiting = gate.waiting
    PROVE  Queued'
<1>1. gate.waiting \in Seq(Callers)
  BY DEF Types, TypeOK
<1> QED  BY <1>1, ElementOfSeq DEF Types, Queued, StillQueued

\* A caller whose call returns leaves well-formed callers, a well-formed gate and the queue as it
\* was.
LEMMA LeavesShaped ==
    ASSUME Types, Handles \subseteq Handles', NEW c \in Callers, Leaves(c)
    PROVE  CallersOK /\ GatesOK /\ Queued'
<1>1. CallersOK
  BY BecomesShaped, RestShaped DEF Leaves
<1>2. gate.waiting \in Seq(Callers) /\ Without(gate.waiting, c) \in Seq(Callers)
  BY WithoutWaiter DEF Types, TypeOK
<1>3. GatesOK
  BY <1>2 DEF Leaves, GatesOK, Types, TypeOK
<1>4. gate'.waiting = Without(gate.waiting, c)
      /\ \A d \in Callers \ {c} : caller'[d] = caller[d]
  BY DEF Leaves, Types, TypeOK
<1>5. Queued
  BY DEF Types
<1>6. \A i \in 1 .. Len(gate'.waiting) :
         gate'.waiting[i] \in Callers \ {c} /\ At(gate'.waiting[i], "gate")
  BY <1>2, <1>4, <1>5, WithoutWaiter, ElementOfSeq DEF Queued
<1>7. \A i, j \in 1 .. Len(gate'.waiting) : gate'.waiting[i] = gate'.waiting[j] => i = j
  BY <1>2, <1>4, <1>5, WithoutWaiter DEF Queued
<1>8. \A i \in 1 .. Len(gate'.waiting) : caller'[gate'.waiting[i]].pc = "gate"
  BY <1>4, <1>6 DEF At
<1> QED  BY <1>1, <1>3, <1>7, <1>8 DEF Queued, At


TablesOK ==
    /\ registry' \subseteq Handles'
    /\ slot' \in [Identities -> Handles' \cup {None}]
    /\ reserved' \subseteq Identities
    /\ auth' \in [Identities -> Handles' \cup {None}]
    /\ lease' \in [Callers -> Handles' \cup {None}]

HistoryOK == shutting' \in BOOLEAN /\ ended' \subseteq Writers /\ calls' \in Nat

\* The types hold after a step when they hold of each group of variables after it.
LEMMA TypesFromParts ==
    ASSUME worker' \in Seq(WorkerRecords), TablesOK, GatesOK, Queued', CallersOK,
           HistoryOK
    PROVE  Types'
BY DEF Types, TypeOK, TablesOK, GatesOK, CallersOK, HistoryOK

\* What a step that leaves the tables or the gate alone keeps of their types.
LEMMA UntouchedTypes ==
    ASSUME Types, Handles \subseteq Handles'
    PROVE  /\ UNCHANGED <<registry, tables, lease>> => TablesOK
           /\ UNCHANGED <<gate, lock>> => GatesOK
           /\ UNCHANGED <<shutting, ended, calls>> => HistoryOK
           /\ UNCHANGED caller => CallersOK /\ StillQueued
BY Grows DEF Types, TypeOK, TablesOK, GatesOK, HistoryOK, CallersOK, StillQueued,
                tables, At

\* A handle is a positive number.
LEMMA HandleFacts ==
    ASSUME Types
    PROVE  /\ Handles \subseteq Nat \ {None}
           /\ \A w \in Handles : worker[w] \in WorkerRecords /\ worker[w].state \in Workers
           /\ \A id \in Resident : slot[id] \in Handles
           /\ \A id \in Identities : auth[id] # None => auth[id] \in Handles
           /\ \A c \in Callers : caller[c].pc \in Holding => Mine(c) \in Handles
           /\ \A c \in Callers : caller[c].call \in OnIdentity => caller[c].id \in Identities
           /\ \A c \in Callers : caller[c].call \in OnLease => Mine(c) \in Handles
<1>1. Len(worker) \in Nat /\ Handles = 1 .. Len(worker)
  BY LenProperties DEF Handles, Types, TypeOK
<1>2. \A w \in Handles : worker[w] \in WorkerRecords
  BY <1>1 DEF Types, TypeOK
<1>3. \A w \in Handles : worker[w].state \in Workers
  BY <1>2 DEF WorkerRecords
<1> QED  BY <1>1, <1>2, <1>3 DEF Types, TypeOK, None, Resident, Shaped, Mine

\* The steps of a caller that move it and change nothing but the mutex.
LEMMA MoveTypes ==
    ASSUME Types, CallersOK, StillQueued, lock' \in Callers \cup {Nobody},
           UNCHANGED <<worker, registry, tables, gate, shutting, ended, lease, calls>>
    PROVE  Types'
BY TypesFromParts, UntouchedTypes, QueueStays DEF Types, TypeOK, GatesOK, Handles

\* The steps of a caller that end its call and leave workers and tables alone.
LEMMA LeaveTypes ==
    ASSUME Types, NEW c \in Callers, Leaves(c),
           UNCHANGED <<worker, registry, tables, shutting, lease, calls>>,
           ended' \subseteq Writers
    PROVE  Types'
<1>1. Handles' = Handles
  BY DEF Handles
<1>2. CallersOK /\ GatesOK /\ Queued'
  BY <1>1, LeavesShaped
<1>3. TablesOK
  BY <1>1, UntouchedTypes
<1> QED
  BY <1>2, <1>3, TypesFromParts DEF HistoryOK, Types, TypeOK

\* An error of a call that opens a browser.
LEMMA FailsShaped ==
    ASSUME Types, Handles \subseteq Handles', NEW c \in Callers, Fails(c),
           caller[c].pc \in {"evict", "spawn", "dispose"}
    PROVE  CallersOK /\ GatesOK /\ Queued'
<1>1. caller[c].call \in {"Lease", "BeginAuth"}
  BY CallAt
<1>2. CASE caller[c].call = "Lease"
  BY <1>2, LeavesShaped DEF Fails
<1>3. CASE caller[c].call = "BeginAuth"
  <2>1. Goto(c, "unreserve") /\ UNCHANGED <<gate, lock>>
    BY <1>3 DEF Fails
  <2>2. "unreserve" \in PcsOf(caller[c].call) /\ "unreserve" \in CallerPcs \ Holding
    BY <1>3 DEF PcsOf, CallerPcs, Holding, Waits
  <2>3. CallersOK /\ StillQueued
    BY <2>1, <2>2, GotoShaped
  <2> QED  BY <2>1, <2>3, UntouchedTypes, QueueStays
<1> QED  BY <1>1, <1>2, <1>3

\* The station starts well typed.
LEMMA TypesInit == Init => Types
<1> SUFFICES ASSUME Init PROVE Types
  OBVIOUS
<1>1. worker = <<>> /\ DOMAIN worker = {} /\ worker \in Seq(WorkerRecords)
  BY DEF Init
<1>2. <<>> \in Seq(Callers)
  OBVIOUS
<1>3. \A c \in Callers : Shaped(caller[c], Handles)
  BY RestShaped DEF Init
<1>4. TypeOK
  BY <1>1, <1>2, <1>3 DEF Init, TypeOK, Handles, None, Shaped
<1>5. Queued
  BY DEF Init, Queued
<1> QED  BY <1>3, <1>4, <1>5 DEF Types

-----------------------------------------------------------------------------
(* Type correctness, by the steps of a caller *)

\* Asking a worker to shut down or to abort keeps the worker table typed and its length.
LEMMA AskedType ==
    ASSUME Types, NEW w \in Handles, NEW what \in {"shutdown", "abort"}, Asked(w, what)
    PROVE  worker' \in Seq(WorkerRecords) /\ Handles' = Handles
BY AskedChanges DEF OnlyOne, WorkersOK, Types, TypeOK

\* A worker's own step keeps the worker table typed and its length.
LEMMA BecameType ==
    ASSUME Types, NEW w \in Handles, NEW states \in SUBSET Workers, Became(w, states)
    PROVE  worker' \in Seq(WorkerRecords) /\ Handles' = Handles
BY BecameChanges DEF OnlyOne, WorkersOK, Types, TypeOK

\* An idle caller joins the queue of the gate.
LEMMA QueuesShaped ==
    ASSUME Types, Handles \subseteq Handles', NEW c \in Callers, At(c, "idle"),
           NEW r, Shaped(r, Handles'), r.pc = "gate", Queues(c, r), lock' = lock
    PROVE  CallersOK /\ GatesOK /\ Queued'
<1> DEFINE queue == gate.waiting
<1>1. queue \in Seq(Callers) /\ Len(queue) \in Nat
  BY DEF Types, TypeOK
<1>2. gate'.waiting = Append(queue, c)
  BY DEF Queues, Types, TypeOK
<1>3. /\ Append(queue, c) \in Seq(Callers) /\ Len(Append(queue, c)) = Len(queue) + 1
      /\ \A i \in 1 .. Len(queue) : Append(queue, c)[i] = queue[i]
      /\ Append(queue, c)[Len(queue) + 1] = c
  BY <1>1, AppendProperties
<1>4. CallersOK
  BY BecomesShaped DEF Queues
<1>5. GatesOK
  BY <1>3 DEF Queues, GatesOK, Types, TypeOK
<1>6. \A i \in 1 .. Len(queue) : queue[i] \in Callers \ {c} /\ At(queue[i], "gate")
  BY <1>1, ElementOfSeq DEF Types, Queued, At
<1>7. \A d \in Callers : caller'[d] = IF d = c THEN r ELSE caller[d]
  BY DEF Queues, Types, TypeOK
<1>8. \A i, j \in 1 .. Len(queue) : queue[i] = queue[j] => i = j
  BY DEF Types, Queued
<1> HIDE DEF queue
<1>9. \A i \in 1 .. Len(queue) + 1 : i \in 1 .. Len(queue) \/ i = Len(queue) + 1
  BY <1>1
<1> QED  BY <1>2, <1>3, <1>4, <1>5, <1>6, <1>7, <1>8, <1>9 DEF Queued, At

\* Starting a call keeps the types: whatever the call, its caller begins at the gate.
LEMMA CallTypes ==
    ASSUME Types, NEW c \in Callers, CallStep(c)
    PROVE  Types'
<1> USE DEF Begins
<1>1. CASE CallOnIdentity(c)
  <2>1. PICK call \in OnIdentity, id \in Identities, runtime \in Runtimes :
           /\ At(c, "idle") /\ calls' = calls + 1
           /\ Queues(c, [Idle EXCEPT !.pc = "gate", !.call = call, !.id = id,
                                     !.runtime = runtime])
           /\ UNCHANGED <<worker, registry, tables, lock, shutting, ended, lease>>
    BY <1>1 DEF CallOnIdentity
  <2>2. Handles' = Handles
    BY <2>1 DEF Handles
  <2>3. CallersOK /\ GatesOK /\ Queued'
    BY <2>1, <2>2, RestShaped, QueuesShaped DEF Idle
  <2> QED  BY <2>1, <2>2, <2>3, UntouchedTypes, TypesFromParts DEF HistoryOK, Types, TypeOK
<1>2. CASE CallOnLease(c)
  <2>1. PICK call \in OnLease :
           /\ At(c, "idle") /\ calls' = calls + 1
           /\ lease[c] # None
           /\ Queues(c, [Idle EXCEPT !.pc = "gate", !.call = call, !.worker = lease[c]])
           /\ UNCHANGED <<worker, registry, tables, lock, shutting, ended, lease>>
    BY <1>2 DEF CallOnLease
  <2>2. Handles' = Handles /\ lease[c] \in Handles \cap Nat
    BY <2>1, HandleFacts DEF Handles, Types, TypeOK
  <2>3. CallersOK /\ GatesOK /\ Queued'
    BY <2>1, <2>2, RestShaped, QueuesShaped DEF Idle
  <2> QED  BY <2>1, <2>2, <2>3, UntouchedTypes, TypesFromParts DEF HistoryOK, Types, TypeOK
<1>3. CASE CallShutdown(c)
  <2>1. Handles' = Handles
    BY <1>3 DEF CallShutdown, Handles
  <2>2. CallersOK /\ GatesOK /\ Queued'
    BY <1>3, <2>1, RestShaped, QueuesShaped DEF CallShutdown, Writers, Idle
  <2>3. TablesOK
    BY <1>3, <2>1, UntouchedTypes DEF CallShutdown
  <2>4. HistoryOK
    BY <1>3 DEF CallShutdown, HistoryOK, Types, TypeOK
  <2> QED  BY <1>3, <2>1, <2>2, <2>3, <2>4, TypesFromParts DEF CallShutdown, Types, TypeOK
<1>4. CASE CallEmergency(c)
  <2>1. worker' \in Seq(WorkerRecords) /\ Handles' = Handles
    BY <1>4, AbortAllChanges DEF CallEmergency, WorkersOK, Types, TypeOK
  <2>2. CallersOK /\ GatesOK /\ Queued'
    BY <1>4, <2>1, RestShaped, QueuesShaped DEF CallEmergency, Writers, Idle
  <2>3. TablesOK
    BY <1>4, <2>1, UntouchedTypes DEF CallEmergency
  <2>4. HistoryOK
    BY <1>4 DEF CallEmergency, HistoryOK, Types, TypeOK
  <2> QED  BY <2>1, <2>2, <2>3, <2>4, TypesFromParts
<1>5. CASE DropsLease(c)
  <2>1. Handles' = Handles
    BY <1>5 DEF DropsLease, Handles
  <2>2. CallersOK /\ GatesOK /\ Queued'
    BY <1>5, <2>1, UntouchedTypes, QueueStays DEF DropsLease
  <2> QED  BY <1>5, <2>1, <2>2, TypesFromParts DEF DropsLease, tables, TablesOK, HistoryOK,
                                                   Types, TypeOK
<1>6. CASE Cancel(c)
  <2>1. worker' \in Seq(WorkerRecords) /\ Handles' = Handles
    <3>1. CASE UNCHANGED worker
      BY <3>1 DEF Handles, Types, TypeOK
    <3>2. CASE /\ caller[c].pc \in {"using", "retried"}
               /\ Became(Mine(c), Degraded(worker[Mine(c)].state))
      <4>1. Mine(c) \in Handles
        BY <3>2, CallAt, HandleFacts DEF OnLease
      <4> QED  BY <3>2, <4>1, HandleFacts, StatesAreWorkers, BecameType
    <3> QED  BY <1>6, <3>1, <3>2 DEF Cancel
  <2>2. CallersOK /\ GatesOK /\ Queued'
    BY <1>6, <2>1, LeavesShaped DEF Cancel
  <2> QED  BY <1>6, <2>1, <2>2, UntouchedTypes, TypesFromParts DEF Cancel, HistoryOK,
                                                                   Types, TypeOK
<1> QED  BY <1>1, <1>2, <1>3, <1>4, <1>5, <1>6 DEF CallStep

\* Passing the gate, or being turned away there, keeps the types.
LEMMA GateTypes ==
    ASSUME Types, NEW c \in Callers, Enters(c) \/ TurnedAway(c)
    PROVE  Types'
<1>1. CASE Enters(c)
  <2> DEFINE queue == gate.waiting
  <2>1. queue \in Seq(Callers) /\ queue # <<>> /\ c = Head(queue) /\ Queued
    BY <1>1 DEF Enters, Granted, Types, TypeOK
  <2>2. /\ Tail(queue) \in Seq(Callers) /\ Len(queue) \in Nat \ {0}
        /\ Len(Tail(queue)) = Len(queue) - 1
        /\ \A i \in 1 .. Len(Tail(queue)) : Tail(queue)[i] = queue[i + 1]
    BY <2>1, HeadTailProperties, EmptySeq
  <2>3. c = queue[1] /\ At(c, "gate")
    BY <2>1, <2>2 DEF Queued
  <2>4. GatesOK /\ gate'.waiting = Tail(queue)
    BY <1>1, <2>2 DEF Enters, GatesOK, Types, TypeOK
  <2>5. CallersOK /\ \A d \in Callers \ {c} : caller'[d] = caller[d]
    <3>1. caller[c].call \in Calls
      BY <2>3, CallAt DEF Types, TypeOK, CallerStates, At
    <3>2. Entry[caller[c].call] \in PcsOf(caller[c].call)
          /\ Entry[caller[c].call] \in CallerPcs \ (Holding \cup {"closing", "aborting"})
      BY <3>1 DEF Entry, PcsOf, CallerPcs, Holding, Waits, Calls, OnIdentity, OnLease, Writers
    <3>3. Handles \subseteq Handles'
      BY <1>1 DEF Enters, Handles
    <3>4. Shaped(caller[c], Handles)
      BY DEF Types
    <3> DEFINE r == [caller[c] EXCEPT !.pc = Entry[caller[c].call]]
    <3>5. /\ r \in CallerStates /\ r.pc = Entry[caller[c].call] /\ r.call = caller[c].call
          /\ r.id = caller[c].id /\ r.runtime = caller[c].runtime
          /\ r.worker = caller[c].worker /\ r.todo = caller[c].todo
      BY <3>2, <3>4 DEF CallerStates, Shaped
    <3>6. caller' = [caller EXCEPT ![c] = r]
      BY <1>1 DEF Enters, Goto
    <3> HIDE DEF r
    <3>7. Shaped(r, Handles')
      BY <2>3, <3>2, <3>3, <3>4, <3>5 DEF Shaped, At
    <3> QED  BY <3>3, <3>6, <3>7, BecomesShaped DEF Types, TypeOK
  <2>6. /\ \A i \in 1 .. Len(queue) : queue[i] \in Callers /\ At(queue[i], "gate")
        /\ \A i \in 1 .. Len(Tail(queue)) : i \in Nat /\ i + 1 \in (1 .. Len(queue)) \ {1}
        /\ 1 \in 1 .. Len(queue)
    BY <2>1, <2>2, ElementOfSeq DEF Queued
  <2>7. /\ \A i \in 1 .. Len(Tail(queue)) :
              Tail(queue)[i] \in Callers \ {c} /\ At(Tail(queue)[i], "gate")
        /\ \A i, j \in 1 .. Len(Tail(queue)) : Tail(queue)[i] = Tail(queue)[j] => i = j
    BY <2>1, <2>2, <2>3, <2>6 DEF Queued
  <2>8. Queued'
    BY <2>4, <2>5, <2>7 DEF Queued, At
  <2>9. Handles' = Handles
    BY <1>1 DEF Enters, Handles
  <2> QED  BY <1>1, <2>4, <2>5, <2>8, <2>9, UntouchedTypes, TypesFromParts DEF Enters, Types, TypeOK
<1>2. CASE TurnedAway(c)
  BY <1>2, LeaveTypes DEF TurnedAway, Types, TypeOK
<1> QED  BY <1>1, <1>2

\* The pcs of each call, where a caller gets to without a worker or with one.
LEMMA PcsOfEach ==
    /\ {"decide", "room", "spawn"} \cup Waits \cup {"retire", "evict", "settleNew", "dispose"}
       \subseteq PcsOf("Lease")
    /\ {"spawn", "unreserve", "evict", "settleNew", "navigate", "install", "dispose"}
       \subseteq PcsOf("BeginAuth")
    /\ {"close", "unreserve"} \subseteq PcsOf("FinishAuth")
    /\ {"using", "restarting", "retried"} \subseteq PcsOf("Use")
    /\ "subscribed" \in PcsOf("Subscribe")
    /\ "closing" \in PcsOf("Shutdown")
    /\ "aborting" \in PcsOf("Emergency")
    /\ Holding \subseteq CallerPcs \ {"gate", "idle", "closing", "aborting"}
    /\ {"room", "spawn", "unreserve", "using", "restarting", "retried", "subscribed"}
       \subseteq CallerPcs \ (Holding \cup {"closing", "aborting"})
BY DEF PcsOf, Waits, Opens, Holding, CallerPcs

\* A caller moves, and nothing else changes but the mutex.
LEMMA GotoTypes ==
    ASSUME Types, NEW c \in Callers, NEW pc \in PcsOf(caller[c].call), pc \in CallerPcs,
           Goto(c, pc), caller[c].pc \notin {"closing", "aborting", "gate"},
           pc \notin {"closing", "aborting"}, pc \in Holding => Mine(c) \in Handles,
           lock' \in {c, lock},
           UNCHANGED <<worker, registry, tables, gate, shutting, ended, lease, calls>>
    PROVE  Types'
<1>1. Handles \subseteq Handles' /\ lock' \in Callers \cup {Nobody}
  BY DEF Handles, Types, TypeOK
<1> QED  BY <1>1, GotoShaped, MoveTypes

\* A caller turns to another worker.
LEMMA GotoForTypes ==
    ASSUME Types, NEW c \in Callers, NEW pc \in PcsOf(caller[c].call), pc \in CallerPcs,
           NEW w \in Handles \cup {None}, GotoFor(c, pc, w),
           caller[c].pc \notin {"closing", "aborting", "gate"},
           pc \notin {"closing", "aborting"}, pc \in Holding => w \in Handles,
           caller[c].call \notin OnLease, lock' \in {c, lock},
           UNCHANGED <<worker, registry, tables, gate, shutting, ended, lease, calls>>
    PROVE  Types'
<1>1. Handles' = Handles /\ lock' \in Callers \cup {Nobody} /\ w \in Nat
  BY HandleFacts DEF Handles, Types, TypeOK, None
<1> QED  BY <1>1, GotoForShaped, MoveTypes

\* A worker that was in a slot is shut down for a caller.
LEMMA RetiresTypes ==
    ASSUME Types, NEW c \in Callers, NEW id \in Identities, NEW w \in Handles,
           NEW pc \in {"retire", "evict"} \cap PcsOf(caller[c].call), Vacates(id), Asked(w, "shutdown"),
           GotoFor(c, pc, w),
           caller[c].call \in OnIdentity, caller[c].pc \notin {"closing", "aborting", "gate"},
           lock' \in {c, lock}, reserved' \subseteq Identities,
           UNCHANGED <<registry, auth, gate, shutting, ended, lease, calls>>
    PROVE  Types'
<1>1. worker' \in Seq(WorkerRecords) /\ Handles' = Handles /\ w \in Nat
  BY AskedType, HandleFacts
<1>2. pc \in CallerPcs \ {"closing", "aborting"} /\ caller[c].call \notin OnLease
  BY DEF CallerPcs, OnIdentity, OnLease
<1>3. CallersOK /\ StillQueued
  BY <1>1, <1>2, GotoForShaped
<1>4. TablesOK
  BY <1>1 DEF TablesOK, Vacates, None, Types, TypeOK
<1>5. GatesOK /\ HistoryOK
  BY DEF GatesOK, HistoryOK, Types, TypeOK
<1> QED  BY <1>1, <1>3, <1>4, <1>5, QueueStays, TypesFromParts

\* Each step of lease() up to the spawn keeps the types.
LEMMA LeaseTypes ==
    ASSUME Types, NEW c \in Callers, LeaseStep(c)
    PROVE  Types'
<1> USE DEF Deciding, At
<1>0. ended \subseteq Writers
  BY DEF Types, TypeOK
<1>1. CASE LeaseRefused(c) \/ AtCapacity(c)
  BY <1>0, <1>1, LeaveTypes DEF LeaseRefused, AtCapacity
<1>2. ASSUME NEW w \in Handles, TakesLease(c, w),
             UNCHANGED <<worker, registry, tables, shutting, ended, calls>>
      PROVE  Types'
  <2>1. Handles' = Handles
    BY <1>2 DEF Handles
  <2>2. CallersOK /\ GatesOK /\ Queued'
    BY <1>2, <2>1, LeavesShaped DEF TakesLease
  <2>3. TablesOK
    BY <1>2, <2>1 DEF TakesLease, TablesOK, tables, Types, TypeOK
  <2>4. HistoryOK
    BY <1>2 DEF HistoryOK, Types, TypeOK
  <2> QED  BY <1>2, <2>2, <2>3, <2>4, TypesFromParts DEF Types, TypeOK
<1>3. caller[c].pc = "decide" /\ Found(c) # None => Found(c) \in Handles
  BY CallAt DEF Found, Types, TypeOK, Shaped, OnIdentity
<1>4. CASE LeaseReuses(c)
  BY <1>2, <1>3, <1>4 DEF LeaseReuses, Considers
<1>5. CASE LeaseRepairs(c)
  <2>1. Found(c) \in Handles /\ caller[c].call = "Lease" /\ caller[c].pc = "decide"
    BY <1>3, <1>5, CallAt DEF LeaseRepairs, Considers
  <2> QED  BY <1>5, <2>1, PcsOfEach, GotoForTypes DEF LeaseRepairs, Locks, Waits, Holding, OnLease
<1>6. CASE LeaseAwaits(c)
  <2>1. Found(c) \in Handles /\ caller[c].call = "Lease" /\ caller[c].pc = "decide"
    BY <1>3, <1>6, CallAt DEF LeaseAwaits, Considers
  <2> QED  BY <1>6, <2>1, PcsOfEach, GotoForTypes DEF LeaseAwaits, Locks, Waits, Holding, OnLease
<1>7. CASE LeaseRetires(c)
  <2>1. Found(c) \in Handles /\ caller[c].call = "Lease" /\ caller[c].pc = "decide"
    BY <1>3, <1>7, CallAt DEF LeaseRetires, Considers
  <2>2. caller[c].id \in Identities /\ reserved \subseteq Identities
    BY <2>1, HandleFacts DEF OnIdentity, Types, TypeOK
  <2> QED  BY <1>7, <2>1, <2>2, PcsOfEach, RetiresTypes DEF LeaseRetires, Retires, Locks, OnIdentity
<1>8. CASE LeaseMisses(c) \/ HasRoom(c)
  <2>1. caller[c].call = "Lease"
    BY <1>8, CallAt DEF LeaseMisses, HasRoom
  <2> QED  BY <1>8, <2>1, PcsOfEach, GotoTypes DEF LeaseMisses, HasRoom, Locks
<1>9. CASE RestartBegins(c)
  <2>1. caller[c].call = "Lease" /\ Mine(c) \in Handles
    BY <1>9, CallAt, HandleFacts DEF RestartBegins, Waits, Holding
  <2>2. worker' \in Seq(WorkerRecords) /\ Handles' = Handles
    BY <1>9, <2>1, HandleFacts, StatesAreWorkers, BecameType DEF RestartBegins
  <2>3. CallersOK /\ StillQueued
    BY <1>9, <2>1, <2>2, PcsOfEach, GotoShaped DEF RestartBegins, Waits, Holding
  <2> QED  BY <1>9, <2>2, <2>3, UntouchedTypes, QueueStays, TypesFromParts DEF RestartBegins
<1>10. CASE Settled(c)
  <2>1. Mine(c) \in Handles
    BY <1>10, HandleFacts DEF Settled, Waits, Holding
  <2> QED  BY <1>2, <1>10, <2>1 DEF Settled
<1>11. CASE GivesUp(c)
  <2>1. caller[c].call = "Lease" /\ Mine(c) \in Handles
    BY <1>11, CallAt, HandleFacts DEF GivesUp, Waits, Holding
  <2>2. caller[c].id \in Identities /\ reserved \subseteq Identities
    BY <2>1, HandleFacts DEF OnIdentity, Types, TypeOK
  <2> QED  BY <1>11, <2>1, <2>2, PcsOfEach, RetiresTypes DEF GivesUp, Retires, OnIdentity
<1>12. CASE Retired(c)
  <2>1. caller[c].call = "Lease"
    BY <1>12, CallAt DEF Retired
  <2> QED  BY <1>12, <2>1, PcsOfEach, GotoForTypes DEF Retired, OnLease
<1>13. CASE MakesRoom(c)
  <2>1. caller[c].call = "Lease" /\ reserved \subseteq Identities
    BY <1>13, CallAt DEF MakesRoom, Types, TypeOK
  <2>2. PICK id \in Resident : Evicts(c, id)
    BY <1>13 DEF MakesRoom, Idles
  <2> QED
    BY <1>13, <2>1, <2>2, HandleFacts, PcsOfEach, RetiresTypes DEF MakesRoom, Evicts, Resident,
                                                                   OnIdentity
<1> QED
  BY <1>1, <1>4, <1>5, <1>6, <1>7, <1>8, <1>9, <1>10, <1>11, <1>12, <1>13 DEF LeaseStep

\* The worker a caller spawns.
New(c) == [state |-> Spawned, id |-> caller[c].id, runtime |-> caller[c].runtime,
           asked |-> IF shutting THEN "abort" ELSE "nothing", subscriber |-> Nobody]

\* A spawn appends one worker, with a number no worker had, and changes none of the others.
LEMMA SpawnChanges ==
    ASSUME Types, NEW c \in Callers, Spawns(c), NEW n, n = Len(worker) + 1
    PROVE  /\ worker' \in Seq(WorkerRecords) /\ n \in Nat \ Handles
           /\ Handles' = Handles \cup {n}
           /\ \A v \in Handles : worker'[v] = worker[v]
           /\ worker'[n] = New(c) /\ New(c) \in WorkerRecords
<1>1. Len(worker) \in Nat /\ Handles = 1 .. Len(worker) /\ worker \in Seq(WorkerRecords)
  BY LenProperties DEF Handles, Types, TypeOK
<1>2. caller[c].call \in OnIdentity /\ shutting \in BOOLEAN
  BY CallAt DEF Spawns, At, OnIdentity, Types, TypeOK
<1>3. Spawned \in Workers
  BY DEF Spawned, Workers, Phases
<1>4. New(c) \in WorkerRecords
  BY <1>2, <1>3 DEF New, WorkerRecords, Types, Shaped
<1>5. worker' = Append(worker, New(c))
  BY DEF Spawns, New
<1>6. /\ worker' \in Seq(WorkerRecords) /\ Len(worker') = n
      /\ \A v \in 1 .. Len(worker) : worker'[v] = worker[v] /\ worker'[n] = New(c)
      /\ worker'[n] = New(c)
  BY <1>1, <1>4, <1>5, AppendProperties
<1>7. Handles' = 1 .. n
  BY <1>6, LenProperties DEF Handles
<1> QED  BY <1>1, <1>4, <1>6, <1>7

\* The new worker is shut down.
LEMMA DisposesTypes ==
    ASSUME Types, NEW c \in Callers, Disposes(c), caller[c].pc \in {"settleNew", "navigate"},
           UNCHANGED <<registry, tables, shutting, ended, lease, calls>>
    PROVE  Types'
<1>1. Mine(c) \in Handles /\ caller[c].call \in {"Lease", "BeginAuth"}
  BY CallAt, HandleFacts DEF Holding
<1>2. worker' \in Seq(WorkerRecords) /\ Handles' = Handles
  BY <1>1, AskedType DEF Disposes
<1>3. "dispose" \in PcsOf(caller[c].call)
  BY <1>1, PcsOfEach
<1>4. CallersOK /\ StillQueued
  BY <1>1, <1>2, <1>3, PcsOfEach, GotoShaped DEF Disposes, Holding
<1> QED  BY <1>2, <1>4, UntouchedTypes, QueueStays, TypesFromParts DEF Disposes

\* Each step around a spawn, of lease() and of begin_auth_session(), keeps the types.
LEMMA SpawnTypes ==
    ASSUME Types, NEW c \in Callers, SpawnStep(c)
    PROVE  Types'
<1> USE DEF At
<1>1. ended \subseteq Writers
  BY DEF Types, TypeOK
<1>2. CASE Evicted(c)
  <2>1. caller[c].call \in {"Lease", "BeginAuth"} /\ caller[c].pc = "evict"
    BY <1>2, CallAt DEF Evicted
  <2>2. CASE GotoFor(c, "spawn", None) /\ UNCHANGED <<gate, lock>>
    <3>1. "spawn" \in PcsOf(caller[c].call) \cap CallerPcs
      BY <2>1, PcsOfEach
    <3> QED  BY <1>2, <2>1, <2>2, <3>1, PcsOfEach, GotoForTypes DEF Evicted, OnLease
  <2>3. CASE Fails(c)
    <3>1. Handles' = Handles
      BY <1>2 DEF Evicted, Handles
    <3> QED  BY <1>2, <2>1, <2>3, <3>1, FailsShaped, UntouchedTypes, TypesFromParts
             DEF Evicted, Types, TypeOK
  <2> QED  BY <1>2, <2>2, <2>3 DEF Evicted
<1>3. CASE SpawnFails(c) \/ Disposed(c)
  <2>1. Handles' = Handles
    BY <1>3 DEF SpawnFails, Disposed, Handles
  <2>2. CallersOK /\ GatesOK /\ Queued'
    BY <1>3, <2>1, FailsShaped DEF SpawnFails, Disposed
  <2> QED  BY <1>3, <2>1, <2>2, UntouchedTypes, TypesFromParts
           DEF SpawnFails, Disposed, Types, TypeOK
<1>4. CASE Spawns(c)
  <2> DEFINE n == Len(worker) + 1
  <2>1. /\ worker' \in Seq(WorkerRecords) /\ n \in Nat
        /\ Handles' = Handles \cup {n}
    BY <1>4, SpawnChanges
  <2>2. registry' = Registered(n) /\ UNCHANGED <<tables, shutting, ended, lease, calls>>
        /\ caller[c].pc = "spawn" /\ (shutting => Fails(c))
        /\ (~shutting => GotoFor(c, "settleNew", n) /\ UNCHANGED <<gate, lock>>)
    BY <1>4 DEF Spawns
  <2> HIDE DEF n
  <2>3. TablesOK
    BY <2>1, <2>2 DEF TablesOK, Registered, tables, Types, TypeOK
  <2>4. CallersOK /\ GatesOK /\ Queued'
    <3>1. CASE shutting
      BY <2>1, <2>2, <3>1, FailsShaped
    <3>2. CASE ~shutting
      <4>1. caller[c].call \in {"Lease", "BeginAuth"}
        BY <2>2, CallAt
      <4>2. "settleNew" \in PcsOf(caller[c].call) \cap CallerPcs
        BY <4>1, PcsOfEach DEF Holding
      <4>3. CallersOK /\ StillQueued
        BY <2>1, <2>2, <3>2, <4>1, <4>2, GotoForShaped DEF OnLease
      <4> QED  BY <2>1, <2>2, <3>2, <4>3, UntouchedTypes, QueueStays
    <3> QED  BY <3>1, <3>2
  <2> QED  BY <2>1, <2>2, <2>3, <2>4, UntouchedTypes, TypesFromParts
<1>5. CASE NewIsLeased(c)
  <2>1. /\ Mine(c) \in Handles /\ caller[c].call = "Lease" /\ caller[c].id \in Identities
        /\ caller[c].pc = "settleNew"
    BY <1>5, CallAt, HandleFacts DEF NewIsLeased, Holding, OnIdentity
  <2>2. CASE shutting
    BY <1>5, <2>1, <2>2, DisposesTypes DEF NewIsLeased, tables
  <2>3. CASE ~shutting
    <3>1. Handles' = Handles /\ TakesLease(c, Mine(c))
      BY <1>5, <2>3 DEF NewIsLeased, Handles
    <3>2. CallersOK /\ GatesOK /\ Queued'
      BY <3>1, LeavesShaped DEF TakesLease
    <3>3. TablesOK
      BY <1>5, <2>1, <2>3, <3>1 DEF NewIsLeased, TakesLease, TablesOK, Types, TypeOK
    <3>4. HistoryOK /\ worker' \in Seq(WorkerRecords)
      BY <1>5, <2>3 DEF NewIsLeased, HistoryOK, Types, TypeOK
    <3> QED  BY <3>2, <3>3, <3>4, TypesFromParts
  <2> QED  BY <2>2, <2>3 DEF Types, TypeOK
<1>6. CASE NewIsVisible(c)
  <2>1. Mine(c) \in Handles
    BY <1>6, HandleFacts DEF NewIsVisible, Holding
  <2>2. caller[c].pc = "settleNew" /\ "navigate" \in PcsOf(caller[c].call) \cap CallerPcs
    BY <1>6, PcsOfEach DEF NewIsVisible, Holding
  <2> QED  BY <1>6, <2>1, <2>2, GotoTypes DEF NewIsVisible
<1>7. CASE NewFails(c)
  <2>1. CASE Leaves(c) /\ UNCHANGED worker
    BY <1>1, <1>7, <2>1, LeaveTypes DEF NewFails
  <2>2. CASE Disposes(c)
    BY <1>7, <2>2, DisposesTypes DEF NewFails
  <2> QED  BY <1>7, <2>1, <2>2 DEF NewFails
<1> QED  BY <1>2, <1>3, <1>4, <1>5, <1>6, <1>7 DEF SpawnStep

\* Each step of begin_auth_session() and finish_auth_session() keeps the types.
LEMMA AuthTypes ==
    ASSUME Types, NEW c \in Callers, AuthStep(c)
    PROVE  Types'
<1> USE DEF Deciding, At
<1>1. ended \subseteq Writers /\ reserved \subseteq Identities
  BY DEF Types, TypeOK
<1>2. CASE AuthRefused(c) \/ NoAuthToTake(c)
  BY <1>1, <1>2, LeaveTypes DEF AuthRefused, NoAuthToTake
<1>3. CASE AuthReserves(c)
  <2>1. caller[c].call = "BeginAuth" /\ caller[c].pc = "reserve" /\ caller[c].id \in Identities
    BY <1>3, CallAt, HandleFacts DEF AuthReserves, OnIdentity
  <2>2. reserved' \subseteq Identities
    BY <1>1, <1>3, <2>1 DEF AuthReserves
  <2>3. ASSUME NEW id \in Victims(c), Evicts(c, id) PROVE Types'
    <3>1. id \in Resident
      BY <2>1, <2>3 DEF Victims, Idles, Found, Resident
    <3>2. slot[id] \in Handles /\ id \in Identities
      BY <3>1, HandleFacts DEF Resident
    <3> QED  BY <1>3, <2>1, <2>2, <2>3, <3>2, PcsOfEach, RetiresTypes
             DEF AuthReserves, Evicts, OnIdentity
  <2>4. CASE Goto(c, "spawn") /\ UNCHANGED <<slot, worker>>
    <3>1. Handles' = Handles /\ "spawn" \in PcsOf(caller[c].call) \cap CallerPcs
      BY <2>1, <2>4, PcsOfEach DEF Handles
    <3>2. CallersOK /\ StillQueued
      BY <2>1, <2>4, <3>1, PcsOfEach, GotoShaped
    <3>3. TablesOK
      BY <1>3, <2>2, <2>4, <3>1 DEF AuthReserves, TablesOK, Types, TypeOK
    <3>4. HistoryOK /\ GatesOK
      BY <1>3 DEF AuthReserves, HistoryOK, GatesOK, Types, TypeOK
    <3> QED  BY <1>3, <2>4, <3>2, <3>3, <3>4, QueueStays, TypesFromParts
             DEF AuthReserves, Types, TypeOK
  <2> QED  BY <1>3, <2>3, <2>4 DEF AuthReserves
<1>4. CASE Navigated(c)
  <2>1. /\ caller[c].call = "BeginAuth" /\ caller[c].pc = "navigate" /\ Mine(c) \in Handles
        /\ {"install", "dispose"} \subseteq PcsOf(caller[c].call) \cap CallerPcs
    BY <1>4, CallAt, HandleFacts, PcsOfEach DEF Navigated, Holding
  <2>2. CASE Goto(c, "install") /\ UNCHANGED worker
    BY <1>4, <2>1, <2>2, GotoTypes DEF Navigated
  <2>3. CASE Disposes(c)
    BY <1>4, <2>1, <2>3, DisposesTypes DEF Navigated
  <2>4. ASSUME NEW s \in Degraded(worker[Mine(c)].state), Goto(c, "dispose"),
               worker' = [worker EXCEPT ![Mine(c)].state = s, ![Mine(c)].asked = "shutdown"]
        PROVE  Types'
    <3> DEFINE e == [worker[Mine(c)] EXCEPT !.state = s, !.asked = "shutdown"]
    <3>1. worker[Mine(c)] \in WorkerRecords /\ s \in Workers
      BY <2>1, <2>4, HandleFacts, StatesAreWorkers
    <3>2. e \in WorkerRecords
      BY <3>1 DEF WorkerRecords
    <3>3. worker' = [worker EXCEPT ![Mine(c)] = e]
      BY <2>1, <2>4 DEF Types, TypeOK
    <3>4. worker' \in Seq(WorkerRecords) /\ Handles' = Handles
      BY <2>1, <3>2, <3>3, WorkerChanges DEF OnlyOne, WorkersOK, Types, TypeOK
    <3>5. CallersOK /\ StillQueued
      BY <2>1, <2>4, <3>4, PcsOfEach, GotoShaped
    <3> QED  BY <1>4, <3>4, <3>5, UntouchedTypes, QueueStays, TypesFromParts DEF Navigated
  <2> QED  BY <1>4, <2>2, <2>3, <2>4 DEF Navigated
<1>5. CASE Installs(c) \/ Unreserves(c)
  <2>1. caller[c].id \in Identities /\ Handles' = Handles
        /\ (caller[c].pc = "install" => Mine(c) \in Handles)
    BY <1>5, CallAt, HandleFacts DEF Installs, Unreserves, OnIdentity, Holding, Handles
  <2>2. CallersOK /\ GatesOK /\ Queued'
    BY <1>5, <2>1, LeavesShaped DEF Installs, Unreserves
  <2>3. TablesOK
    BY <1>5, <2>1 DEF Installs, Unreserves, TablesOK, None, Types, TypeOK
  <2>4. HistoryOK /\ worker' \in Seq(WorkerRecords)
    BY <1>5 DEF Installs, Unreserves, HistoryOK, Types, TypeOK
  <2> QED  BY <2>2, <2>3, <2>4, TypesFromParts
<1>6. CASE TakesAuth(c)
  <2>1. PICK id \in OpenAuth(c) :
           /\ auth' = [auth EXCEPT ![id] = None]
           /\ Asked(auth[id], "shutdown")
           /\ caller' = [caller EXCEPT ![c].pc = "close", ![c].id = id, ![c].worker = auth[id]]
    BY <1>6 DEF TakesAuth
  <2>2. /\ id \in Identities /\ auth[id] \in Handles /\ auth[id] \in Nat
        /\ caller[c].pc = "take" /\ caller[c].call = "FinishAuth"
    BY <1>1, <1>6, <2>1, CallAt, HandleFacts DEF OpenAuth, TakesAuth
  <2>3. worker' \in Seq(WorkerRecords) /\ Handles' = Handles
    BY <2>1, <2>2, AskedType
  <2> DEFINE r == [caller[c] EXCEPT !.pc = "close", !.id = id, !.worker = auth[id]]
  <2>4. Shaped(caller[c], Handles) /\ caller[c] \in CallerStates
    BY DEF Types, Shaped
  <2>5. /\ r \in CallerStates /\ r.pc = "close" /\ r.call = "FinishAuth" /\ r.id = id
        /\ r.runtime = caller[c].runtime /\ r.worker = auth[id] /\ r.todo = caller[c].todo
    BY <2>2, <2>4 DEF CallerStates, CallerPcs
  <2>6. caller' = [caller EXCEPT ![c] = r]
    BY <2>1
  <2> HIDE DEF r
  <2>7. Shaped(r, Handles')
    BY <2>2, <2>3, <2>4, <2>5, PcsOfEach DEF Shaped, OnIdentity, OnLease
  <2>8. CallersOK /\ StillQueued
    BY <2>2, <2>3, <2>6, <2>7, BecomesShaped
  <2>9. TablesOK
    BY <1>6, <2>1, <2>2, <2>3 DEF TakesAuth, TablesOK, None, Types, TypeOK
  <2>10. HistoryOK /\ GatesOK
    BY <1>6 DEF TakesAuth, HistoryOK, GatesOK, Types, TypeOK
  <2> QED  BY <1>6, <2>3, <2>8, <2>9, <2>10, QueueStays, TypesFromParts DEF TakesAuth
<1>7. CASE AuthClosed(c)
  <2>1. caller[c].call = "FinishAuth"
    BY <1>7, CallAt DEF AuthClosed
  <2> QED  BY <1>7, <2>1, PcsOfEach, GotoTypes DEF AuthClosed
<1> QED  BY <1>2, <1>3, <1>4, <1>5, <1>6, <1>7 DEF AuthStep

\* Each step of a call on an existing lease keeps the types.
LEMMA UseTypes ==
    ASSUME Types, NEW c \in Callers, UseStep(c)
    PROVE  Types'
<1> USE DEF At
<1>1. ended \subseteq Writers
  BY DEF Types, TypeOK
<1>2. caller[c].pc \in {"session", "using", "restarting", "retried"}
      => caller[c].call = "Use" /\ Mine(c) \in Handles
  BY CallAt, HandleFacts DEF OnLease
<1>3. caller[c].pc \in {"subscribe", "subscribed"}
      => caller[c].call = "Subscribe" /\ Mine(c) \in Handles
  BY CallAt, HandleFacts DEF OnLease
<1>4. CASE UseBegins(c)
  BY <1>2, <1>4, PcsOfEach, GotoTypes DEF UseBegins
<1>5. CASE UseEnds(c)
  <2>1. worker' \in Seq(WorkerRecords) /\ Handles' = Handles
    <3>1. CASE UNCHANGED worker
      BY <3>1 DEF Handles, Types, TypeOK
    <3>2. CASE Became(Mine(c), Degraded(worker[Mine(c)].state))
      BY <1>2, <1>5, <3>2, HandleFacts, StatesAreWorkers, BecameType DEF UseEnds
    <3> QED  BY <1>5, <3>1, <3>2 DEF UseEnds
  <2>2. CallersOK /\ GatesOK /\ Queued'
    BY <1>5, <2>1, LeavesShaped DEF UseEnds
  <2> QED  BY <1>5, <2>1, <2>2, UntouchedTypes, TypesFromParts DEF UseEnds
<1>6. CASE UseRestarts(c)
  <2>1. Mine(c) \in Handles /\ caller[c].call = "Use"
    BY <1>2, <1>6 DEF UseRestarts
  <2>2. worker' \in Seq(WorkerRecords) /\ Handles' = Handles
    BY <1>6, <2>1, HandleFacts, StatesAreWorkers, BecameType DEF UseRestarts
  <2>3. CallersOK /\ StillQueued
    BY <1>6, <2>1, <2>2, PcsOfEach, GotoShaped DEF UseRestarts
  <2> QED  BY <1>6, <2>2, <2>3, UntouchedTypes, QueueStays, TypesFromParts DEF UseRestarts
<1>7. CASE SubscribeBegins(c)
  <2>1. Mine(c) \in Handles /\ caller[c].call = "Subscribe"
    BY <1>3, <1>7 DEF SubscribeBegins
  <2> DEFINE e == [worker[Mine(c)] EXCEPT !.subscriber = c]
  <2>2. e \in WorkerRecords
    BY <2>1, HandleFacts DEF WorkerRecords
  <2>3. worker' = [worker EXCEPT ![Mine(c)] = e]
    BY <1>7 DEF SubscribeBegins
  <2>4. worker' \in Seq(WorkerRecords) /\ Handles' = Handles
    BY <2>1, <2>2, <2>3, WorkerChanges DEF OnlyOne, WorkersOK, Types, TypeOK
  <2>5. CallersOK /\ StillQueued
    BY <1>7, <2>1, <2>4, PcsOfEach, GotoShaped DEF SubscribeBegins
  <2> QED  BY <1>7, <2>4, <2>5, UntouchedTypes, QueueStays, TypesFromParts DEF SubscribeBegins
<1>8. CASE SubscribeEnds(c)
  BY <1>1, <1>8, LeaveTypes DEF SubscribeEnds
<1> QED  BY <1>4, <1>5, <1>6, <1>7, <1>8 DEF UseStep

\* Both shutdowns take every table.
LEMMA NoTablesOK ==
    ASSUME Types, NoTables, Handles' = Handles, registry' \subseteq Handles, lease' = lease
    PROVE  TablesOK
BY DEF NoTables, TablesOK, None, Types, TypeOK

\* Each step of shutdown() and emergency_shutdown() behind the gate keeps the types.
LEMMA WriterTypes ==
    ASSUME Types, NEW c \in Callers, WriterStep(c)
    PROVE  Types'
<1> USE DEF Deciding, At
<1>0. /\ Shaped(caller[c], Handles) /\ caller[c] \in CallerStates
      /\ Handles \subseteq Nat /\ registry \subseteq Handles
      /\ ended \subseteq Writers /\ lock \in Callers \cup {Nobody}
  BY HandleFacts DEF Types, TypeOK, Shaped
\* The writer goes on with another worker and other workers to come.
<1>1. ASSUME NEW pc \in {"closing", "aborting"}, pc \in PcsOf(caller[c].call),
             NEW w \in Handles \cup {None}, NEW todo \in SUBSET Handles, Handles' = Handles,
             caller' = [caller EXCEPT ![c] = [caller[c] EXCEPT !.pc = pc, !.worker = w, !.todo = todo]],
             caller[c].pc # "gate", caller[c].call \in Writers
      PROVE  CallersOK /\ StillQueued
  <2> DEFINE r == [caller[c] EXCEPT !.pc = pc, !.worker = w, !.todo = todo]
  <2>0. w \in Nat /\ todo \in SUBSET Nat /\ pc \in CallerPcs
    BY <1>0, <1>1 DEF CallerPcs, None
  <2>1. /\ r \in CallerStates /\ r.pc = pc /\ r.call = caller[c].call /\ r.worker = w
        /\ r.todo = todo
    BY <1>0, <2>0 DEF CallerStates
  <2>2. caller' = [caller EXCEPT ![c] = r]
    BY <1>1
  <2> HIDE DEF r
  <2>3. Shaped(r, Handles')
    BY <1>0, <1>1, <2>1 DEF Shaped, Writers, OnIdentity, OnLease, Holding, Waits
  <2> QED  BY <1>1, <2>2, <2>3, BecomesShaped
<1>2. CASE ShutdownDrained(c)
  <2>1. Handles' = Handles /\ worker' \in Seq(WorkerRecords)
    BY <1>2 DEF ShutdownDrained, Handles, Types, TypeOK
  <2>2. caller' = [caller EXCEPT ![c] = [caller[c] EXCEPT !.pc = "closing",
                      !.worker = caller[c].worker, !.todo = registry]]
    BY <1>0, <1>2 DEF ShutdownDrained, CallerStates
  <2>3. CallersOK /\ StillQueued
    BY <1>0, <1>1, <1>2, <2>1, <2>2, PcsOfEach DEF ShutdownDrained, Writers, Shaped
  <2>4. TablesOK
    BY <1>0, <1>2, <2>1, NoTablesOK DEF ShutdownDrained
  <2>5. GatesOK /\ HistoryOK
    BY <1>2, <2>1, UntouchedTypes DEF ShutdownDrained
  <2> QED  BY <1>2, <2>1, <2>3, <2>4, <2>5, QueueStays, TypesFromParts DEF ShutdownDrained
<1>3. CASE ShutdownAsks(c)
  <2> DEFINE w == Min(caller[c].todo)
  <2>1. w \in caller[c].todo
    BY <1>0, <1>3, MinIsMember DEF ShutdownAsks, Shaped
  <2>2. w \in Handles /\ caller[c].todo \ {w} \in SUBSET Handles /\ caller[c].call = "Shutdown"
    BY <1>0, <1>3, <2>1, CallAt DEF ShutdownAsks, Shaped
  <2>3. Asked(w, "shutdown") /\ caller[c].pc = "closing"
        /\ caller' = [caller EXCEPT ![c].worker = w, ![c].todo = @ \ {w}]
    BY <1>3 DEF ShutdownAsks
  <2> HIDE DEF w
  <2>4. worker' \in Seq(WorkerRecords) /\ Handles' = Handles
    BY <2>2, <2>3, AskedType
  <2>5. caller' = [caller EXCEPT ![c] = [caller[c] EXCEPT !.pc = "closing", !.worker = w,
                      !.todo = caller[c].todo \ {w}]]
    BY <1>0, <2>3 DEF CallerStates
  <2>6. CallersOK /\ StillQueued
    BY <1>1, <2>2, <2>3, <2>4, <2>5, PcsOfEach DEF Writers
  <2> QED  BY <1>3, <2>4, <2>6, UntouchedTypes, QueueStays, TypesFromParts DEF ShutdownAsks
<1>4. CASE ShutdownWaited(c)
  <2>1. Handles' = Handles /\ caller[c].call = "Shutdown" /\ caller[c].pc = "closing"
    BY <1>4, CallAt DEF ShutdownWaited, Handles
  <2>2. caller' = [caller EXCEPT ![c] = [caller[c] EXCEPT !.pc = "closing", !.worker = None,
                      !.todo = caller[c].todo]]
    BY <1>0, <1>4 DEF ShutdownWaited, GotoFor, CallerStates
  <2>3. CallersOK /\ StillQueued
    BY <1>0, <1>1, <2>1, <2>2, PcsOfEach DEF Writers, Shaped
  <2> QED  BY <1>0, <1>4, <2>3, MoveTypes DEF ShutdownWaited
<1>5. CASE ShutdownReturns(c) \/ EmergencyReturns(c)
  <2>1. Handles' = Handles /\ worker' \in Seq(WorkerRecords) /\ caller[c].call \in Writers
    BY <1>5, CallAt DEF ShutdownReturns, EmergencyReturns, Handles, Writers, Types, TypeOK
  <2>2. CallersOK /\ GatesOK /\ Queued'
    BY <1>5, <2>1, LeavesShaped DEF ShutdownReturns, EmergencyReturns, Returns
  <2>3. TablesOK
    <3>1. CASE ShutdownReturns(c)
      BY <2>1, <3>1 DEF ShutdownReturns, TablesOK, tables, Types, TypeOK
    <3>2. CASE EmergencyReturns(c)
      BY <1>0, <2>1, <3>2, NoTablesOK DEF EmergencyReturns
    <3> QED  BY <1>5, <3>1, <3>2
  <2>4. HistoryOK
    BY <1>5, <2>1 DEF ShutdownReturns, EmergencyReturns, Returns, HistoryOK, Types, TypeOK
  <2> QED  BY <2>1, <2>2, <2>3, <2>4, TypesFromParts
<1>6. CASE EmergencyDrained(c)
  <2>1. Handles' = Handles /\ worker' \in Seq(WorkerRecords)
    BY <1>6, AbortAllChanges DEF EmergencyDrained, WorkersOK, Types, TypeOK
  <2>2. caller' = [caller EXCEPT ![c] = [caller[c] EXCEPT !.pc = "aborting",
                      !.worker = caller[c].worker, !.todo = registry]]
    BY <1>0, <1>6 DEF EmergencyDrained, CallerStates
  <2>3. CallersOK /\ StillQueued
    BY <1>0, <1>1, <1>6, <2>1, <2>2, PcsOfEach DEF EmergencyDrained, Writers, Shaped
  <2>4. TablesOK
    BY <1>6, <2>1 DEF EmergencyDrained, tables, TablesOK, Types, TypeOK
  <2>5. GatesOK /\ HistoryOK
    BY <1>6, <2>1, UntouchedTypes DEF EmergencyDrained
  <2> QED  BY <1>6, <2>1, <2>3, <2>4, <2>5, QueueStays, TypesFromParts DEF EmergencyDrained
<1>7. CASE EmergencyWaited(c)
  <2>1. Handles' = Handles /\ caller[c].call = "Emergency" /\ caller[c].pc = "aborting"
    BY <1>7, CallAt DEF EmergencyWaited, Handles
  <2>2. PICK todo \in SUBSET Handles : caller' = [caller EXCEPT ![c].todo = todo]
    <3>1. caller[c].todo \ {Min(caller[c].todo)} \in SUBSET Handles
      BY <1>0 DEF Shaped
    <3> QED  BY <1>7, <3>1 DEF EmergencyWaited
  <2>3. caller' = [caller EXCEPT ![c] = [caller[c] EXCEPT !.pc = "aborting",
                      !.worker = caller[c].worker, !.todo = todo]]
    BY <1>0, <2>1, <2>2 DEF CallerStates
  <2>4. CallersOK /\ StillQueued
    BY <1>0, <1>1, <2>1, <2>3, PcsOfEach DEF Writers, Shaped
  <2> QED  BY <1>0, <1>7, <2>4, MoveTypes DEF EmergencyWaited
<1>8. CASE HardAborts(c)
  <2> DEFINE w == Min(caller[c].todo)
  <2>1. w \in Handles
    BY <1>0, <1>8, MinIsMember DEF HardAborts, Shaped
  <2>2. PICK s \in Closing(worker[w].state) :
           worker' = [worker EXCEPT ![w].state = s, ![w].asked = "kill", ![w].subscriber = Nobody]
    BY <1>8 DEF HardAborts
  <2> HIDE DEF w
  <2>3. worker[w] \in WorkerRecords /\ s \in Workers
    BY <2>1, <2>2, HandleFacts, StatesAreWorkers
  <2> DEFINE e == [worker[w] EXCEPT !.state = s, !.asked = "kill", !.subscriber = Nobody]
  <2>4. e \in WorkerRecords
    BY <2>3 DEF WorkerRecords
  <2>5. worker' = [worker EXCEPT ![w] = e]
    BY <2>1, <2>2 DEF Types, TypeOK
  <2>6. worker' \in Seq(WorkerRecords) /\ Handles' = Handles
    BY <2>1, <2>4, <2>5, WorkerChanges DEF OnlyOne, WorkersOK, Types, TypeOK
  <2> QED  BY <1>8, <2>6, UntouchedTypes, QueueStays, TypesFromParts DEF HardAborts
<1> QED  BY <1>2, <1>3, <1>4, <1>5, <1>6, <1>7, <1>8 DEF WriterStep

-----------------------------------------------------------------------------
(* Type correctness, by the steps of a worker *)

\* What a worker's step tells callers: the reply of the command in hand.
LEMMA ReplyShaped ==
    ASSUME Types, Handles' = Handles, NEW w \in Handles,
           WorkerRestarts(w) \/ WorkerCloses(w)
    PROVE  CallersOK /\ StillQueued
<1>1. ASSUME NEW c \in Callers
      PROVE  \/ caller'[c] = caller[c]
             \/ /\ At(c, "restarting") /\ caller'[c] = [caller[c] EXCEPT !.pc = "retried"]
             \/ /\ caller[c].pc \in {"repair", "repairing"}
                /\ \E pc \in {"repaired", "broken"} : caller'[c] = [caller[c] EXCEPT !.pc = pc]
  BY <1>1 DEF WorkerRestarts, WorkerCloses, At
<1>2. ASSUME NEW c \in Callers
      PROVE  Shaped(caller'[c], Handles') /\ (At(c, "gate") => At(c, "gate")')
  <2>1. Shaped(caller[c], Handles) /\ caller[c] \in CallerStates
    BY DEF Types, Shaped
  <2>2. CASE caller'[c] = caller[c]
    BY <2>1, <2>2 DEF At
  <2>3. ASSUME NEW pc \in {"retried", "repaired", "broken"}, caller'[c] = [caller[c] EXCEPT !.pc = pc],
               IF pc = "retried" THEN At(c, "restarting") ELSE caller[c].pc \in {"repair", "repairing"}
        PROVE  Shaped(caller'[c], Handles') /\ ~At(c, "gate")
    <3>1. /\ caller'[c] \in CallerStates /\ caller'[c].pc = pc /\ caller'[c].call = caller[c].call
          /\ caller'[c].id = caller[c].id /\ caller'[c].runtime = caller[c].runtime
          /\ caller'[c].worker = caller[c].worker /\ caller'[c].todo = caller[c].todo
      BY <2>1, <2>3, PcsOfEach DEF CallerStates, Holding, Waits
    <3>2. pc \in PcsOf(caller[c].call) /\ caller[c].pc \notin {"closing", "aborting", "gate"}
      BY <2>3, CallAt, PcsOfEach DEF Waits, At
    <3>3. Mine(c) \in Handles
      BY <2>3, CallAt, HandleFacts DEF OnLease, Holding, Waits, At
    <3> QED  BY <2>1, <3>1, <3>2, <3>3 DEF Shaped, Mine, At
  <2> QED  BY <1>1, <2>2, <2>3
<1>3. caller' \in [Callers -> CallerStates]
  <2>1. \A c \in Callers : caller'[c] \in CallerStates
    BY <1>2 DEF Shaped
  <2> QED  BY <2>1 DEF WorkerRestarts, WorkerCloses
<1> QED  BY <1>2, <1>3 DEF CallersOK, StillQueued

\* Each step of a worker, and the end of a subscription, keeps the types.
LEMMA WorkerTypes ==
    ASSUME Types, NEW w \in Handles, WorkerStep(w) \/ SubscriptionEnds(w)
    PROVE  Types'
<1>0. worker[w] \in WorkerRecords /\ worker[w].state \in Workers
  BY HandleFacts
<1>1. worker' \in Seq(WorkerRecords) /\ Handles' = Handles
  <2>1. ASSUME NEW states \in SUBSET Workers, \E s \in states : worker' = [worker EXCEPT ![w].state = s]
        PROVE  worker' \in Seq(WorkerRecords) /\ Handles' = Handles
    BY <2>1, BecameType DEF Became
  <2>2. CASE WorkerStarts(w)
    BY <1>0, <2>1, <2>2, StatesAreWorkers DEF WorkerStarts
  <2>3. CASE WorkerRestarts(w)
    BY <1>0, <2>1, <2>3, StatesAreWorkers DEF WorkerRestarts
  <2>4. CASE WorkerCloses(w)
    BY <1>0, <2>1, <2>4, StatesAreWorkers DEF WorkerCloses, Became
  <2>5. CASE WorkerEnds(w)
    <3>1. /\ {s \in Stopped(worker[w].state) : CloseBounded => ~s.live} \in SUBSET Workers
          /\ Released(worker[w].state) \in SUBSET Workers
      BY <1>0, StatesAreWorkers
    <3> QED  BY <2>5, <3>1, BecameType DEF WorkerEnds
  <2>6. CASE SubscriptionEnds(w)
    <3> DEFINE e == [worker[w] EXCEPT !.subscriber = Nobody]
    <3>1. e \in WorkerRecords
      BY <1>0 DEF WorkerRecords
    <3>2. worker' = [worker EXCEPT ![w] = e]
      BY <2>6 DEF SubscriptionEnds
    <3> QED  BY <3>1, <3>2, WorkerChanges DEF OnlyOne, WorkersOK, Types, TypeOK
  <2> QED  BY <2>2, <2>3, <2>4, <2>5, <2>6 DEF WorkerStep
<1>2. CallersOK /\ StillQueued
  <2>1. CASE WorkerRestarts(w) \/ WorkerCloses(w)
    BY <1>1, <2>1, ReplyShaped
  <2>2. CASE UNCHANGED caller
    BY <1>1, <2>2, UntouchedTypes
  <2> QED  BY <2>1, <2>2 DEF WorkerStep, WorkerStarts, WorkerEnds, SubscriptionEnds
<1>3. UNCHANGED <<registry, tables, gate, lock, shutting, ended, lease, calls>>
  BY DEF WorkerStep, WorkerStarts, WorkerRestarts, WorkerCloses, WorkerEnds, SubscriptionEnds
<1> QED  BY <1>1, <1>2, <1>3, UntouchedTypes, QueueStays, TypesFromParts

\* Every step of the station keeps the types.
LEMMA TypesNext == Types /\ [Next]_vars => Types'
<1> SUFFICES ASSUME Types, [Next]_vars PROVE Types'
  OBVIOUS
<1>1. ASSUME NEW c \in Callers, CallStep(c) PROVE Types'
  BY <1>1, CallTypes
<1>2. ASSUME NEW c \in Callers, Proceed(c) PROVE Types'
  BY <1>2, GateTypes, LeaseTypes, SpawnTypes, AuthTypes, UseTypes, WriterTypes DEF Proceed
<1>3. ASSUME NEW w \in Handles, WorkerStep(w) \/ SubscriptionEnds(w) PROVE Types'
  BY <1>3, WorkerTypes
<1>4. CASE UNCHANGED vars
  BY <1>4 DEF vars, tables, Types, TypeOK, Queued, At, Handles
<1> QED  BY <1>1, <1>2, <1>3, <1>4 DEF Next

\* Every variable keeps its type, and a caller is only where its call takes it, concerned
\* with a worker that exists (lib.rs, every call of BrowserStation).
THEOREM TypeCorrect == Spec => []TypeOK
<1>1. Types => TypeOK
  BY DEF Types
<1> QED  BY <1>1, TypesInit, TypesNext, PTL DEF Spec

-----------------------------------------------------------------------------
(***************************************************************************)
(* The gate and the mutex.  Who is past the gate is one of its readers or  *)
(* its writer, and never both kinds at once; the mutex is held by the one  *)
(* call of lease() that has decided and not returned.  A writer has set    *)
(* shutting_down before it queued.                                         *)
(***************************************************************************)

Inside(c) == caller[c].pc \notin {"idle", "gate"}
Holds(c) == caller[c].call = "Lease" /\ caller[c].pc \in Waits \cup Opens

Gates ==
    /\ \A c \in Callers : c \in gate.readers <=> Inside(c) /\ caller[c].call \notin Writers
    /\ \A c \in Callers : gate.writer = c <=> Inside(c) /\ caller[c].call \in Writers
    /\ gate.writer # Nobody => gate.readers = {}
    /\ \A c \in Callers : lock = c <=> Holds(c)
    /\ \A c \in Callers : caller[c].call \in Writers => shutting
    /\ ended # {} => shutting

\* Nobody but c changes.
OthersStay(c) == \A d \in Callers \ {c} : caller'[d] = caller[d]

\* What a plain move changes of its caller, and that it changes no other.
LEMMA GotoFacts ==
    ASSUME Types, NEW c \in Callers, NEW pc, Goto(c, pc)
    PROVE  /\ caller'[c].pc = pc /\ caller'[c].call = caller[c].call /\ caller'[c].id = caller[c].id
           /\ caller'[c].runtime = caller[c].runtime /\ caller'[c].worker = caller[c].worker
           /\ caller'[c].todo = caller[c].todo /\ OthersStay(c)
BY DEF Types, TypeOK, CallerStates, Goto, OthersStay

\* What a move to another worker changes of its caller, and that it changes no other.
LEMMA GotoForFacts ==
    ASSUME Types, NEW c \in Callers, NEW pc, NEW w, GotoFor(c, pc, w)
    PROVE  /\ caller'[c].pc = pc /\ caller'[c].call = caller[c].call /\ caller'[c].id = caller[c].id
           /\ caller'[c].runtime = caller[c].runtime /\ caller'[c].worker = w
           /\ caller'[c].todo = caller[c].todo /\ OthersStay(c)
BY DEF Types, TypeOK, CallerStates, GotoFor, OthersStay

\* A caller that returns is idle, holds neither gate nor mutex, and nobody else is disturbed.
LEMMA LeavesFacts ==
    ASSUME Types, NEW c \in Callers, Leaves(c)
    PROVE  /\ caller'[c] = Idle /\ OthersStay(c)
           /\ gate'.readers = gate.readers \ {c}
           /\ gate'.writer = IF gate.writer = c THEN Nobody ELSE gate.writer
           /\ lock' = IF lock = c THEN Nobody ELSE lock
BY DEF Types, TypeOK, Leaves, OthersStay

\* A caller moves on behind the gate, with the mutex if it needs it.
LEMMA GatesMove ==
    ASSUME Types, Types', Gates, NEW c \in Callers, OthersStay(c), Inside(c), Inside(c)',
           caller'[c].call = caller[c].call, UNCHANGED <<gate, shutting, ended>>,
           \/ lock' = lock /\ (Holds(c)' <=> Holds(c))
           \/ lock = Nobody /\ lock' = c /\ Holds(c)'
    PROVE  Gates'
<1>1. \A d \in Callers \ {c} : (Inside(d)' <=> Inside(d)) /\ (Holds(d)' <=> Holds(d))
                               /\ caller'[d].call = caller[d].call
  BY DEF OthersStay, Inside, Holds
<1>2. Nobody \notin Callers
  BY StationAssumption
<1> QED  BY <1>1, <1>2 DEF Gates

\* A caller leaves, whatever it held.
LEMMA GatesLeave ==
    ASSUME Types, Types', Gates, NEW c \in Callers, Leaves(c), shutting' = shutting,
           ended' # ended => caller[c].call \in Writers
    PROVE  Gates'
<1>1. \A d \in Callers \ {c} : (Inside(d)' <=> Inside(d)) /\ (Holds(d)' <=> Holds(d))
                               /\ caller'[d].call = caller[d].call
  BY LeavesFacts DEF OthersStay, Inside, Holds
<1>2. ~Inside(c)' /\ ~Holds(c)' /\ caller'[c].call \notin Writers
  BY LeavesFacts DEF Inside, Holds, Idle, Writers
<1>3. Nobody \notin Callers /\ gate.writer \in Callers \cup {Nobody} /\ gate.readers \subseteq Callers
  BY StationAssumption DEF Types, TypeOK
<1>4. /\ gate'.readers = gate.readers \ {c}
      /\ gate'.writer = IF gate.writer = c THEN Nobody ELSE gate.writer
      /\ lock' = IF lock = c THEN Nobody ELSE lock
  BY LeavesFacts
<1> QED  BY <1>1, <1>2, <1>3, <1>4 DEF Gates

\* A caller joins the queue; a shutdown has set the flag.
LEMMA GatesQueue ==
    ASSUME Types, Types', Gates, NEW c \in Callers, At(c, "idle"), NEW r, Queues(c, r), r.pc = "gate",
           UNCHANGED <<lock, ended>>, shutting => shutting', r.call \in Writers => shutting'
    PROVE  Gates'
<1>1. \A d \in Callers : caller'[d] = IF d = c THEN r ELSE caller[d]
  BY DEF Queues, Types, TypeOK
<1>2. gate'.readers = gate.readers /\ gate'.writer = gate.writer
  BY DEF Queues, Types, TypeOK
<1>3. /\ \A d \in Callers : (Inside(d)' <=> Inside(d)) /\ (Holds(d)' <=> Holds(d))
      /\ \A d \in Callers : Inside(d) => caller'[d] = caller[d]
      /\ ~Inside(c)
  BY <1>1 DEF Inside, Holds, At, Waits, Opens
<1> QED  BY <1>1, <1>2, <1>3 DEF Gates

\* Callers go on with what they were doing behind the gate, or do not move.
LEMMA GatesStay ==
    ASSUME Types, Types', Gates, UNCHANGED <<gate, lock, shutting, ended>>,
           \A c \in Callers : /\ Inside(c)' <=> Inside(c)
                              /\ Holds(c)' <=> Holds(c)
                              /\ caller'[c].call = caller[c].call
    PROVE  Gates'
BY DEF Gates

\* A call that fails gives back the gate and the mutex and leaves the rest of the gate alone.
LEMMA GatesFails ==
    ASSUME Types, Types', Gates, NEW c \in Callers, Fails(c),
           caller[c].pc \in {"evict", "spawn", "dispose"}, UNCHANGED <<shutting, ended>>
    PROVE  Gates'
<1>1. CASE caller[c].call = "Lease"
  BY <1>1, GatesLeave DEF Fails
<1>2. CASE caller[c].call # "Lease"
  <2>1. Goto(c, "unreserve") /\ UNCHANGED <<gate, lock>>
    BY <1>2 DEF Fails
  <2> QED  BY <1>2, <2>1, GotoFacts, GatesMove DEF Inside, Holds
<1> QED  BY <1>1, <1>2

\* Starting a call gives nobody the gate or the mutex.
LEMMA GatesCall ==
    ASSUME Types, Types', Gates, NEW c \in Callers, CallStep(c)
    PROVE  Gates'
<1>1. CASE CallOnIdentity(c)
  <2>1. PICK call \in OnIdentity, id \in Identities, runtime \in Runtimes :
           /\ At(c, "idle")
           /\ Queues(c, [Idle EXCEPT !.pc = "gate", !.call = call, !.id = id,
                                     !.runtime = runtime])
           /\ UNCHANGED <<lock, shutting, ended>>
    BY <1>1 DEF CallOnIdentity, Begins
  <2> QED  BY <2>1, GatesQueue DEF Idle, OnIdentity, Writers
<1>2. CASE CallOnLease(c)
  <2>1. PICK call \in OnLease :
           /\ At(c, "idle")
           /\ Queues(c, [Idle EXCEPT !.pc = "gate", !.call = call, !.worker = lease[c]])
           /\ UNCHANGED <<lock, shutting, ended>>
    BY <1>2 DEF CallOnLease, Begins
  <2> QED  BY <2>1, GatesQueue DEF Idle, OnLease, Writers
<1>3. CASE CallShutdown(c)
  BY <1>3, GatesQueue DEF CallShutdown, Begins, Idle
<1>4. CASE CallEmergency(c)
  BY <1>4, GatesQueue DEF CallEmergency, Begins, Idle
<1>5. CASE DropsLease(c)
  BY <1>5, GatesStay DEF DropsLease, Inside, Holds
<1>6. CASE Cancel(c)
  BY <1>6, GatesLeave DEF Cancel
<1> QED  BY <1>1, <1>2, <1>3, <1>4, <1>5, <1>6 DEF CallStep

\* A caller enters only where the gate is open to it: readers beside readers, a writer alone.
LEMMA GatesEnter ==
    ASSUME Types, Types', Gates, NEW c \in Callers, Enters(c) \/ TurnedAway(c)
    PROVE  Gates'
<1>1. CASE Enters(c)
  <2>1. gate.waiting \in Seq(Callers) /\ gate.waiting # <<>> /\ c = Head(gate.waiting) /\ Queued
    BY <1>1 DEF Enters, Granted, Types, TypeOK
  <2>2. Len(gate.waiting) \in Nat \ {0} /\ c = gate.waiting[1]
    BY <2>1, EmptySeq
  <2>3. caller[c].pc = "gate" /\ ~Inside(c) /\ ~Holds(c)
    BY <2>1, <2>2 DEF Queued, At, Inside, Holds, Waits, Opens
  <2>4. caller[c].call \in Calls
    BY <2>3, CallAt DEF Types, TypeOK, CallerStates
  <2>5. /\ caller'[c].pc = Entry[caller[c].call] /\ caller'[c].call = caller[c].call
        /\ OthersStay(c)
    BY <1>1, GotoFacts DEF Enters
  <2>6. Entry[caller[c].call] \in {"decide", "reserve", "take", "session", "subscribe", "drained"}
    BY <2>4 DEF Entry, Calls, OnIdentity, OnLease, Writers
  <2>7. Inside(c)' /\ ~Holds(c)'
    BY <2>5, <2>6 DEF Inside, Holds, Waits, Opens
  <2>8. \A d \in Callers \ {c} : (Inside(d)' <=> Inside(d)) /\ (Holds(d)' <=> Holds(d))
                                 /\ caller'[d].call = caller[d].call
    BY <2>5 DEF OthersStay, Inside, Holds
  <2>9. /\ gate.writer = Nobody /\ Nobody \notin Callers
        /\ caller[c].call \in Writers =>
              gate.readers = {} /\ gate'.readers = {} /\ gate'.writer = c
        /\ caller[c].call \notin Writers =>
              gate'.readers = gate.readers \cup {c} /\ gate'.writer = Nobody
        /\ UNCHANGED <<lock, shutting, ended>>
    BY <1>1, StationAssumption DEF Enters, Granted, Types, TypeOK
  <2> QED  BY <2>3, <2>5, <2>7, <2>8, <2>9 DEF Gates
<1>2. CASE TurnedAway(c)
  BY <1>2, GatesLeave DEF TurnedAway
<1> QED  BY <1>1, <1>2

\* lease() keeps the gate, and the mutex where it must, in each step up to the spawn.
LEMMA GatesLease ==
    ASSUME Types, Types', Gates, NEW c \in Callers, LeaseStep(c)
    PROVE  Gates'
<1> USE DEF Deciding, At
<1>1. CASE LeaseRefused(c) \/ LeaseReuses(c) \/ Settled(c) \/ AtCapacity(c)
  BY <1>1, GatesLeave DEF LeaseRefused, LeaseReuses, Settled, AtCapacity, TakesLease
<1>2. CASE LeaseRepairs(c) \/ LeaseAwaits(c) \/ LeaseRetires(c)
  <2>1. /\ caller[c].pc = "decide" /\ lock = Nobody /\ lock' = c
        /\ \E pc \in {"repair", "settle", "retire"} : GotoFor(c, pc, Found(c))
        /\ UNCHANGED <<gate, shutting, ended>>
    BY <1>2 DEF LeaseRepairs, LeaseAwaits, LeaseRetires, Considers, Retires, Locks
  <2> QED  BY <2>1, CallAt, GotoForFacts, GatesMove DEF Inside, Holds, Waits, Opens
<1>3. CASE LeaseMisses(c)
  BY <1>3, CallAt, GotoFacts, GatesMove DEF LeaseMisses, Locks, Inside, Holds, Opens
<1>4. CASE RestartBegins(c)
  BY <1>4, GotoFacts, GatesMove DEF RestartBegins, Inside, Holds, Waits
<1>5. CASE GivesUp(c)
  BY <1>5, GotoForFacts, GatesMove DEF GivesUp, Retires, Inside, Holds, Waits, Opens
<1>6. CASE Retired(c)
  BY <1>6, GotoForFacts, GatesMove DEF Retired, Inside, Holds, Opens
<1>7. CASE HasRoom(c)
  BY <1>7, GotoFacts, GatesMove DEF HasRoom, Inside, Holds, Opens
<1>8. CASE MakesRoom(c)
  BY <1>8, GotoForFacts, GatesMove DEF MakesRoom, Evicts, Inside, Holds, Opens
<1> QED  BY <1>1, <1>2, <1>3, <1>4, <1>5, <1>6, <1>7, <1>8 DEF LeaseStep

\* The gate and the mutex stay as they must around a spawn.
LEMMA GatesSpawn ==
    ASSUME Types, Types', Gates, NEW c \in Callers, SpawnStep(c)
    PROVE  Gates'
<1> USE DEF At, Inside, Holds, Opens
<1>1. CASE Evicted(c)
  BY <1>1, GotoForFacts, GatesMove, GatesFails DEF Evicted
<1>2. CASE SpawnFails(c) \/ Disposed(c)
  BY <1>2, GatesFails DEF SpawnFails, Disposed
<1>3. CASE Spawns(c)
  BY <1>3, GotoForFacts, GatesMove, GatesFails DEF Spawns
<1>4. CASE NewIsLeased(c) \/ NewFails(c)
  <2>1. caller[c].pc = "settleNew" /\ (Leaves(c) \/ Disposes(c)) /\ UNCHANGED <<shutting, ended>>
    BY <1>4 DEF NewIsLeased, NewFails, TakesLease
  <2> QED  BY <2>1, GotoFacts, GatesMove, GatesLeave DEF Disposes
<1>5. CASE NewIsVisible(c)
  BY <1>5, GotoFacts, GatesMove DEF NewIsVisible
<1> QED  BY <1>1, <1>2, <1>3, <1>4, <1>5 DEF SpawnStep

\* The authentication calls keep the gate and hold the mutex only where the code does.
LEMMA GatesAuth ==
    ASSUME Types, Types', Gates, NEW c \in Callers, AuthStep(c)
    PROVE  Gates'
<1> USE DEF Deciding, At
<1>1. CASE AuthRefused(c) \/ Installs(c) \/ Unreserves(c) \/ NoAuthToTake(c)
  BY <1>1, GatesLeave DEF AuthRefused, Installs, Unreserves, NoAuthToTake
<1>2. CASE AuthReserves(c)
  <2>1. /\ caller[c].pc = "reserve" /\ UNCHANGED <<gate, lock, shutting, ended>>
        /\ (\E w : GotoFor(c, "evict", w)) \/ Goto(c, "spawn")
    BY <1>2 DEF AuthReserves, Evicts
  <2> QED  BY <2>1, CallAt, GotoFacts, GotoForFacts, GatesMove DEF Inside, Holds
<1>3. CASE Navigated(c)
  <2>1. /\ caller[c].pc = "navigate" /\ UNCHANGED <<gate, lock, shutting, ended>>
        /\ \E pc \in {"install", "dispose"} : Goto(c, pc)
    BY <1>3 DEF Navigated, Disposes
  <2> QED  BY <2>1, CallAt, GotoFacts, GatesMove DEF Inside, Holds
<1>4. CASE TakesAuth(c)
  <2>1. /\ caller[c].pc = "take" /\ UNCHANGED <<gate, lock, shutting, ended>>
        /\ OthersStay(c) /\ caller'[c].pc = "close" /\ caller'[c].call = caller[c].call
    BY <1>4 DEF TakesAuth, OthersStay, Types, TypeOK, CallerStates
  <2> QED  BY <2>1, CallAt, GatesMove DEF Inside, Holds
<1>5. CASE AuthClosed(c)
  BY <1>5, CallAt, GotoFacts, GatesMove DEF AuthClosed, Inside, Holds
<1> QED  BY <1>1, <1>2, <1>3, <1>4, <1>5 DEF AuthStep

\* A call on a lease keeps its place behind the gate.
LEMMA GatesUse ==
    ASSUME Types, Types', Gates, NEW c \in Callers, UseStep(c)
    PROVE  Gates'
<1> USE DEF At
<1>1. CASE UseEnds(c) \/ SubscribeEnds(c)
  BY <1>1, GatesLeave DEF UseEnds, SubscribeEnds
<1>2. CASE UseBegins(c) \/ UseRestarts(c) \/ SubscribeBegins(c)
  <2>1. /\ caller[c].pc \in {"session", "using", "subscribe"}
        /\ \E pc \in {"using", "restarting", "subscribed"} : Goto(c, pc)
        /\ UNCHANGED <<gate, lock, shutting, ended>>
    BY <1>2 DEF UseBegins, UseRestarts, SubscribeBegins
  <2> QED  BY <2>1, CallAt, GotoFacts, GatesMove DEF Inside, Holds
<1> QED  BY <1>1, <1>2 DEF UseStep

\* A shutdown keeps the gate to itself until it returns.
LEMMA GatesWriter ==
    ASSUME Types, Types', Gates, NEW c \in Callers, WriterStep(c)
    PROVE  Gates'
<1> USE DEF Deciding, At
<1>1. CASE ShutdownReturns(c) \/ EmergencyReturns(c)
  BY <1>1, CallAt, GatesLeave DEF ShutdownReturns, EmergencyReturns, Returns, Writers
<1>2. CASE HardAborts(c)
  BY <1>2, GatesStay DEF HardAborts, Inside, Holds
<1>3. CASE \/ ShutdownDrained(c) \/ ShutdownAsks(c) \/ ShutdownWaited(c)
           \/ EmergencyDrained(c) \/ EmergencyWaited(c)
  <2>1. /\ caller[c].pc \in {"drained", "closing", "aborting"} /\ OthersStay(c)
        /\ caller'[c].pc \in {"closing", "aborting"} /\ caller'[c].call = caller[c].call
        /\ UNCHANGED <<gate, lock, shutting, ended>>
    BY <1>3 DEF ShutdownDrained, ShutdownAsks, ShutdownWaited, EmergencyDrained,
                EmergencyWaited, GotoFor, OthersStay, Types, TypeOK, CallerStates
  <2> QED  BY <2>1, CallAt, GatesMove DEF Inside, Holds, Writers
<1> QED  BY <1>1, <1>2, <1>3 DEF WriterStep

\* Workers touch neither the gate nor the mutex.
LEMMA GatesWorker ==
    ASSUME Types, Types', Gates, NEW w \in Handles, WorkerStep(w) \/ SubscriptionEnds(w)
    PROVE  Gates'
<1>1. UNCHANGED <<gate, lock, shutting, ended>>
  BY DEF WorkerStep, WorkerStarts, WorkerRestarts, WorkerCloses, WorkerEnds, SubscriptionEnds
<1>2. ASSUME NEW c \in Callers
      PROVE  /\ Inside(c)' <=> Inside(c)
             /\ Holds(c)' <=> Holds(c)
             /\ caller'[c].call = caller[c].call
  <2>1. \/ caller'[c] = caller[c]
        \/ /\ At(c, "restarting") /\ caller'[c] = [caller[c] EXCEPT !.pc = "retried"]
        \/ /\ caller[c].pc \in {"repair", "repairing"}
           /\ \E pc \in {"repaired", "broken"} : caller'[c] = [caller[c] EXCEPT !.pc = pc]
    BY DEF WorkerStep, WorkerStarts, WorkerRestarts, WorkerCloses, WorkerEnds, SubscriptionEnds, At
  <2>2. caller[c] \in CallerStates
    BY DEF Types, TypeOK
  <2> QED  BY <2>1, <2>2, CallAt DEF CallerStates, Inside, Holds, Waits, Opens, At
<1> QED  BY <1>1, <1>2, GatesStay

\* Nobody is behind the gate at the start.
LEMMA GatesInit == Init => Gates
BY StationAssumption DEF Init, Gates, Inside, Holds, Idle, Writers

\* Every step of the station keeps the gate and the mutex as they must be.
LEMMA GatesNext == Types /\ Types' /\ Gates /\ [Next]_vars => Gates'
<1> SUFFICES ASSUME Types, Types', Gates, [Next]_vars PROVE Gates'
  OBVIOUS
<1>1. ASSUME NEW c \in Callers, CallStep(c) PROVE Gates'
  BY <1>1, GatesCall
<1>2. ASSUME NEW c \in Callers, Proceed(c) PROVE Gates'
  BY <1>2, GatesEnter, GatesLease, GatesSpawn, GatesAuth, GatesUse, GatesWriter DEF Proceed
<1>3. ASSUME NEW w \in Handles, WorkerStep(w) \/ SubscriptionEnds(w) PROVE Gates'
  BY <1>3, GatesWorker
<1>4. CASE UNCHANGED vars
  BY <1>4 DEF vars, Gates, Inside, Holds
<1> QED  BY <1>1, <1>2, <1>3, <1>4 DEF Next

-----------------------------------------------------------------------------
(***************************************************************************)
(* What a step does to a worker, whoever takes it.                         *)
(***************************************************************************)

\* It holds no browser and will not start one.
Quiet(w) ==
    /\ ~Live(w) /\ Phase(w) \in {"starting", "closing", "stopped", "released"}
    /\ Phase(w) = "starting" => worker[w].asked = "abort"

\* Its identity is never rewritten; what was released or quiet stays so; it closes only when
\* it was told to, and ends with a browser only if closes are unbounded.
Evolves(w) ==
    /\ worker'[w].id = worker[w].id
    /\ Phase(w) = "released" => Phase(w)' = "released"
    /\ Phase(w) # "starting" => Phase(w)' # "starting"
    /\ Quiet(w) => Quiet(w)'
    /\ (Phase(w) \in {"starting", "released"} => ~Live(w))
       => (Phase(w)' \in {"starting", "released"} => ~Live(w)')
    /\ worker'[w].asked = "nothing"
       => /\ worker[w].asked = "nothing"
          /\ Phase(w) \notin {"closing", "stopped"} => Phase(w)' \notin {"closing", "stopped"}
    /\ CloseBounded /\ Phase(w)' = "stopped" /\ Live(w)' => Phase(w) = "stopped" /\ Live(w)

Evolution ==
    /\ Handles \subseteq Handles' /\ \A w \in Handles : Evolves(w)
    /\ \A n \in Handles' \ Handles : worker'[n].state = Spawned
    /\ Handles' = Handles \/ \E c \in Callers : Spawns(c)

\* One that is asked, subscribed to, or not touched at all.
LEMMA SameEvolves ==
    ASSUME NEW w, UNCHANGED <<worker[w].state, worker[w].id>>,
           worker[w].asked = "abort" => worker'[w].asked = "abort",
           worker'[w].asked = "nothing" => worker[w].asked = "nothing"
    PROVE  Evolves(w)
BY DEF Evolves, Quiet, Live, Phase

\* A step that writes one worker is an evolution of all when it is one of that worker.
LEMMA OneEvolves ==
    ASSUME NEW w \in Handles, OnlyOne(w), Evolves(w)
    PROVE  Evolution
BY SameEvolves DEF Evolution, OnlyOne, WorkersOK

\* Asking a worker to end is an evolution: nothing but what it was asked changes.
LEMMA AskedEvolves ==
    ASSUME Types, NEW w \in Handles, NEW what \in {"shutdown", "abort"}, Asked(w, what)
    PROVE  Evolution
<1>1. /\ OnlyOne(w) /\ UNCHANGED <<worker[w].state, worker[w].id>>
      /\ worker'[w].asked = IF worker[w].asked = "nothing" THEN what ELSE worker[w].asked
  BY AskedChanges DEF Types, TypeOK
<1> QED  BY <1>1, SameEvolves, OneEvolves

\* A step that writes no worker is an evolution.
LEMMA UnchangedEvolves == ASSUME UNCHANGED worker PROVE Evolution
BY SameEvolves DEF Evolution, Handles

\* A command failed, a restart began.
LEMMA BecameEvolves ==
    ASSUME Types, NEW w \in Handles,
           NEW states \in {Degraded(worker[w].state), Restarting(worker[w].state)},
           Became(w, states)
    PROVE  Evolution
<1>1. states \in SUBSET Workers
  BY HandleFacts, StatesAreWorkers
<1>2. OnlyOne(w) /\ worker'[w].state \in states /\ UNCHANGED <<worker[w].id, worker[w].asked>>
  BY <1>1, BecameChanges DEF Types, TypeOK
<1>3. Phase(w) \in {"ready", "degraded"} /\ Phase(w)' \in {"degraded", "restarting"}
  BY <1>2 DEF Phase, Degraded, Restarting, Turned
<1>4. Evolves(w)
  BY <1>2, <1>3 DEF Evolves, Quiet, Phase
<1> QED  BY <1>2, <1>4, OneEvolves

\* In every step of a caller the workers only evolve.
LEMMA CallerEvolves ==
    ASSUME Types, NEW c \in Callers, CallStep(c) \/ Proceed(c)
    PROVE  Evolution
<1> USE DEF Deciding, At
<1>1. CASE UNCHANGED worker
  BY <1>1, UnchangedEvolves
<1>2. ASSUME NEW ws, AbortAll(ws) PROVE Evolution
  <2>1. /\ WorkersOK
        /\ \A w \in Handles : /\ UNCHANGED <<worker[w].state, worker[w].id>>
                              /\ worker'[w].asked = IF w \in ws THEN "abort" ELSE worker[w].asked
    BY <1>2, AbortAllChanges DEF Types, TypeOK
  <2> QED  BY <2>1, SameEvolves DEF Evolution, WorkersOK
<1>3. CASE CallStep(c)
  <2>1. CASE Became(Mine(c), Degraded(worker[Mine(c)].state))
             /\ caller[c].pc \in {"using", "retried"}
    <3>1. Mine(c) \in Handles
      BY <2>1, CallAt, HandleFacts DEF OnLease
    <3> QED  BY <2>1, <3>1, BecameEvolves
  <2> QED  BY <1>1, <1>2, <1>3, <2>1
           DEF CallStep, CallOnIdentity, CallOnLease, CallShutdown, CallEmergency, DropsLease, Cancel
<1>4. CASE Enters(c) \/ TurnedAway(c)
  BY <1>1, <1>4 DEF Enters, TurnedAway
<1>5. CASE LeaseStep(c)
  <2>1. caller[c].pc = "decide" /\ Found(c) # None => Found(c) \in Handles
    BY CallAt DEF Found, Types, TypeOK, Shaped, OnIdentity
  <2>2. CASE LeaseRetires(c)
    <3>1. Found(c) \in Handles /\ Asked(Found(c), "shutdown")
      BY <2>1, <2>2 DEF LeaseRetires, Considers, Retires
    <3> QED  BY <3>1, AskedEvolves
  <2>3. CASE GivesUp(c)
    <3>1. Mine(c) \in Handles /\ Asked(Mine(c), "shutdown")
      BY <2>3, HandleFacts DEF GivesUp, Retires, Holding, Waits
    <3> QED  BY <3>1, AskedEvolves
  <2>4. CASE MakesRoom(c)
    <3>1. PICK id \in Resident : Asked(slot[id], "shutdown")
      BY <2>4 DEF MakesRoom, Idles, Evicts
    <3> QED  BY <3>1, HandleFacts, AskedEvolves
  <2>5. CASE RestartBegins(c)
    <3>1. Mine(c) \in Handles
      BY <2>5, HandleFacts DEF RestartBegins, Holding, Waits
    <3> QED  BY <2>5, <3>1, BecameEvolves DEF RestartBegins
  <2> QED  BY <1>1, <1>5, <2>2, <2>3, <2>4, <2>5
           DEF LeaseStep, LeaseRefused, LeaseReuses, LeaseRepairs, LeaseAwaits, LeaseMisses, Settled,
               Retired, HasRoom, AtCapacity
<1>6. CASE SpawnStep(c)
  <2>1. CASE Spawns(c)
    <3>1. PICK n : n = Len(worker) + 1
      OBVIOUS
    <3>2. /\ Handles' = Handles \cup {n} /\ worker'[n] = New(c)
          /\ \A v \in Handles : worker'[v] = worker[v]
      BY <2>1, <3>1, SpawnChanges
    <3>3. New(c).state = Spawned
      BY DEF New
    <3> QED  BY <2>1, <3>2, <3>3, SameEvolves DEF Evolution
  <2>2. CASE caller[c].pc = "settleNew" /\ Disposes(c)
    BY <2>2, HandleFacts, AskedEvolves DEF Disposes, Holding
  <2> QED  BY <1>1, <1>6, <2>1, <2>2
           DEF SpawnStep, Evicted, SpawnFails, NewIsLeased, NewIsVisible, NewFails, Disposed
<1>7. CASE AuthStep(c)
  <2>1. CASE AuthReserves(c)
    <3>1. CASE UNCHANGED worker
      BY <3>1, UnchangedEvolves
    <3>2. ASSUME NEW id \in Victims(c), Evicts(c, id) PROVE Evolution
      <4>1. id \in Resident
        BY <2>1, <3>2, CallAt, HandleFacts DEF AuthReserves, Victims, Idles, Found, Resident, OnIdentity
      <4> QED  BY <3>2, <4>1, HandleFacts, AskedEvolves DEF Evicts
    <3> QED  BY <2>1, <3>1, <3>2 DEF AuthReserves
  <2>2. CASE Navigated(c)
    <3>0. PICK w : w = Mine(c)
      OBVIOUS
    <3>1. w \in Handles /\ worker[w] \in WorkerRecords
      BY <2>2, <3>0, HandleFacts DEF Navigated, Holding
    <3>2. CASE Disposes(c)
      BY <3>0, <3>1, <3>2, AskedEvolves DEF Disposes
    <3>3. ASSUME NEW s \in Degraded(worker[w].state),
                 worker' = [worker EXCEPT ![w].state = s, ![w].asked = "shutdown"]
          PROVE  Evolution
      <4> DEFINE e == [worker[w] EXCEPT !.state = s, !.asked = "shutdown"]
      <4>1. s \in Workers
        BY <3>1, <3>3, HandleFacts, StatesAreWorkers
      <4>2. e \in WorkerRecords /\ e.id = worker[w].id /\ e.state = s /\ e.asked = "shutdown"
        BY <3>1, <4>1 DEF WorkerRecords
      <4>3. worker' = [worker EXCEPT ![w] = e]
        BY <3>1, <3>3 DEF Types, TypeOK
      <4> HIDE DEF e
      <4>4. OnlyOne(w) /\ worker'[w] = e
        BY <3>1, <4>2, <4>3, WorkerChanges DEF Types, TypeOK
      <4>5. Phase(w) = "ready" /\ Phase(w)' = "degraded"
        BY <3>3, <4>2, <4>4 DEF Phase, Degraded, Turned
      <4>6. Evolves(w)
        BY <4>2, <4>4, <4>5 DEF Evolves, Quiet, Phase
      <4> QED  BY <3>1, <4>4, <4>6, OneEvolves
    <3> QED  BY <1>1, <2>2, <3>0, <3>2, <3>3 DEF Navigated
  <2>3. CASE TakesAuth(c)
    <3>1. PICK id \in OpenAuth(c) : Asked(auth[id], "shutdown")
      BY <2>3 DEF TakesAuth
    <3>2. auth[id] \in Handles
      BY HandleFacts DEF OpenAuth, Types, TypeOK
    <3> QED  BY <3>1, <3>2, AskedEvolves
  <2> QED  BY <1>1, <1>7, <2>1, <2>2, <2>3
           DEF AuthStep, AuthRefused, Installs, Unreserves, NoAuthToTake, AuthClosed
<1>8. CASE UseStep(c)
  <2>1. CASE Became(Mine(c), Degraded(worker[Mine(c)].state)) /\ caller[c].pc \in {"using", "retried"}
    <3>1. Mine(c) \in Handles
      BY <2>1, CallAt, HandleFacts DEF OnLease
    <3> QED  BY <2>1, <3>1, BecameEvolves
  <2>2. CASE UseRestarts(c)
    <3>1. Mine(c) \in Handles
      BY <2>2, CallAt, HandleFacts DEF UseRestarts, OnLease
    <3> QED  BY <2>2, <3>1, BecameEvolves DEF UseRestarts
  <2>3. CASE SubscribeBegins(c)
    <3> DEFINE e == [worker[Mine(c)] EXCEPT !.subscriber = c]
    <3>1. Mine(c) \in Handles
      BY <2>3, CallAt, HandleFacts DEF SubscribeBegins, OnLease
    <3>2. e \in WorkerRecords /\ e.id = worker[Mine(c)].id
          /\ e.state = worker[Mine(c)].state /\ e.asked = worker[Mine(c)].asked
      BY <3>1, HandleFacts DEF WorkerRecords
    <3>3. worker' = [worker EXCEPT ![Mine(c)] = e]
      BY <2>3 DEF SubscribeBegins
    <3> HIDE DEF e
    <3>4. OnlyOne(Mine(c)) /\ worker'[Mine(c)] = e
      BY <3>1, <3>2, <3>3, WorkerChanges DEF Types, TypeOK
    <3> QED  BY <3>1, <3>2, <3>4, SameEvolves, OneEvolves
  <2> QED  BY <1>1, <1>8, <2>1, <2>2, <2>3 DEF UseStep, UseBegins, UseEnds, SubscribeEnds
<1>9. CASE WriterStep(c)
  <2>1. CASE ShutdownAsks(c)
    <3>1. Min(caller[c].todo) \in Handles
      BY <2>1, HandleFacts, MinIsMember DEF ShutdownAsks, Types, Shaped
    <3> QED  BY <2>1, <3>1, AskedEvolves DEF ShutdownAsks
  <2>2. CASE HardAborts(c)
    <3>0. PICK w : w = Min(caller[c].todo)
      OBVIOUS
    <3>1. w \in Handles
      BY <2>2, <3>0, HandleFacts, MinIsMember DEF HardAborts, Types, Shaped
    <3>2. PICK s \in Closing(worker[w].state) :
             worker[w].asked = "abort" /\ worker' = [worker EXCEPT ![w].state = s, ![w].asked = "kill", ![w].subscriber = Nobody]
      BY <2>2, <3>0 DEF HardAborts
    <3> DEFINE e == [worker[w] EXCEPT !.state = s, !.asked = "kill", !.subscriber = Nobody]
    <3>3. worker[w] \in WorkerRecords /\ s \in Workers
      BY <3>1, <3>2, HandleFacts, StatesAreWorkers
    <3>4. e \in WorkerRecords /\ e.id = worker[w].id /\ e.state = s /\ e.asked = "kill"
      BY <3>3 DEF WorkerRecords
    <3>5. worker' = [worker EXCEPT ![w] = e]
      BY <3>1, <3>2 DEF Types, TypeOK
    <3> HIDE DEF e
    <3>6. OnlyOne(w) /\ worker'[w] = e
      BY <3>1, <3>4, <3>5, WorkerChanges DEF Types, TypeOK
    <3>7. /\ Phase(w) \notin {"stopped", "released"} /\ Phase(w)' = "closing"
          /\ Live(w)' => Live(w)
      BY <3>2, <3>4, <3>6 DEF Phase, Live, Closing, Turned
    <3>8. Evolves(w)
      BY <3>4, <3>6, <3>7 DEF Evolves, Quiet
    <3> QED  BY <3>1, <3>6, <3>8, OneEvolves
  <2> QED  BY <1>1, <1>2, <1>9, <2>1, <2>2
           DEF WriterStep, ShutdownDrained, ShutdownWaited, ShutdownReturns, EmergencyDrained,
               EmergencyWaited, EmergencyReturns
<1> QED  BY <1>3, <1>4, <1>5, <1>6, <1>7, <1>8, <1>9 DEF Proceed

\* In every step of a worker it only evolves, and the others stay.
LEMMA WorkerEvolves ==
    ASSUME Types, NEW w \in Handles, WorkerStep(w) \/ SubscriptionEnds(w)
    PROVE  Evolution
<1>0. worker[w] \in WorkerRecords /\ worker[w].state \in Workers
  BY HandleFacts
\* One state of the worker changes.
<1>1. ASSUME NEW states \in SUBSET Workers, Became(w, states)
      PROVE  OnlyOne(w) /\ worker'[w].state \in states /\ UNCHANGED <<worker[w].id, worker[w].asked>>
  BY <1>1, BecameChanges DEF Types, TypeOK
<1>2. CASE WorkerStarts(w)
  <2>1. Became(w, Started(worker[w].state)) /\ worker[w].asked # "abort"
    BY <1>2 DEF WorkerStarts, Became
  <2>2. OnlyOne(w) /\ worker'[w].state \in Started(worker[w].state)
        /\ UNCHANGED <<worker[w].id, worker[w].asked>>
    BY <1>0, <1>1, <2>1, StatesAreWorkers
  <2>3. Phase(w) = "starting" /\ Phase(w)' \in {"ready", "degraded"}
    <3> DEFINE x == worker[w].state
    <3>1. \A y \in [phase : {"degraded"}, condemned : {TRUE}, live : BOOLEAN] : y.phase = "degraded"
      OBVIOUS
    <3>2. Turned(x, "ready", TRUE).phase = "ready"
      BY DEF Turned
    <3>3. \A y \in Started(x) :
             /\ x.phase = "starting"
             /\ \/ y = Turned(x, "ready", TRUE)
                \/ y \in [phase : {"degraded"}, condemned : {TRUE}, live : BOOLEAN]
      BY DEF Started
    <3>4. worker'[w].state \in Started(x)
      BY <2>2
    <3> HIDE DEF x
    <3>5. x.phase = "starting" /\ worker'[w].state.phase \in {"ready", "degraded"}
      BY <3>1, <3>2, <3>3, <3>4
    <3> QED  BY <3>5 DEF Phase, x
  <2>4. Evolves(w)
    BY <2>1, <2>2, <2>3 DEF Evolves, Quiet, Phase
  <2> QED  BY <2>2, <2>4, OneEvolves
<1>3. CASE WorkerRestarts(w)
  <2>1. Became(w, Restarted(worker[w].state))
    BY <1>3 DEF WorkerRestarts, Became
  <2>2. OnlyOne(w) /\ worker'[w].state \in Restarted(worker[w].state)
        /\ UNCHANGED <<worker[w].id, worker[w].asked>>
    BY <1>0, <1>1, <2>1, StatesAreWorkers
  <2>3. Phase(w) = "restarting" /\ Phase(w)' \in {"ready", "degraded"}
    BY <2>2 DEF Phase, Restarted, Turned
  <2>4. Evolves(w)
    BY <2>2, <2>3 DEF Evolves, Quiet, Phase
  <2> QED  BY <2>2, <2>4, OneEvolves
<1>4. CASE WorkerCloses(w)
  <2>1. Became(w, Closing(worker[w].state)) /\ worker[w].asked # "nothing"
    BY <1>4 DEF WorkerCloses
  <2>2. OnlyOne(w) /\ worker'[w].state \in Closing(worker[w].state)
        /\ UNCHANGED <<worker[w].id, worker[w].asked>>
    BY <1>0, <1>1, <2>1, StatesAreWorkers
  <2>3. /\ Phase(w) \notin {"stopped", "released"} /\ Phase(w)' = "closing"
        /\ Live(w)' => Live(w)
    BY <2>2 DEF Phase, Live, Closing, Turned
  <2>4. Evolves(w)
    BY <2>1, <2>2, <2>3 DEF Evolves, Quiet
  <2> QED  BY <2>2, <2>4, OneEvolves
<1>5. CASE WorkerEnds(w)
  <2> DEFINE ends == {s \in Stopped(worker[w].state) : CloseBounded => ~s.live}
  <2>1. Became(w, ends) \/ Became(w, Released(worker[w].state))
    BY <1>5 DEF WorkerEnds
  <2>2. ends \in SUBSET Workers /\ Released(worker[w].state) \in SUBSET Workers
    BY <1>0, StatesAreWorkers
  <2>3. OnlyOne(w) /\ worker'[w].state \in ends \cup Released(worker[w].state)
        /\ UNCHANGED <<worker[w].id, worker[w].asked>>
    BY <1>1, <2>1, <2>2
  <2>4. /\ Phase(w) \in {"closing", "stopped"} /\ Phase(w)' \in {"stopped", "released"}
        /\ Live(w)' => Live(w) /\ Phase(w)' = "stopped" /\ ~CloseBounded
    BY <2>3 DEF Phase, Live, Stopped, Released, Turned
  <2>5. Evolves(w)
    BY <2>3, <2>4 DEF Evolves, Quiet
  <2> QED  BY <2>3, <2>5, OneEvolves
<1>6. CASE SubscriptionEnds(w)
  <2> DEFINE e == [worker[w] EXCEPT !.subscriber = Nobody]
  <2>1. e \in WorkerRecords /\ e.id = worker[w].id /\ e.state = worker[w].state
        /\ e.asked = worker[w].asked
    BY <1>0 DEF WorkerRecords
  <2>2. worker' = [worker EXCEPT ![w] = e]
    BY <1>6 DEF SubscriptionEnds
  <2> HIDE DEF e
  <2>3. OnlyOne(w) /\ worker'[w] = e
    BY <2>1, <2>2, WorkerChanges DEF Types, TypeOK
  <2> QED  BY <2>1, <2>3, SameEvolves, OneEvolves
<1> QED  BY <1>2, <1>3, <1>4, <1>5, <1>6 DEF WorkerStep

\* In every step of the station the workers only evolve: no phase is gone back to, and no request
\* is taken back.
LEMMA StepEvolves ==
    ASSUME Types, [Next]_vars
    PROVE  Evolution
<1>1. CASE UNCHANGED vars
  BY <1>1, UnchangedEvolves DEF vars
<1> QED  BY <1>1, CallerEvolves, WorkerEvolves DEF Next

-----------------------------------------------------------------------------
(***************************************************************************)
(* The tables.  What a caller decided under the mutex, and what the owner  *)
(* of a reservation knows, still holds when it acts on it; a profile has   *)
(* one form.                                                               *)
(***************************************************************************)

\* Here its worker is one of the identity it was called for.
Keeping == Holding \ {"evict"}

\* What the tables name is of the identity it is named for, and so is what a caller holds.
NamesAgree ==
    /\ \A id \in Identities : auth[id] # None => id \in reserved /\ worker[auth[id]].id = id
    /\ \A id \in Identities : slot[id] # None => worker[slot[id]].id = id
    /\ \A c \in Callers : caller[c].pc \in Keeping => worker[Mine(c)].id = caller[c].id

\* The decision of lease() is good for as long as it has the mutex.
DecisionsHold ==
    \A c \in Callers : Holds(c) =>
        /\ ~PersonaTaken(caller[c].id) /\ caller[c].id \notin reserved
        /\ slot[caller[c].id] = IF caller[c].pc \in Waits THEN Mine(c) ELSE None

\* A call that owns a reservation is alone with it, and there is no browser in it yet.
OwnersAlone ==
    \A id \in Identities, c \in Callers : OwnsReservation(c, id) =>
        /\ id \in reserved /\ auth[id] = None
        /\ \A d \in Callers : OwnsReservation(d, id) => c = d

Tables == OneFormPerProfile /\ NamesAgree /\ DecisionsHold /\ OwnersAlone

-----------------------------------------------------------------------------
\* It goes on with what it had, or with less; a worker that starts it only waits for, room it
\* takes only where there is some, and a reservation it gives up only when its future is dropped.
Weaker(c) ==
    /\ Holds(c)' => /\ Holds(c) /\ caller'[c].id = caller[c].id
                    /\ caller'[c].pc \in Waits <=> caller[c].pc \in Waits
                    /\ caller'[c].pc \in Waits => caller'[c].worker = caller[c].worker
    /\ caller'[c].pc \in Keeping => /\ caller[c].pc \in Keeping
                                    /\ caller'[c].id = caller[c].id
                                    /\ caller'[c].worker = caller[c].worker
    /\ caller'[c].pc = "evict" => caller[c].pc = "evict" /\ caller'[c].worker = caller[c].worker
    /\ caller[c].pc = "settleNew" /\ caller'[c].pc \in Keeping \ {"settleNew"}
       => Phase(Mine(c)) # "starting"
    /\ Holds(c)' /\ caller[c].pc = "room" => caller'[c].pc = "room" \/ ~Full
    /\ \A id \in Identities : OwnsReservation(c, id)' => OwnsReservation(c, id)
    /\ Cancellable = {} =>
          \A id \in Identities : OwnsReservation(c, id) => OwnsReservation(c, id)'

\* A caller that does not move.
LEMMA StaysWeaker ==
    ASSUME NEW c, caller'[c] = caller[c]
    PROVE  Weaker(c)
BY DEF Weaker, Holds, OwnsReservation

\* Evolution keeps what the tables and the callers know of their workers.
LEMMA NamesKept ==
    ASSUME Types, NamesAgree, Evolution
    PROVE  /\ \A id \in Identities : auth[id] # None => worker'[auth[id]].id = id
           /\ \A id \in Identities : slot[id] # None => worker'[slot[id]].id = id
           /\ \A c \in Callers : caller[c].pc \in Keeping => worker'[Mine(c)].id = caller[c].id
<1>1. \A w \in Handles : worker'[w].id = worker[w].id
  BY DEF Evolution, Evolves
<1>2. /\ \A id \in Identities : auth[id] # None => auth[id] \in Handles
      /\ \A id \in Identities : slot[id] # None => slot[id] \in Handles
      /\ \A c \in Callers : caller[c].pc \in Keeping => Mine(c) \in Handles
  BY HandleFacts DEF Resident, Keeping
<1> QED  BY <1>1, <1>2 DEF NamesAgree

\* The tables stay, and no caller has more than it had.
LEMMA TablesStay ==
    ASSUME Types, Tables, Evolution, UNCHANGED tables, \A c \in Callers : Weaker(c)
    PROVE  Tables'
<1> USE DEF tables
<1>1. OneFormPerProfile'
  BY DEF Tables, OneFormPerProfile, Resident
<1>2. NamesAgree'
  <2>1. \A c \in Callers : caller'[c].pc \in Keeping => worker'[caller'[c].worker].id = caller'[c].id
    BY NamesKept DEF Tables, Weaker, Mine
  <2> QED  BY <2>1, NamesKept DEF Tables, NamesAgree, Mine
<1>3. DecisionsHold'
  <2> SUFFICES ASSUME NEW c \in Callers, Holds(c)'
               PROVE  /\ ~PersonaTaken(caller[c].id)' /\ caller'[c].id \notin reserved'
                      /\ slot'[caller'[c].id] = IF caller'[c].pc \in Waits THEN Mine(c)' ELSE None
    BY DEF DecisionsHold
  <2>1. /\ Holds(c) /\ caller'[c].id = caller[c].id
        /\ caller'[c].pc \in Waits <=> caller[c].pc \in Waits
        /\ caller'[c].pc \in Waits => caller'[c].worker = caller[c].worker
    BY DEF Weaker
  <2> QED  BY <2>1 DEF Tables, DecisionsHold, PersonaTaken, Resident, Mine
<1>4. OwnersAlone'
  <2>1. \A id \in Identities, c \in Callers : OwnsReservation(c, id)' => OwnsReservation(c, id)
    BY DEF Weaker
  <2> QED  BY <2>1 DEF Tables, OwnersAlone
<1> QED  BY <1>1, <1>2, <1>3, <1>4 DEF Tables

\* The steps that decide, fill a table or empty one.
Rewrites(c) ==
    \/ LeaseRepairs(c) \/ LeaseAwaits(c) \/ LeaseRetires(c) \/ LeaseMisses(c) \/ GivesUp(c)
    \/ MakesRoom(c) \/ Spawns(c) \/ NewIsLeased(c) \/ AuthReserves(c) \/ Installs(c)
    \/ Unreserves(c) \/ TakesAuth(c) \/ ShutdownDrained(c) \/ EmergencyReturns(c)

AllWeaker == UNCHANGED tables /\ \A d \in Callers : Weaker(d)

\* Only c moves.
LEMMA OneWeaker ==
    ASSUME NEW c \in Callers, OthersStay(c), Weaker(c), UNCHANGED tables
    PROVE  AllWeaker
BY StaysWeaker DEF AllWeaker, OthersStay

\* c leaves, and owns no reservation unless its future was dropped.
LEMMA LeavesWeaker ==
    ASSUME Types, NEW c \in Callers, Leaves(c), UNCHANGED tables,
           Cancellable = {} => \A id \in Identities : ~OwnsReservation(c, id)
    PROVE  AllWeaker
<1>1. Weaker(c)
  BY LeavesFacts DEF Weaker, Holds, Keeping, Holding, Waits, OwnsReservation, Idle
<1> QED  BY <1>1, LeavesFacts, OneWeaker

\* c goes on, with the same worker, to a place that claims no more than the last.
LEMMA GotoWeaker ==
    ASSUME Types, NEW c \in Callers, NEW pc, Goto(c, pc), UNCHANGED tables,
           caller[c].call = "Lease" /\ pc \in Waits \cup Opens =>
               /\ caller[c].pc \in Waits \cup Opens
               /\ pc \in Waits <=> caller[c].pc \in Waits,
           pc \in Keeping => caller[c].pc \in Keeping, pc # "evict",
           caller[c].pc = "settleNew" => Phase(Mine(c)) # "starting",
           caller[c].pc = "room" => ~Full,
           caller[c].call = "BeginAuth" =>
               (pc \in {"gate", "reserve"} <=> caller[c].pc \in {"gate", "reserve"}),
           caller[c].call = "FinishAuth" =>
               (pc \in {"close", "unreserve"} <=> caller[c].pc \in {"close", "unreserve"})
    PROVE  AllWeaker
<1>1. Weaker(c)
  BY GotoFacts DEF Weaker, Holds, OwnsReservation
<1> QED  BY <1>1, GotoFacts, OneWeaker

\* The same, when it has let go of its worker.
LEMMA GotoForWeaker ==
    ASSUME Types, NEW c \in Callers, NEW pc \in {"room", "spawn", "closing"}, NEW w,
           GotoFor(c, pc, w), UNCHANGED tables,
           caller[c].pc \in {"retire", "evict", "closing"}
    PROVE  AllWeaker
<1>1. Weaker(c)
  BY GotoForFacts, CallAt
     DEF Weaker, Holds, OwnsReservation, Waits, Opens, Keeping, Holding, Writers
<1> QED  BY <1>1, GotoForFacts, OneWeaker

\* After a call has failed it claims nothing of the tables.
LEMMA FailsWeaker ==
    ASSUME Types, NEW c \in Callers, Fails(c), caller[c].pc \in {"evict", "spawn", "dispose"},
           UNCHANGED tables
    PROVE  AllWeaker
<1>1. CASE caller[c].call = "Lease"
  BY <1>1, LeavesWeaker DEF Fails, OwnsReservation
<1>2. CASE caller[c].call = "BeginAuth"
  BY <1>2, GotoWeaker DEF Fails, Keeping, Holding, Waits
<1> QED  BY <1>1, <1>2, CallAt

\* A new call.
LEMMA QueuesWeaker ==
    ASSUME Types, NEW c \in Callers, At(c, "idle"), NEW r, Queues(c, r), r.pc = "gate",
           UNCHANGED tables
    PROVE  AllWeaker
<1>1. caller'[c] = r /\ OthersStay(c)
  BY DEF Queues, OthersStay, Types, TypeOK
<1>2. Weaker(c)
  BY <1>1, CallAt DEF Weaker, At, Holds, Keeping, Holding, Waits, Opens, OwnsReservation
<1> QED  BY <1>1, <1>2, OneWeaker

\* A call that starts claims nothing of the tables yet, and rewrites none.
LEMMA CallIsWeaker ==
    ASSUME Types, NEW c \in Callers, CallStep(c)
    PROVE  AllWeaker
<1>1. CASE CallOnIdentity(c)
  <2>1. \E call \in OnIdentity, id \in Identities, runtime \in Runtimes :
           Queues(c, [Idle EXCEPT !.pc = "gate", !.call = call, !.id = id, !.runtime = runtime])
    BY <1>1 DEF CallOnIdentity
  <2> QED  BY <1>1, <2>1, QueuesWeaker DEF CallOnIdentity, Begins, Idle
<1>2. CASE CallOnLease(c)
  <2>1. \E call \in OnLease :
           Queues(c, [Idle EXCEPT !.pc = "gate", !.call = call, !.worker = lease[c]])
    BY <1>2 DEF CallOnLease
  <2> QED  BY <1>2, <2>1, QueuesWeaker DEF CallOnLease, Begins, Idle
<1>3. CASE CallShutdown(c)
  BY <1>3, QueuesWeaker DEF CallShutdown, Begins, Idle
<1>4. CASE CallEmergency(c)
  BY <1>4, QueuesWeaker DEF CallEmergency, Begins, Idle
<1>5. CASE DropsLease(c)
  BY <1>5, StaysWeaker DEF DropsLease, AllWeaker
<1>6. CASE Cancel(c)
  BY <1>6, LeavesWeaker DEF Cancel
<1> QED  BY <1>1, <1>2, <1>3, <1>4, <1>5, <1>6 DEF CallStep

\* Passing the gate rewrites no table.
LEMMA EnterIsWeaker ==
    ASSUME Types, NEW c \in Callers, Enters(c) \/ TurnedAway(c)
    PROVE  AllWeaker
<1>1. gate.waiting \in Seq(Callers) /\ gate.waiting # <<>> /\ c = Head(gate.waiting) /\ Queued
  BY DEF Enters, TurnedAway, Granted, Types, TypeOK
<1>2. Len(gate.waiting) \in Nat \ {0} /\ c = gate.waiting[1]
  BY <1>1, EmptySeq
<1>3. caller[c].pc = "gate"
  BY <1>1, <1>2 DEF Queued, At
<1>4. caller[c].call \in Calls
  BY <1>3, CallAt DEF Types, TypeOK, CallerStates
<1>5. CASE Enters(c)
  <2>1. Goto(c, Entry[caller[c].call]) /\ UNCHANGED tables
    BY <1>5 DEF Enters
  <2>2. /\ Entry[caller[c].call] \in {"decide", "reserve", "take", "session", "subscribe", "drained"}
        /\ caller[c].call = "BeginAuth" => Entry[caller[c].call] = "reserve"
    BY <1>4 DEF Entry, Calls, OnIdentity, OnLease, Writers
  <2> QED  BY <1>3, <2>1, <2>2, GotoWeaker DEF Waits, Opens, Keeping, Holding
<1>6. CASE TurnedAway(c)
  BY <1>6, LeavesWeaker DEF TurnedAway, OwnsReservation, OnLease
<1> QED  BY <1>5, <1>6

\* Each step of lease() claims no more than before unless it is one that rewrites a table.
LEMMA LeaseIsWeaker ==
    ASSUME Types, NEW c \in Callers, LeaseStep(c)
    PROVE  AllWeaker \/ Rewrites(c)
<1> USE DEF Deciding, At
<1>1. CASE LeaseRefused(c) \/ LeaseReuses(c) \/ Settled(c) \/ AtCapacity(c)
  <2>1. Leaves(c) /\ caller[c].call = "Lease" /\ UNCHANGED tables
    BY <1>1, CallAt
       DEF LeaseRefused, LeaseReuses, Considers, Settled, AtCapacity, TakesLease, Waits
  <2> QED  BY <2>1, LeavesWeaker DEF OwnsReservation
<1>2. CASE RestartBegins(c)
  BY <1>2, CallAt, GotoWeaker DEF RestartBegins, Waits, Keeping, Holding
<1>3. CASE Retired(c)
  BY <1>3, GotoForWeaker DEF Retired
<1>4. CASE HasRoom(c)
  BY <1>4, CallAt, GotoWeaker DEF HasRoom, Waits, Opens, Keeping, Holding
<1> QED  BY <1>1, <1>2, <1>3, <1>4 DEF LeaseStep, Rewrites

\* The same for the steps around a spawn.
LEMMA SpawnIsWeaker ==
    ASSUME Types, NEW c \in Callers, SpawnStep(c)
    PROVE  AllWeaker \/ Rewrites(c)
<1> USE DEF At
<1>1. CASE Evicted(c)
  BY <1>1, GotoForWeaker, FailsWeaker DEF Evicted
<1>2. CASE SpawnFails(c) \/ Disposed(c)
  BY <1>2, FailsWeaker DEF SpawnFails, Disposed
<1>3. CASE NewIsVisible(c)
  BY <1>3, CallAt, GotoWeaker DEF NewIsVisible, Keeping, Holding
<1>4. CASE NewFails(c)
  <2>1. /\ caller[c].pc = "settleNew" /\ UNCHANGED tables
        /\ \/ Leaves(c) /\ caller[c].call = "Lease"
           \/ Goto(c, "dispose") /\ Phase(Mine(c)) # "starting"
    BY <1>4 DEF NewFails, Disposes
  <2> QED  BY <2>1, CallAt, LeavesWeaker, GotoWeaker
           DEF OwnsReservation, Waits, Opens, Keeping, Holding
<1> QED  BY <1>1, <1>2, <1>3, <1>4 DEF SpawnStep, Rewrites

\* The same for the authentication calls.
LEMMA AuthIsWeaker ==
    ASSUME Types, NEW c \in Callers, AuthStep(c)
    PROVE  AllWeaker \/ Rewrites(c)
<1> USE DEF Deciding, At
<1>1. CASE AuthRefused(c) \/ NoAuthToTake(c)
  <2>1. Leaves(c) /\ caller[c].pc \in {"reserve", "take"} /\ UNCHANGED tables
    BY <1>1 DEF AuthRefused, NoAuthToTake
  <2> QED  BY <2>1, CallAt, LeavesWeaker DEF OwnsReservation
<1>2. CASE Navigated(c)
  <2>1. /\ caller[c].pc = "navigate" /\ UNCHANGED tables
        /\ \E pc \in {"install", "dispose"} : Goto(c, pc)
    BY <1>2 DEF Navigated, Disposes
  <2> QED  BY <2>1, CallAt, GotoWeaker DEF Keeping, Holding
<1>3. CASE AuthClosed(c)
  BY <1>3, CallAt, GotoWeaker DEF AuthClosed, Keeping, Holding, Waits
<1> QED  BY <1>1, <1>2, <1>3 DEF AuthStep, Rewrites

\* A call on a lease rewrites no table and claims no more than before.
LEMMA UseIsWeaker ==
    ASSUME Types, NEW c \in Callers, UseStep(c)
    PROVE  AllWeaker
<1> USE DEF At
<1>1. CASE UseEnds(c) \/ SubscribeEnds(c)
  <2>1. Leaves(c) /\ caller[c].call \in {"Use", "Subscribe"} /\ UNCHANGED tables
    BY <1>1, CallAt DEF UseEnds, SubscribeEnds
  <2> QED  BY <2>1, LeavesWeaker DEF OwnsReservation
<1>2. CASE UseBegins(c) \/ UseRestarts(c) \/ SubscribeBegins(c)
  <2>1. /\ caller[c].call \in {"Use", "Subscribe"} /\ UNCHANGED tables
        /\ caller[c].pc \notin {"settleNew", "room"}
        /\ \E pc \in {"using", "restarting", "subscribed"} : Goto(c, pc)
    BY <1>2, CallAt DEF UseBegins, UseRestarts, SubscribeBegins
  <2> QED  BY <2>1, GotoWeaker DEF Keeping, Holding, Waits
<1> QED  BY <1>1, <1>2 DEF UseStep

\* A shutdown claims nothing, and rewrites the tables only where it drains them.
LEMMA WriterIsWeaker ==
    ASSUME Types, NEW c \in Callers, WriterStep(c)
    PROVE  AllWeaker \/ Rewrites(c)
<1> USE DEF At
<1>1. CASE ShutdownReturns(c)
  BY <1>1, CallAt, LeavesWeaker DEF ShutdownReturns, Returns, OwnsReservation
<1>2. CASE HardAborts(c)
  BY <1>2, StaysWeaker DEF HardAborts, AllWeaker
<1>3. CASE ShutdownAsks(c) \/ ShutdownWaited(c) \/ EmergencyDrained(c) \/ EmergencyWaited(c)
  <2>1. /\ caller[c].call \in Writers /\ OthersStay(c) /\ UNCHANGED tables
        /\ caller'[c].pc \in {"closing", "aborting"} /\ caller'[c].call = caller[c].call
    BY <1>3, CallAt
       DEF ShutdownAsks, ShutdownWaited, EmergencyDrained, EmergencyWaited, GotoFor, OthersStay,
           Types, TypeOK, CallerStates, Writers
  <2>2. Weaker(c)
    BY <2>1 DEF Weaker, Holds, Keeping, Holding, Waits, OwnsReservation, Writers
  <2> QED  BY <2>1, <2>2, OneWeaker
<1> QED  BY <1>1, <1>2, <1>3 DEF WriterStep, Rewrites

\* The workers rewrite no table.
LEMMA WorkerIsWeaker ==
    ASSUME Types, NEW w \in Handles, WorkerStep(w) \/ SubscriptionEnds(w)
    PROVE  AllWeaker
<1>1. UNCHANGED tables
  BY DEF WorkerStep, WorkerStarts, WorkerRestarts, WorkerCloses, WorkerEnds, SubscriptionEnds
<1>2. ASSUME NEW c \in Callers PROVE Weaker(c)
  <2>1. \/ caller'[c] = caller[c]
        \/ At(c, "restarting") /\ caller'[c] = [caller[c] EXCEPT !.pc = "retried"]
        \/ /\ caller[c].pc \in {"repair", "repairing"}
           /\ \E pc \in {"repaired", "broken"} : caller'[c] = [caller[c] EXCEPT !.pc = pc]
    BY DEF WorkerStep, WorkerStarts, WorkerRestarts, WorkerCloses, WorkerEnds, SubscriptionEnds, At
  <2>2. caller[c] \in CallerStates
    BY DEF Types, TypeOK
  <2> QED
    BY <2>1, <2>2, CallAt, StaysWeaker
       DEF CallerStates, At, Weaker, Holds, OwnsReservation, Keeping, Holding, Waits, Opens
<1> QED  BY <1>1, <1>2 DEF AllWeaker

\* Whatever does not rewrite the tables leaves every caller with what it had, or less.
LEMMA StepIsWeaker ==
    ASSUME Types, [Next]_vars
    PROVE  AllWeaker \/ \E c \in Callers : Rewrites(c)
<1>1. CASE UNCHANGED vars
  BY <1>1, StaysWeaker DEF vars, AllWeaker
<1>2. ASSUME NEW c \in Callers, CallStep(c) \/ Proceed(c)
      PROVE  AllWeaker \/ Rewrites(c)
  BY <1>2, CallIsWeaker, EnterIsWeaker, LeaseIsWeaker, SpawnIsWeaker, AuthIsWeaker, UseIsWeaker,
     WriterIsWeaker DEF Proceed
<1> QED  BY <1>1, <1>2, WorkerIsWeaker DEF Next

-----------------------------------------------------------------------------
(* The steps that rewrite the tables *)

\* Identities stay with their workers, and other callers with what they have.
LEMMA OthersKnow ==
    ASSUME Types, NamesAgree, Evolution, NEW c \in Callers, OthersStay(c)
    PROVE  \A d \in Callers \ {c} :
              caller'[d].pc \in Keeping => worker'[caller'[d].worker].id = caller'[d].id
BY NamesKept DEF OthersStay, Mine

\* Somebody else's decision needs the mutex.
LEMMA NobodyElseHolds ==
    ASSUME Gates, NEW c \in Callers, lock \in {Nobody, c}, OthersStay(c)
    PROVE  \A d \in Callers \ {c} : ~Holds(d) /\ ~Holds(d)'
<1>1. \A d \in Callers \ {c} : ~Holds(d)
  BY StationAssumption DEF Gates
<1> QED  BY <1>1 DEF OthersStay, Holds

\* lease() decides to use the resident, or to open a worker.
LEMMA DecidesTables ==
    ASSUME Types, Gates, Tables, Evolution, NEW c \in Callers,
           LeaseRepairs(c) \/ LeaseAwaits(c) \/ LeaseMisses(c)
    PROVE  Tables'
<1>1. /\ caller[c].pc = "decide" /\ ~Refused(c) /\ lock = Nobody /\ UNCHANGED <<tables, worker>>
      /\ \/ \E pc \in {"repair", "settle"} : GotoFor(c, pc, Found(c)) /\ Found(c) # None
         \/ Goto(c, "room") /\ Found(c) = None
  BY DEF LeaseRepairs, LeaseAwaits, LeaseMisses, Considers, Deciding, At
<1>2. caller[c].call = "Lease" /\ caller[c].id \in Identities
  BY <1>1, CallAt, HandleFacts DEF OnIdentity
<1>3. /\ OthersStay(c) /\ caller'[c].call = "Lease" /\ caller'[c].id = caller[c].id
      /\ \/ /\ caller'[c].pc \in {"repair", "settle"} /\ caller'[c].worker = slot[caller[c].id]
            /\ slot[caller[c].id] # None
         \/ caller'[c].pc = "room" /\ slot[caller[c].id] = None
  BY <1>1, <1>2, GotoFacts, GotoForFacts DEF Found
<1>4. OneFormPerProfile' /\ UNCHANGED <<slot, reserved, auth>>
  BY <1>1 DEF Tables, OneFormPerProfile, Resident, tables
<1>5. NamesAgree'
  BY <1>1, <1>2, <1>3, <1>4, OthersKnow, NamesKept DEF Tables, NamesAgree, Mine, Keeping, Holding, Waits
<1>6. DecisionsHold'
  <2>1. ~PersonaTaken(caller[c].id) /\ caller[c].id \notin reserved
    BY <1>1 DEF Refused
  <2>3. ~(\E other \in (Resident' \cup reserved') \ {caller'[c].id} : ProfileOf[other] = ProfileOf[caller'[c].id])
    BY <1>3, <1>4, <2>1 DEF PersonaTaken, Resident
  <2> QED
    BY <1>1, <1>3, <1>4, <2>1, <2>3, NobodyElseHolds DEF DecisionsHold, Waits, Mine, PersonaTaken, Resident
<1>7. OwnersAlone'
  BY <1>2, <1>3, <1>4 DEF Tables, OwnersAlone, OwnsReservation, OthersStay
<1> QED  BY <1>4, <1>5, <1>6, <1>7 DEF Tables

\* lease() takes a resident away: its own, or a victim.
LEMMA VacatesTables ==
    ASSUME Types, Gates, Tables, Evolution, NEW c \in Callers, NEW id \in Identities,
           Vacates(id), UNCHANGED <<reserved, auth>>, OthersStay(c), lock \in {Nobody, c},
           caller[c].call = "Lease", caller[c].id \in Identities,
           caller'[c].call = "Lease", caller'[c].id = caller[c].id,
           caller'[c].pc \in {"retire", "evict"},
           ~PersonaTaken(caller[c].id), caller[c].id \notin reserved,
           id = caller[c].id \/ slot[caller[c].id] = None,
           caller'[c].pc = "retire" => /\ id = caller[c].id /\ slot[id] # None
                                       /\ caller'[c].worker = slot[id]
    PROVE  Tables'
<1>1. /\ slot'[id] = None /\ \A i \in Identities \ {id} : slot'[i] = slot[i]
      /\ Resident' \subseteq Resident
  BY DEF Vacates, Resident, Types, TypeOK
<1>2. OneFormPerProfile'
  BY <1>1 DEF Tables, OneFormPerProfile
<1>3. NamesAgree'
  BY <1>1, OthersKnow, NamesKept DEF Tables, NamesAgree, Mine, Keeping, Holding, Waits
<1>4. DecisionsHold'
  <2>1. ~(\E other \in (Resident' \cup reserved') \ {caller'[c].id} :
             ProfileOf[other] = ProfileOf[caller'[c].id])
    BY <1>1 DEF PersonaTaken
  <2>2. slot'[caller'[c].id] = None /\ caller'[c].pc \notin Waits
    BY <1>1 DEF Waits
  <2> QED  BY <2>1, <2>2, NobodyElseHolds DEF DecisionsHold, PersonaTaken
<1>5. OwnersAlone'
  BY DEF Tables, OwnersAlone, OwnsReservation, OthersStay
<1> QED  BY <1>2, <1>3, <1>4, <1>5 DEF Tables

\* The tables still agree with their callers after lease() takes a dead resident out, gives up, or
\* empties a victim's slot.
LEMMA RetiresTables ==
    ASSUME Types, Gates, Tables, Evolution, NEW c \in Callers,
           LeaseRetires(c) \/ GivesUp(c) \/ MakesRoom(c)
    PROVE  Tables'
<1> USE DEF Deciding, At
<1>1. CASE LeaseRetires(c)
  <2>1. /\ caller[c].pc = "decide" /\ lock = Nobody /\ ~Refused(c) /\ Found(c) # None
        /\ Vacates(caller[c].id) /\ GotoFor(c, "retire", Found(c)) /\ UNCHANGED <<reserved, auth>>
    BY <1>1 DEF LeaseRetires, Considers, Retires
  <2> QED  BY <2>1, CallAt, HandleFacts, GotoForFacts, VacatesTables DEF Refused, Found, OnIdentity
<1>2. CASE GivesUp(c)
  <2>1. /\ caller[c].pc \in {"broken", "settle"} /\ Vacates(caller[c].id)
        /\ GotoFor(c, "retire", Mine(c)) /\ UNCHANGED <<reserved, auth>>
    BY <1>2 DEF GivesUp, Retires
  <2>2. Holds(c) /\ lock = c /\ caller[c].call = "Lease" /\ caller[c].id \in Identities
        /\ Mine(c) # None
    BY <2>1, CallAt, HandleFacts DEF Holds, Gates, Waits, OnIdentity, Holding
  <2> QED  BY <2>1, <2>2, GotoForFacts, VacatesTables DEF Tables, DecisionsHold, Waits
<1>3. CASE MakesRoom(c)
  <2>1. PICK id \in Resident : Vacates(id) /\ GotoFor(c, "evict", slot[id])
    BY <1>3 DEF MakesRoom, Evicts, Idles
  <2>2. Holds(c) /\ lock = c /\ caller[c].call = "Lease" /\ caller[c].id \in Identities
        /\ caller[c].pc = "room" /\ id \in Identities /\ UNCHANGED <<reserved, auth>>
    BY <1>3, CallAt, HandleFacts DEF MakesRoom, Holds, Gates, Opens, OnIdentity, Resident
  <2> QED  BY <2>1, <2>2, GotoForFacts, VacatesTables DEF Tables, DecisionsHold, Waits
<1> QED  BY <1>1, <1>2, <1>3

\* A worker is spawned for the identity of the call.
LEMMA SpawnsTables ==
    ASSUME Types, Gates, Tables, Evolution, NEW c \in Callers, Spawns(c)
    PROVE  Tables'
<1>1. CASE shutting
  BY <1>1, FailsWeaker, TablesStay DEF Spawns, AllWeaker, At
<1>2. CASE ~shutting
  <2>0. PICK n : n = Len(worker) + 1
    OBVIOUS
  <2>1. /\ caller[c].pc = "spawn" /\ GotoFor(c, "settleNew", n) /\ UNCHANGED <<slot, reserved, auth>>
    BY <1>2, <2>0 DEF Spawns, At, tables
  <2>15. worker'[n] = New(c)
    BY <2>0, SpawnChanges
  <2>2. worker'[n].id = caller[c].id
    BY <2>15 DEF New
  <2>3. /\ OthersStay(c) /\ caller'[c].pc = "settleNew" /\ caller'[c].id = caller[c].id
        /\ caller'[c].call = caller[c].call /\ caller'[c].worker = n
        /\ caller[c].call \in {"Lease", "BeginAuth"}
    BY <2>1, GotoForFacts, CallAt
  <2>4. OneFormPerProfile'
    BY <2>1 DEF Tables, OneFormPerProfile, Resident
  <2>5. NamesAgree'
    BY <2>1, <2>2, <2>3, OthersKnow, NamesKept DEF Tables, NamesAgree, Mine
  <2>6. \A d \in Callers : /\ Holds(d)' => Holds(d) /\ caller'[d].id = caller[d].id
                           /\ Holds(d)' => (caller'[d].pc \in Waits <=> caller[d].pc \in Waits)
                           /\ Holds(d)' /\ caller[d].pc \in Waits
                              => caller'[d].worker = caller[d].worker
    BY <2>1, <2>3 DEF OthersStay, Holds, Waits, Opens
  <2>7. DecisionsHold'
    BY <2>1, <2>6 DEF Tables, DecisionsHold, PersonaTaken, Resident, Mine
  <2>8. \A d \in Callers, id \in Identities : OwnsReservation(d, id)' <=> OwnsReservation(d, id)
    BY <2>1, <2>3 DEF OwnsReservation, OthersStay
  <2>9. OwnersAlone'
    BY <2>1, <2>8 DEF Tables, OwnersAlone
  <2> QED  BY <2>4, <2>5, <2>7, <2>9 DEF Tables
<1> QED  BY <1>1, <1>2

\* The new worker becomes the resident of its identity.
LEMMA LeasedTables ==
    ASSUME Types, Gates, Tables, Evolution, NEW c \in Callers, NewIsLeased(c)
    PROVE  Tables'
<1>0. caller[c].pc = "settleNew" /\ caller[c].call = "Lease" /\ UNCHANGED <<reserved, auth>>
  BY DEF NewIsLeased, At
<1>1. CASE shutting
  <2>1. Goto(c, "dispose") /\ UNCHANGED tables /\ Phase(Mine(c)) = "ready"
    BY <1>0, <1>1 DEF NewIsLeased, Disposes, tables
  <2>2. AllWeaker
    BY <1>0, <2>1, GotoWeaker DEF Waits, Opens, Keeping, Holding
  <2> QED  BY <2>2, TablesStay DEF AllWeaker
<1>2. CASE ~shutting
  <2>1. slot' = [slot EXCEPT ![caller[c].id] = Mine(c)] /\ Leaves(c) /\ UNCHANGED worker
    BY <1>2 DEF NewIsLeased, TakesLease
  <2>2. Holds(c) /\ lock = c /\ caller[c].id \in Identities
    BY <1>0, HandleFacts DEF Holds, Opens, Gates, OnIdentity
  <2>3. ~PersonaTaken(caller[c].id) /\ caller[c].id \notin reserved /\ worker[Mine(c)].id = caller[c].id
    BY <1>0, <2>2 DEF Tables, DecisionsHold, NamesAgree, Keeping, Holding
  <2>4. /\ slot'[caller[c].id] = Mine(c) /\ \A i \in Identities \ {caller[c].id} : slot'[i] = slot[i]
        /\ Resident' \subseteq Resident \cup {caller[c].id}
    BY <2>1, <2>2 DEF Resident, Types, TypeOK
  <2>5. OthersStay(c) /\ caller'[c].pc \notin Keeping /\ caller'[c].call = "None"
    BY <2>1, LeavesFacts DEF Idle, Keeping, Holding, Waits
  <2>6. OneFormPerProfile'
    BY <1>0, <2>3, <2>4 DEF Tables, OneFormPerProfile, PersonaTaken
  <2>7. NamesAgree'
    BY <1>0, <2>1, <2>3, <2>4, <2>5, OthersKnow, NamesKept DEF Tables, NamesAgree, Mine
  <2>8. DecisionsHold'
    BY <2>2, <2>5, NobodyElseHolds DEF DecisionsHold, Holds
  <2>9. OwnersAlone'
    BY <1>0, <2>5 DEF Tables, OwnersAlone, OwnsReservation, OthersStay
  <2> QED  BY <2>6, <2>7, <2>8, <2>9 DEF Tables
<1> QED  BY <1>1, <1>2

\* begin_auth_session() reserves its identity, and may take a resident away for it.
LEMMA ReservesTables ==
    ASSUME Types, Gates, Tables, Evolution, NEW c \in Callers, AuthReserves(c)
    PROVE  Tables'
<1>1. /\ caller[c].pc = "reserve" /\ lock = Nobody /\ ~Refused(c)
      /\ reserved' = reserved \cup {caller[c].id} /\ auth' = auth
  BY DEF AuthReserves, Deciding, At
<1>2. caller[c].call = "BeginAuth" /\ caller[c].id \in Identities
  BY <1>1, CallAt, HandleFacts DEF OnIdentity
<1>3. /\ OthersStay(c) /\ caller'[c].pc \in {"evict", "spawn"}
      /\ caller'[c].id = caller[c].id /\ caller'[c].call = "BeginAuth"
      /\ slot'[caller[c].id] = None /\ Resident' \subseteq Resident
      /\ \A i \in Identities : slot'[i] = None \/ slot'[i] = slot[i]
  <2>1. CASE Goto(c, "spawn") /\ slot' = slot /\ Found(c) = None
    BY <1>2, <2>1, GotoFacts DEF Found, Resident
  <2>2. ASSUME NEW id \in Victims(c), Evicts(c, id)
        PROVE  /\ OthersStay(c) /\ caller'[c].pc \in {"evict", "spawn"}
               /\ caller'[c].id = caller[c].id /\ caller'[c].call = "BeginAuth"
               /\ slot'[caller[c].id] = None /\ Resident' \subseteq Resident
               /\ \A i \in Identities : slot'[i] = None \/ slot'[i] = slot[i]
    <3>1. /\ id \in Identities
          /\ id = caller[c].id \/ slot[caller[c].id] = None
      BY <1>2, <2>2 DEF Victims, Idles, Found, Resident
    <3>2. slot'[id] = None /\ \A i \in Identities \ {id} : slot'[i] = slot[i]
      BY <2>2, <3>1 DEF Evicts, Vacates, Types, TypeOK
    <3>3. GotoFor(c, "evict", slot[id])
      BY <2>2 DEF Evicts
    <3> QED  BY <1>2, <3>1, <3>2, <3>3, GotoForFacts DEF Resident
  <2> QED  BY <2>1, <2>2 DEF AuthReserves
<1>4. ~PersonaTaken(caller[c].id) /\ caller[c].id \notin reserved
  BY <1>1 DEF Refused
<1>5. OneFormPerProfile'
  <2>1. Resident' \cap reserved' = {}
    BY <1>1, <1>3 DEF Tables, OneFormPerProfile, Resident
  <2>2. Resident' \cup reserved' \subseteq Resident \cup reserved \cup {caller[c].id}
    BY <1>1, <1>3
  <2> QED  BY <1>4, <2>1, <2>2 DEF Tables, OneFormPerProfile, PersonaTaken
<1>6. NamesAgree'
  BY <1>1, <1>3, OthersKnow, NamesKept DEF Tables, NamesAgree, Mine, Keeping, Holding, Waits
<1>7. DecisionsHold'
  BY <1>1, <1>3, NobodyElseHolds DEF DecisionsHold, Holds
<1>8. OwnersAlone'
  <2>1. \A d \in Callers \ {c}, id \in Identities : OwnsReservation(d, id)' <=> OwnsReservation(d, id)
    BY <1>3 DEF OthersStay, OwnsReservation
  <2>2. \A id \in Identities : OwnsReservation(c, id)' => id = caller[c].id
    BY <1>3 DEF OwnsReservation
  <2>3. auth[caller[c].id] = None /\ \A d \in Callers : ~OwnsReservation(d, caller[c].id)
    BY <1>2, <1>4 DEF Tables, NamesAgree, OwnersAlone
  <2> QED  BY <1>1, <2>1, <2>2, <2>3 DEF Tables, OwnersAlone
<1> QED  BY <1>5, <1>6, <1>7, <1>8 DEF Tables

\* The owner of a reservation fills it or takes it back, and leaves.
LEMMA SettlesTables ==
    ASSUME Types, Gates, Tables, Evolution, NEW c \in Callers, Installs(c) \/ Unreserves(c)
    PROVE  Tables'
<1>1. /\ caller[c].pc \in {"install", "unreserve"} /\ Leaves(c) /\ UNCHANGED <<worker, slot>>
      /\ \/ /\ caller[c].pc = "install" /\ reserved' = reserved
            /\ auth' = [auth EXCEPT ![caller[c].id] = Mine(c)]
         \/ /\ reserved' = reserved \ {caller[c].id}
            /\ auth' = [auth EXCEPT ![caller[c].id] = None]
  BY DEF Installs, Unreserves, Deciding, At
<1>2. OwnsReservation(c, caller[c].id) /\ caller[c].id \in Identities
  BY <1>1, CallAt, HandleFacts DEF OnIdentity, OwnsReservation
<1>3. /\ caller[c].id \in reserved /\ auth[caller[c].id] = None
      /\ \A d \in Callers \ {c} : ~OwnsReservation(d, caller[c].id)
  BY <1>2 DEF Tables, OwnersAlone
<1>4. /\ \A i \in Identities \ {caller[c].id} : auth'[i] = auth[i]
      /\ auth'[caller[c].id] = None \/ /\ auth'[caller[c].id] = Mine(c) /\ caller[c].pc = "install"
                                       /\ reserved' = reserved
  BY <1>1, <1>2 DEF Types, TypeOK
<1>5. OthersStay(c) /\ caller'[c].pc \notin Keeping /\ caller'[c].call = "None"
  BY <1>1, LeavesFacts DEF Idle, Keeping, Holding, Waits
<1>6. OneFormPerProfile'
  BY <1>1 DEF Tables, OneFormPerProfile, Resident
<1>7. NamesAgree'
  <2>1. caller[c].pc = "install" => worker[Mine(c)].id = caller[c].id
    BY DEF Tables, NamesAgree, Keeping, Holding
  <2> QED  BY <1>1, <1>3, <1>4, <1>5, <2>1, OthersKnow, NamesKept DEF Tables, NamesAgree, Mine
<1>8. DecisionsHold'
  BY <1>1, <1>5 DEF Tables, DecisionsHold, Holds, OthersStay, PersonaTaken, Resident, Mine
<1>9. OwnersAlone'
  BY <1>1, <1>3, <1>4, <1>5 DEF Tables, OwnersAlone, OwnsReservation, OthersStay
<1> QED  BY <1>6, <1>7, <1>8, <1>9 DEF Tables

\* finish_auth_session() takes the browser out of a reservation that nobody owns.
LEMMA TakesTables ==
    ASSUME Types, Gates, Tables, Evolution, NEW c \in Callers, TakesAuth(c)
    PROVE  Tables'
<1>1. PICK id \in OpenAuth(c) :
         /\ auth' = [auth EXCEPT ![id] = None]
         /\ caller' = [caller EXCEPT ![c].pc = "close", ![c].id = id, ![c].worker = auth[id]]
  BY DEF TakesAuth
<1>2. /\ caller[c].pc = "take" /\ caller[c].call = "FinishAuth" /\ UNCHANGED <<slot, reserved>>
      /\ id \in Identities /\ id \in reserved /\ auth[id] # None
  BY CallAt DEF TakesAuth, Deciding, At, OpenAuth, Types, TypeOK
<1>3. /\ OthersStay(c) /\ caller'[c].pc = "close" /\ caller'[c].id = id
      /\ caller'[c].worker = auth[id] /\ caller'[c].call = "FinishAuth"
  BY <1>1, <1>2 DEF OthersStay, Types, TypeOK, CallerStates
<1>4. auth'[id] = None /\ \A i \in Identities \ {id} : auth'[i] = auth[i]
  BY <1>1, <1>2 DEF Types, TypeOK
<1>5. OneFormPerProfile'
  BY <1>2 DEF Tables, OneFormPerProfile, Resident
<1>6. NamesAgree'
  BY <1>2, <1>3, <1>4, OthersKnow, NamesKept DEF Tables, NamesAgree, Mine
<1>7. DecisionsHold'
  BY <1>2, <1>3 DEF Tables, DecisionsHold, Holds, OthersStay, PersonaTaken, Resident, Mine
<1>8. OwnersAlone'
  <2>1. \A d \in Callers : ~OwnsReservation(d, id)
    BY <1>2 DEF Tables, OwnersAlone
  <2> QED  BY <1>2, <1>3, <1>4, <2>1 DEF Tables, OwnersAlone, OwnsReservation, OthersStay
<1> QED  BY <1>5, <1>6, <1>7, <1>8 DEF Tables

\* A shutdown empties the tables when nobody else is behind the gate.
LEMMA EmptiesTables ==
    ASSUME Types, Gates, Tables, NEW c \in Callers, ShutdownDrained(c) \/ EmergencyReturns(c)
    PROVE  Tables'
<1>1. /\ caller[c].pc \in {"drained", "aborting"} /\ NoTables
      /\ OthersStay(c) /\ caller'[c].pc \in {"closing", "idle"}
      /\ caller'[c].call \in Writers \cup {"None"}
  <2>1. CASE ShutdownDrained(c)
    BY <2>1, CallAt DEF ShutdownDrained, Deciding, At, OthersStay, Types, TypeOK, CallerStates
  <2>2. CASE EmergencyReturns(c)
    BY <2>2, LeavesFacts DEF EmergencyReturns, Returns, At, Idle
  <2> QED  BY <2>1, <2>2
<1>2. gate.writer = c /\ gate.readers = {}
  BY <1>1, CallAt, StationAssumption DEF Gates, Inside, Writers
<1>3. \A d \in Callers \ {c} : caller[d].pc \in {"idle", "gate"} /\ caller'[d] = caller[d]
  BY <1>1, <1>2 DEF Gates, Inside, OthersStay
<1>4. \A d \in Callers : ~Holds(d)' /\ caller'[d].pc \notin Keeping
  BY <1>1, <1>3 DEF Holds, Keeping, Holding, Waits, Opens, Writers
<1>5. \A d \in Callers, id \in Identities : ~OwnsReservation(d, id)'
  BY <1>1, <1>3, CallAt DEF OwnsReservation, Writers
<1>6. Resident' = {} /\ reserved' = {} /\ \A id \in Identities : slot'[id] = None /\ auth'[id] = None
  BY <1>1 DEF NoTables, Resident
<1> QED  BY <1>4, <1>5, <1>6 DEF Tables, OneFormPerProfile, NamesAgree, DecisionsHold, OwnersAlone, Mine

\* The empty tables agree with everybody.
LEMMA TablesInit == Init => Tables
BY DEF Init, Tables, OneFormPerProfile, NamesAgree, DecisionsHold, OwnersAlone, Resident,
       Holds, OwnsReservation, Keeping, Holding, Waits, Idle

\* Every step of the station leaves the tables in agreement with the callers in flight.
LEMMA TablesNext == Types /\ Gates /\ Tables /\ [Next]_vars => Tables'
<1> SUFFICES ASSUME Types, Gates, Tables, [Next]_vars PROVE Tables'
  OBVIOUS
<1>1. Evolution
  BY StepEvolves
<1>2. CASE AllWeaker
  BY <1>1, <1>2, TablesStay DEF AllWeaker
<1>3. ASSUME NEW c \in Callers, Rewrites(c) PROVE Tables'
  BY <1>1, <1>3, DecidesTables, RetiresTables, SpawnsTables, LeasedTables, ReservesTables,
     SettlesTables, TakesTables, EmptiesTables DEF Rewrites
<1> QED  BY <1>2, <1>3, StepIsWeaker

\* Everything that holds of a state on the way, and needs no condition.
Settings == Types /\ Gates /\ Tables

\* Types, gates and tables hold together in every reachable state.
LEMMA SettingsHold == Spec => []Settings
<1>1. Init => Settings
  BY TypesInit, GatesInit, TablesInit DEF Settings
<1>2. Settings /\ [Next]_vars => Settings'
  BY TypesNext, GatesNext, TablesNext DEF Settings
<1> QED  BY <1>1, <1>2, PTL DEF Spec

\* A profile is open under one identity, in one way: as a resident or as an authentication
\* session, whichever calls are in flight and whichever of their futures are dropped.
THEOREM ProfilesHaveOneForm == Spec => []OneFormPerProfile
<1>1. Settings => OneFormPerProfile
  BY DEF Settings, Tables
<1> QED  BY <1>1, SettingsHold, PTL

-----------------------------------------------------------------------------
(* Residents under lease *)

\* A resident that is taken away: nobody has it on lease, or lease() found it unable to serve.
MayGo(id) ==
    \/ Leases(slot[id]) = 0
    \/ \E c \in Callers : lock' = c /\ caller'[c].pc = "retire"
                          /\ caller[c].pc \in {"decide", "broken", "settle"}
                          /\ (caller[c].pc # "broken" =>
                                Phase(slot[id]) \notin {"ready", "restarting"})

\* While the station is not shutting down, a slot is emptied or refilled only when its resident may
\* go.
LEMMA ResidentsKept ==
    ASSUME Settings, [Next]_vars, ~shutting, NEW id \in Identities, slot[id] # None,
           slot'[id] # slot[id]
    PROVE  MayGo(id)
<1> USE DEF Deciding, At
<1>1. slot' # slot
  OBVIOUS
<1>2. PICK c \in Callers : Rewrites(c)
  BY <1>1, StepIsWeaker DEF Settings, AllWeaker, tables
<1>3. CASE LeaseRetires(c)
  <2>1. Vacates(caller[c].id) /\ GotoFor(c, "retire", Found(c)) /\ lock' = c /\ caller[c].pc = "decide"
    BY <1>3 DEF LeaseRetires, Considers, Retires, Locks
  <2>2. id = caller[c].id
    BY <2>1 DEF Vacates, Settings, Types, TypeOK
  <2>3. \/ Phase(slot[id]) \in {"closing", "stopped", "released"}
        \/ Leases(slot[id]) = 0
    BY <1>3, <2>2 DEF LeaseRetires, Considers, RuntimeBusy, Found
  <2> QED  BY <2>1, <2>3, GotoForFacts DEF MayGo, Settings
<1>4. CASE GivesUp(c)
  <2>1. Vacates(caller[c].id) /\ GotoFor(c, "retire", Mine(c)) /\ lock' = lock
        /\ caller[c].pc \in {"broken", "settle"}
    BY <1>4 DEF GivesUp, Retires
  <2>2. id = caller[c].id
    BY <2>1 DEF Vacates, Settings, Types, TypeOK
  <2>3. Holds(c) /\ lock = c
    BY <2>1, CallAt DEF Settings, Gates, Holds, Waits
  <2>4. Mine(c) = slot[id]
    BY <2>1, <2>2, <2>3 DEF Settings, Tables, DecisionsHold, Waits
  <2>5. caller[c].pc # "broken" => Phase(slot[id]) \notin {"ready", "restarting"}
    BY <1>4, <2>4 DEF GivesUp
  <2> QED  BY <2>1, <2>3, <2>5, GotoForFacts DEF MayGo, Settings
<1>5. CASE MakesRoom(c) \/ AuthReserves(c)
  <2>0. caller[c].id \in Identities
    BY <1>5, CallAt, HandleFacts DEF MakesRoom, AuthReserves, OnIdentity, Settings
  <2>1. PICK i \in Identities : Vacates(i) /\ Leases(slot[i]) = 0
    <3>1. CASE MakesRoom(c)
      BY <3>1 DEF MakesRoom, Evicts, Idles, Resident
    <3>2. CASE AuthReserves(c)
      <4>1. PICK i \in Victims(c) : Vacates(i)
        BY <1>1, <3>2 DEF AuthReserves, Evicts
      <4>2. i \in Identities /\ Leases(slot[i]) = 0
        BY <2>0, <4>1 DEF Victims, Idles, Resident
      <4> QED  BY <4>1, <4>2
    <3> QED  BY <1>5, <3>1, <3>2
  <2>2. id = i
    BY <2>1 DEF Vacates, Settings, Types, TypeOK
  <2> QED  BY <2>1, <2>2 DEF MayGo
<1>6. CASE NewIsLeased(c)
  <2>1. caller[c].pc = "settleNew" /\ caller[c].call = "Lease" /\ caller[c].id \in Identities
        /\ slot' = [slot EXCEPT ![caller[c].id] = Mine(c)]
    BY <1>1, <1>6, HandleFacts DEF NewIsLeased, OnIdentity, Settings
  <2>2. slot[caller[c].id] = None
    BY <2>1 DEF Settings, Tables, DecisionsHold, Holds, Opens, Waits
  <2> QED  BY <2>1, <2>2 DEF Settings, Types, TypeOK
<1>7. CASE ShutdownDrained(c) \/ EmergencyReturns(c)
  BY <1>7, CallAt DEF ShutdownDrained, EmergencyReturns, Settings, Gates, Writers
<1> QED
  BY <1>1, <1>2, <1>3, <1>4, <1>5, <1>6, <1>7
     DEF Rewrites, LeaseRepairs, LeaseAwaits, LeaseMisses, Spawns, Installs, Unreserves, TakesAuth, tables

\* A browser under lease is never closed to make room or to change its runtime: while the
\* station is up, a resident goes only when nobody has it on lease, or when lease() took it
\* away as unable to serve.
THEOREM LeasesAreKept == Spec => LeaseKeepsBrowser
<1>1. Settings /\ [Next]_vars =>
         [\A id \in Identities :
             slot[id] # None /\ slot'[id] # slot[id] /\ ~shutting =>
                 \/ Leases(slot[id]) = 0
                 \/ \E c \in Callers : lock' = c /\ caller'[c].pc = "retire"
                                       /\ caller[c].pc \in {"decide", "broken", "settle"}
                                       /\ (caller[c].pc # "broken" =>
                                             Phase(slot[id]) \notin {"ready", "restarting"})]_vars
  BY ResidentsKept DEF MayGo
<1> QED  BY <1>1, SettingsHold, PTL DEF Spec, LeaseKeepsBrowser

-----------------------------------------------------------------------------
(***************************************************************************)
(* Reservations.  As long as no future is dropped, a reservation without a *)
(* browser has the call that will fill it or take it back.                 *)
(***************************************************************************)

Owned ==
    \A id \in reserved : auth[id] = None => \E c \in Callers : OwnsReservation(c, id)

\* Owners stay owners, and the reservations stay, but for the one c has the say of.
LEMMA OwnersStay ==
    ASSUME Types, Owned, NEW c \in Callers, OthersStay(c), NEW x,
           \A id \in Identities \ {x} : OwnsReservation(c, id) => OwnsReservation(c, id)',
           \A id \in reserved' \ {x} : id \in reserved /\ auth'[id] = auth[id],
           x \in reserved' /\ auth'[x] = None => OwnsReservation(c, x)'
    PROVE  Owned'
<1> SUFFICES ASSUME NEW id \in reserved', auth'[id] = None
             PROVE  \E d \in Callers : OwnsReservation(d, id)'
  BY DEF Owned
<1>1. CASE id = x
  BY <1>1
<1>2. CASE id # x
  <2>1. PICK d \in Callers : OwnsReservation(d, id)
    BY <1>2 DEF Owned
  <2>2. id \in Identities
    BY <1>2 DEF Types, TypeOK
  <2> QED  BY <1>2, <2>1, <2>2 DEF OthersStay, OwnsReservation
<1> QED  BY <1>1, <1>2

\* The same, when it has the say of none.
LEMMA AllOwnersStay ==
    ASSUME Types, Owned, NEW c \in Callers, OthersStay(c), UNCHANGED <<reserved, auth>>,
           \A id \in Identities : OwnsReservation(c, id) => OwnsReservation(c, id)'
    PROVE  Owned'
BY DEF Owned, OwnsReservation, OthersStay, Types, TypeOK

\* When no call is dropped, every reservation goes on having the one caller that will take it back.
LEMMA OwnedNext ==
    ASSUME Cancellable = {}, Settings, Owned, [Next]_vars
    PROVE  Owned'
<1> USE DEF Settings, Deciding, At
<1>1. CASE AllWeaker
  BY <1>1 DEF AllWeaker, Weaker, Owned, tables, Types, TypeOK
<1>2. ASSUME NEW c \in Callers, Rewrites(c) PROVE Owned'
  <2>1. CASE \/ LeaseRepairs(c) \/ LeaseAwaits(c) \/ LeaseMisses(c)
             \/ LeaseRetires(c) \/ GivesUp(c) \/ MakesRoom(c) \/ NewIsLeased(c)
    <3>1. caller[c].call = "Lease" /\ UNCHANGED <<reserved, auth>>
      BY <2>1, CallAt
         DEF LeaseRepairs, LeaseAwaits, LeaseMisses, LeaseRetires, Considers, GivesUp, MakesRoom,
             NewIsLeased, tables, Waits
    <3>2. \/ \E pc : Goto(c, pc)
          \/ \E pc, w : GotoFor(c, pc, w)
          \/ Leaves(c)
      BY <2>1 DEF LeaseRepairs, LeaseAwaits, LeaseMisses, LeaseRetires, GivesUp, MakesRoom,
                  Evicts, Retires, NewIsLeased, Disposes, TakesLease
    <3>3. OthersStay(c)
      BY <3>2, GotoFacts, GotoForFacts, LeavesFacts
    <3>4. \A id \in Identities : ~OwnsReservation(c, id)
      BY <3>1 DEF OwnsReservation
    <3> QED  BY <3>1, <3>3, <3>4, AllOwnersStay
  <2>2. CASE Spawns(c)
    <3>1. CASE shutting
      <4>1. AllWeaker
        BY <2>2, <3>1, FailsWeaker DEF Spawns
      <4> QED  BY <1>1, <4>1
    <3>2. CASE ~shutting
      <4>1. /\ \E w : GotoFor(c, "settleNew", w)
            /\ UNCHANGED <<reserved, auth>>
            /\ caller[c].call \in {"Lease", "BeginAuth"}
        BY <2>2, <3>2, CallAt DEF Spawns, tables
      <4>2. /\ OthersStay(c)
            /\ \A id \in Identities : OwnsReservation(c, id) => OwnsReservation(c, id)'
        BY <4>1, GotoForFacts DEF OwnsReservation
      <4> QED  BY <4>1, <4>2, AllOwnersStay
    <3> QED  BY <3>1, <3>2
  <2>3. CASE AuthReserves(c)
    <3>1. /\ caller[c].pc = "reserve" /\ reserved' = reserved \cup {caller[c].id} /\ auth' = auth
          /\ Goto(c, "spawn") \/ \E w : GotoFor(c, "evict", w)
      BY <2>3 DEF AuthReserves, Evicts
    <3>2. OthersStay(c) /\ OwnsReservation(c, caller[c].id)' /\ caller'[c].id = caller[c].id
      BY <3>1, CallAt, GotoFacts, GotoForFacts DEF OwnsReservation
    <3>3. \A id \in Identities : ~OwnsReservation(c, id)
      BY <3>1, CallAt DEF OwnsReservation
    <3>4. PICK x : x = caller[c].id
      OBVIOUS
    <3>5. /\ OwnsReservation(c, x)'
          /\ \A id \in reserved' \ {x} : id \in reserved /\ auth'[id] = auth[id]
      BY <3>1, <3>2, <3>4 DEF OwnsReservation
    <3> QED  BY <3>2, <3>3, <3>5, OwnersStay
  <2>4. CASE Installs(c) \/ Unreserves(c)
    <3>1. /\ caller[c].pc \in {"install", "unreserve"} /\ Leaves(c)
          /\ reserved' \subseteq reserved
          /\ caller[c].id \in reserved' =>
                auth' = [auth EXCEPT ![caller[c].id] = Mine(c)] /\ Mine(c) # None
          /\ \A id \in Identities \ {caller[c].id} : auth'[id] = auth[id]
      BY <2>4, HandleFacts DEF Installs, Unreserves, Holding, Types, TypeOK
    <3>2. OthersStay(c) /\ \A id : OwnsReservation(c, id) => id = caller[c].id
      BY <3>1, LeavesFacts DEF OwnsReservation
    <3>3. caller[c].id \in reserved' => auth'[caller[c].id] # None
      BY <3>1 DEF Types, TypeOK
    <3>4. PICK x : x = caller[c].id
      OBVIOUS
    <3>5. /\ \A id \in Identities \ {x} : ~OwnsReservation(c, id)
          /\ \A id \in reserved' \ {x} : id \in reserved /\ auth'[id] = auth[id]
          /\ x \in reserved' => auth'[x] # None
      BY <3>1, <3>2, <3>3, <3>4 DEF Types, TypeOK
    <3> QED  BY <3>2, <3>5, OwnersStay
  <2>5. CASE TakesAuth(c)
    <3>1. PICK id \in OpenAuth(c) :
             /\ auth' = [auth EXCEPT ![id] = None]
             /\ caller' = [caller EXCEPT ![c].pc = "close", ![c].id = id, ![c].worker = auth[id]]
      BY <2>5 DEF TakesAuth
    <3>2. caller[c].pc = "take" /\ caller[c].call = "FinishAuth" /\ reserved' = reserved
      BY <2>5, CallAt DEF TakesAuth
    <3>3. OthersStay(c) /\ OwnsReservation(c, id)' /\ \A i : ~OwnsReservation(c, i)
      BY <3>1, <3>2 DEF OthersStay, OwnsReservation, Types, TypeOK, CallerStates
    <3>4. \A i \in Identities \ {id} : auth'[i] = auth[i]
      BY <3>1 DEF Types, TypeOK
    <3>5. \A i \in reserved' \ {id} : i \in reserved /\ auth'[i] = auth[i]
      BY <3>2, <3>4 DEF Types, TypeOK
    <3> QED  BY <3>3, <3>5, OwnersStay
  <2>6. CASE ShutdownDrained(c) \/ EmergencyReturns(c)
    BY <2>6 DEF ShutdownDrained, EmergencyReturns, NoTables, Owned
  <2> QED  BY <1>2, <2>1, <2>2, <2>3, <2>4, <2>5, <2>6 DEF Rewrites
<1> QED  BY <1>1, <1>2, StepIsWeaker

\* A reservation without a browser belongs to exactly one call in flight, when no future is
\* dropped: no identity stays blocked after the calls that opened or closed its
\* authentication browser.
THEOREM ReservationsOwned ==
    ASSUME Cancellable = {}
    PROVE  Spec => []ReservationOwned
<1>1. Init => Owned
  BY DEF Init, Owned
<1>2. Settings /\ Owned /\ [Next]_vars => Owned'
  BY OwnedNext
<1>3. Settings /\ Owned => ReservationOwned
  <2> SUFFICES ASSUME Settings, Owned, NEW id \in Identities
               PROVE  Cardinality({c \in Callers : OwnsReservation(c, id)})
                         = IF id \in reserved /\ auth[id] = None THEN 1 ELSE 0
    BY DEF ReservationOwned
  <2>1. CASE id \in reserved /\ auth[id] = None
    <3>1. PICK c \in Callers : OwnsReservation(c, id)
      BY <2>1 DEF Owned
    <3>2. {d \in Callers : OwnsReservation(d, id)} = {c}
      BY <3>1 DEF Settings, Tables, OwnersAlone
    <3> QED  BY <2>1, <3>2, FS_Singleton
  <2>2. CASE ~(id \in reserved /\ auth[id] = None)
    <3>1. {d \in Callers : OwnsReservation(d, id)} = {}
      BY <2>2 DEF Settings, Tables, OwnersAlone
    <3> QED  BY <2>2, <3>1, FS_EmptySet
  <2> QED  BY <2>1, <2>2
<1> QED  BY <1>1, <1>2, <1>3, SettingsHold, PTL DEF Spec

-----------------------------------------------------------------------------
(***************************************************************************)
(* Where every worker is.  While the station is up and no future is        *)
(* dropped, a worker that was not released is in one of the tables or with *)
(* the call that opened it, and was not told to stop; or a call is waiting *)
(* for it to be gone.                                                      *)
(***************************************************************************)

\* Here a caller has a new worker, or waits for one it told to stop.
Fresh == {"settleNew", "navigate", "install"}
Parting == {"retire", "evict", "dispose", "close"}

Kept(w) == \/ slot[worker[w].id] = w \/ auth[worker[w].id] = w
           \/ \E c \in Callers : Mine(c) = w /\ caller[c].pc \in Fresh
InUse(w) == Kept(w) /\ worker[w].asked = "nothing" /\ Phase(w) \notin {"closing", "stopped"}
GivenUp(w) == \E c \in Callers : Mine(c) = w /\ caller[c].pc \in Parting

Accounted == ~shutting => \A w \in Handles : Phase(w) = "released" \/ InUse(w) \/ GivenUp(w)

\* What a step owes the account: a call waits until its worker is released, a worker in use
\* stays so unless some call tells it to stop and waits, as for every worker told to, and a
\* new worker is in use unless the station is shutting down.
Accounts ==
    /\ \A c \in Callers : caller[c].pc \in Parting =>
          \/ Phase(Mine(c)) = "released"
          \/ caller'[c].pc \in Parting /\ caller'[c].worker = caller[c].worker
    /\ \A w \in Handles : InUse(w) /\ Phase(w) # "released" =>
          (worker'[w].asked = "nothing" /\ Kept(w)') \/ GivenUp(w)'
    /\ \A w \in Handles : worker'[w].asked # worker[w].asked => GivenUp(w)'
    /\ \A w \in Handles' \ Handles : ~shutting => InUse(w)'

\* The account of the workers still balances after a step that evolves them and takes no worker out
\* of use unnoticed.
LEMMA AccountedStays ==
    ASSUME Types, Accounted, Evolution, Accounts, ~shutting' => ~shutting
    PROVE  Accounted'
<1> SUFFICES ASSUME ~shutting', NEW w \in Handles'
             PROVE  Phase(w)' = "released" \/ InUse(w)' \/ GivenUp(w)'
  BY DEF Accounted
<1>1. CASE w \notin Handles
  BY <1>1 DEF Accounts
<1>2. CASE w \in Handles /\ Phase(w) = "released"
  BY <1>2 DEF Evolution, Evolves
<1>3. CASE w \in Handles /\ InUse(w) /\ Phase(w) # "released"
  <2>1. (worker'[w].asked = "nothing" /\ Kept(w)') \/ GivenUp(w)'
    BY <1>3 DEF Accounts
  <2>2. worker'[w].asked = "nothing" => Phase(w)' \notin {"closing", "stopped"}
    BY <1>3 DEF Evolution, Evolves, InUse
  <2> QED  BY <2>1, <2>2 DEF InUse
<1>4. CASE w \in Handles /\ GivenUp(w) /\ Phase(w) # "released"
  BY <1>4 DEF Accounts, GivenUp, Mine
<1> QED  BY <1>1, <1>2, <1>3, <1>4 DEF Accounted

-----------------------------------------------------------------------------
\* No worker is told to stop.
AsksNobody == Handles' = Handles
              /\ \A w \in Handles : worker'[w].asked = worker[w].asked /\ worker'[w].id = worker[w].id

\* c keeps its worker where it has to; the others do not move.
KeepsWorker(c) ==
    /\ caller[c].pc \in Parting =>
          \/ Phase(Mine(c)) = "released"
          \/ caller'[c].pc \in Parting /\ caller'[c].worker = caller[c].worker
    /\ caller[c].pc \in Fresh =>
          \/ Ended(Mine(c))
          \/ caller'[c].pc \in Fresh /\ caller'[c].worker = caller[c].worker

\* A step that leaves the workers alone, or that is a worker's own, asks nobody to end.
LEMMA NobodyAsked ==
    ASSUME Types
    PROVE  /\ UNCHANGED worker => AsksNobody
           /\ \A w \in Handles : \A states \in SUBSET Workers : Became(w, states) => AsksNobody
<1>1. ASSUME NEW w \in Handles, NEW states \in SUBSET Workers, Became(w, states)
      PROVE  AsksNobody
  <2>1. OnlyOne(w) /\ UNCHANGED <<worker[w].id, worker[w].asked>>
    BY <1>1, BecameChanges DEF Types, TypeOK
  <2> QED  BY <2>1 DEF OnlyOne, WorkersOK, AsksNobody
<1> QED  BY <1>1 DEF AsksNobody, Handles

\* A step in which nobody is asked to end, no slot changes and every caller keeps its worker keeps
\* the account.
LEMMA QuietAccounts ==
    ASSUME AsksNobody, UNCHANGED <<slot, auth>>, \A c \in Callers : KeepsWorker(c)
    PROVE  Accounts
<1>1. ASSUME NEW w \in Handles, InUse(w), Phase(w) # "released"
      PROVE  worker'[w].asked = "nothing" /\ Kept(w)'
  <2>1. worker'[w].asked = "nothing" /\ worker'[w].id = worker[w].id
    BY <1>1 DEF AsksNobody, InUse
  <2>2. CASE slot[worker[w].id] = w \/ auth[worker[w].id] = w
    BY <2>1, <2>2 DEF Kept
  <2>3. ASSUME NEW c \in Callers, Mine(c) = w, caller[c].pc \in Fresh
        PROVE  Kept(w)'
    <3>1. ~Ended(Mine(c))
      BY <1>1, <2>3 DEF InUse, Ended
    <3>2. caller'[c].pc \in Fresh /\ caller'[c].worker = w
      BY <2>3, <3>1 DEF KeepsWorker, Mine
    <3> QED  BY <3>2 DEF Kept, Mine
  <2> QED  BY <1>1, <2>1, <2>2, <2>3 DEF InUse, Kept
<1> QED  BY <1>1 DEF Accounts, KeepsWorker, AsksNobody

\* The same when only c moves.
LEMMA OneAccounts ==
    ASSUME AsksNobody, UNCHANGED <<slot, auth>>, NEW c \in Callers, OthersStay(c), KeepsWorker(c)
    PROVE  Accounts
<1>1. \A d \in Callers \ {c} : KeepsWorker(d)
  BY DEF OthersStay, KeepsWorker
<1> QED  BY <1>1, QuietAccounts

\* c tells w to stop, and waits for it.
LEMMA AskingAccounts ==
    ASSUME Types, NEW c \in Callers, NEW w \in Handles, OthersStay(c), OnlyOne(w),
           caller'[c].pc \in Parting, caller'[c].worker = w,
           caller[c].pc \notin Parting, caller[c].pc \in Fresh => Mine(c) = w,
           \A id \in Identities : /\ slot[id] \notin {w, None} => slot'[id] = slot[id]
                                  /\ auth[id] \notin {w, None} => auth'[id] = auth[id]
    PROVE  Accounts
<1>1. \A d \in Callers : caller[d].pc \in Parting =>
         caller'[d].pc \in Parting /\ caller'[d].worker = caller[d].worker
  BY DEF OthersStay
<1>2. GivenUp(w)'
  BY DEF GivenUp, Mine
<1>3. ASSUME NEW v \in Handles \ {w}, InUse(v)
      PROVE  worker'[v].asked = "nothing" /\ Kept(v)'
  <2>1. worker'[v] = worker[v] /\ worker[v].asked = "nothing"
    BY <1>3 DEF OnlyOne, InUse
  <2>2. worker[v].id \in Identities /\ v # None
    BY HandleFacts DEF WorkerRecords, None
  <2>3. CASE slot[worker[v].id] = v \/ auth[worker[v].id] = v
    BY <2>1, <2>2, <2>3 DEF Kept
  <2>4. ASSUME NEW d \in Callers, Mine(d) = v, caller[d].pc \in Fresh
        PROVE  Kept(v)'
    BY <2>4 DEF Kept, Mine, OthersStay
  <2> QED  BY <1>3, <2>1, <2>3, <2>4 DEF InUse, Kept
<1>4. Handles' = Handles /\ \A v \in Handles \ {w} : worker'[v].asked = worker[v].asked
  BY DEF OnlyOne, WorkersOK
<1> QED  BY <1>1, <1>2, <1>3, <1>4 DEF Accounts

\* A call that leaves with nobody to wait for.
LEMMA LeavingAccounts ==
    ASSUME Types, AsksNobody, UNCHANGED <<slot, auth>>, NEW c \in Callers, Leaves(c),
           caller[c].pc \in Parting => Phase(Mine(c)) = "released",
           caller[c].pc \in Fresh => Ended(Mine(c))
    PROVE  Accounts
BY LeavesFacts, OneAccounts DEF KeepsWorker

\* A call that goes on with the worker it has.
LEMMA GoingAccounts ==
    ASSUME Types, AsksNobody, UNCHANGED <<slot, auth>>, NEW c \in Callers, NEW pc, Goto(c, pc),
           caller[c].pc \in Parting => Phase(Mine(c)) = "released" \/ pc \in Parting,
           caller[c].pc \in Fresh => pc \in Fresh
    PROVE  Accounts
BY GotoFacts, OneAccounts DEF KeepsWorker

\* A call may fail without losing a worker when it holds no fresh one and the one it parts from is
\* released.
LEMMA FailingAccounts ==
    ASSUME Types, AsksNobody, UNCHANGED <<slot, auth>>, NEW c \in Callers, Fails(c),
           caller[c].pc \notin Fresh, caller[c].pc \in Parting => Phase(Mine(c)) = "released"
    PROVE  Accounts
BY LeavingAccounts, GoingAccounts DEF Fails

\* A call that takes a worker to wait for, or lets go of one that was released.
LEMMA TurningAccounts ==
    ASSUME Types, AsksNobody, UNCHANGED <<slot, auth>>, NEW c \in Callers, NEW pc, NEW w,
           GotoFor(c, pc, w), caller[c].pc \notin Fresh,
           caller[c].pc \in Parting => Phase(Mine(c)) = "released"
    PROVE  Accounts
BY GotoForFacts, OneAccounts DEF KeepsWorker

\* A resident is told to stop by the call that takes it away.
LEMMA VacatingAccounts ==
    ASSUME Types, NEW c \in Callers, NEW id \in Identities, Vacates(id), auth' = auth,
           NEW w \in Handles, w = slot[id], Asked(w, "shutdown"),
           NEW pc \in {"retire", "evict"}, GotoFor(c, pc, w),
           caller[c].pc \notin Parting, caller[c].pc \notin Fresh
    PROVE  Accounts
<1>1. OnlyOne(w)
  BY AskedChanges DEF Types, TypeOK
<1>2. \A i \in Identities : slot[i] \notin {w, None} => slot'[i] = slot[i]
  BY DEF Vacates, Types, TypeOK
<1> QED  BY <1>1, <1>2, GotoForFacts, AskingAccounts DEF Parting

\* A new worker is told to stop by the call that opened it.
LEMMA DisposingAccounts ==
    ASSUME Types, NEW c \in Callers, Disposes(c), caller[c].pc \in {"settleNew", "navigate"},
           UNCHANGED <<slot, auth>>
    PROVE  Accounts
<1>1. PICK w : w = Mine(c)
  OBVIOUS
<1>2. w \in Handles /\ Asked(w, "shutdown") /\ Goto(c, "dispose")
  BY <1>1, HandleFacts DEF Disposes, Holding
<1>3. OnlyOne(w)
  BY <1>2, AskedChanges DEF Types, TypeOK
<1> QED  BY <1>1, <1>2, <1>3, GotoFacts, AskingAccounts DEF Parting, Fresh, Mine

\* Starting a call, entering or being turned away loses no worker.
LEMMA CallAccounts ==
    ASSUME Cancellable = {}, Types, NEW c \in Callers, CallStep(c) \/ Enters(c) \/ TurnedAway(c),
           ~CallEmergency(c)
    PROVE  Accounts
<1> USE DEF At, Fresh, Parting
<1>1. CASE CallOnIdentity(c) \/ CallOnLease(c) \/ CallShutdown(c)
  <2>1. /\ caller[c].pc = "idle" /\ \E r : Queues(c, r)
        /\ UNCHANGED <<worker, slot, auth>>
    BY <1>1 DEF CallOnIdentity, CallOnLease, CallShutdown, Begins, tables
  <2>2. AsksNobody /\ OthersStay(c)
    BY <2>1, NobodyAsked DEF OthersStay, Queues, Types, TypeOK
  <2> QED  BY <2>1, <2>2, OneAccounts DEF KeepsWorker
<1>2. CASE DropsLease(c)
  BY <1>2, NobodyAsked, OneAccounts DEF DropsLease, KeepsWorker, OthersStay, Mine, tables
<1>3. CASE Enters(c) \/ TurnedAway(c)
  <2>1. gate.waiting \in Seq(Callers) /\ gate.waiting # <<>> /\ c = Head(gate.waiting) /\ Queued
    BY <1>3 DEF Enters, TurnedAway, Granted, Types, TypeOK
  <2>2. Len(gate.waiting) \in Nat \ {0} /\ c = gate.waiting[1]
    BY <2>1, EmptySeq
  <2>3. caller[c].pc = "gate"
    BY <2>1, <2>2 DEF Queued
  <2>4. /\ UNCHANGED <<worker, slot, auth>>
        /\ Leaves(c) \/ \E pc : Goto(c, pc)
    BY <1>3 DEF Enters, TurnedAway, tables
  <2> QED  BY <2>3, <2>4, NobodyAsked, GoingAccounts, LeavingAccounts
<1>4. ~Cancel(c)
  BY DEF Cancel
<1> QED  BY <1>1, <1>2, <1>3, <1>4 DEF CallStep

\* lease() loses no worker: one that leaves its slot is held by the call until it is released.
LEMMA LeaseAccounts ==
    ASSUME Settings, NEW c \in Callers, LeaseStep(c)
    PROVE  Accounts
<1> USE DEF Settings, Deciding, At, Fresh, Parting
<1>1. CASE LeaseRefused(c) \/ LeaseReuses(c) \/ Settled(c) \/ AtCapacity(c)
  <2>1. /\ caller[c].pc \in {"decide", "repaired", "settle", "room"} /\ Leaves(c)
        /\ UNCHANGED <<worker, slot, auth>>
    BY <1>1 DEF LeaseRefused, LeaseReuses, Considers, Settled, AtCapacity, TakesLease, tables
  <2> QED  BY <2>1, NobodyAsked, LeavingAccounts
<1>2. CASE LeaseRepairs(c) \/ LeaseAwaits(c) \/ LeaseMisses(c) \/ HasRoom(c) \/ Retired(c)
  <2>1. /\ \/ caller[c].pc \in {"decide", "room"}
           \/ caller[c].pc = "retire" /\ Phase(Mine(c)) = "released"
        /\ UNCHANGED <<worker, slot, auth>>
        /\ \/ \E pc : Goto(c, pc)
           \/ \E pc, w : GotoFor(c, pc, w)
    BY <1>2 DEF LeaseRepairs, LeaseAwaits, Considers, LeaseMisses, HasRoom, Retired, tables
  <2> QED  BY <2>1, NobodyAsked, GoingAccounts, TurningAccounts
<1>3. CASE RestartBegins(c)
  <2>1. /\ caller[c].pc = "repair" /\ Goto(c, "repairing") /\ UNCHANGED <<slot, auth>>
        /\ Became(Mine(c), Restarting(worker[Mine(c)].state))
    BY <1>3 DEF RestartBegins, tables
  <2>2. Mine(c) \in Handles /\ Restarting(worker[Mine(c)].state) \in SUBSET Workers
    BY <2>1, HandleFacts, StatesAreWorkers DEF Holding, Waits
  <2> QED  BY <2>1, <2>2, NobodyAsked, GoingAccounts
<1>4. CASE LeaseRetires(c)
  <2>1. /\ caller[c].pc = "decide" /\ Found(c) # None /\ Retires(c, Found(c)) /\ auth' = auth
    BY <1>4 DEF LeaseRetires, Considers
  <2>2. PICK w, id : id = caller[c].id /\ w = Found(c)
    OBVIOUS
  <2>3. id \in Identities /\ w = slot[id] /\ w \in Handles
    BY <2>1, <2>2, CallAt, HandleFacts DEF OnIdentity, Found, Resident
  <2> QED  BY <2>1, <2>2, <2>3, VacatingAccounts DEF Retires
<1>5. CASE GivesUp(c)
  <2>1. /\ caller[c].pc \in {"broken", "settle"} /\ Retires(c, Mine(c)) /\ auth' = auth
    BY <1>5 DEF GivesUp
  <2>2. PICK w, id : id = caller[c].id /\ w = Mine(c)
    OBVIOUS
  <2>3. id \in Identities /\ w \in Handles /\ Holds(c)
    BY <2>1, <2>2, CallAt, HandleFacts DEF OnIdentity, Holding, Waits, Holds
  <2>4. w = slot[id]
    BY <2>1, <2>2, <2>3 DEF Tables, DecisionsHold, Waits
  <2> QED  BY <2>1, <2>2, <2>3, <2>4, VacatingAccounts DEF Retires
<1>6. CASE MakesRoom(c)
  <2>1. PICK id \in Resident : Evicts(c, id)
    BY <1>6 DEF MakesRoom, Idles
  <2>2. PICK w : w = slot[id]
    OBVIOUS
  <2>3. caller[c].pc = "room" /\ auth' = auth /\ id \in Identities /\ w \in Handles
    BY <1>6, <2>2, HandleFacts DEF MakesRoom, Resident
  <2> QED  BY <2>1, <2>2, <2>3, VacatingAccounts DEF Evicts
<1> QED  BY <1>1, <1>2, <1>3, <1>4, <1>5, <1>6 DEF LeaseStep

\* A spawn loses no worker: the new one is installed, or held by the call until it is disposed of.
LEMMA SpawnAccounts ==
    ASSUME Settings, NEW c \in Callers, SpawnStep(c)
    PROVE  Accounts
<1> USE DEF Settings, At, Fresh, Parting
<1>1. CASE Evicted(c) \/ SpawnFails(c) \/ Disposed(c)
  <2>1. /\ \/ caller[c].pc = "spawn"
           \/ caller[c].pc \in {"evict", "dispose"} /\ Phase(Mine(c)) = "released"
        /\ UNCHANGED <<worker, slot, auth>>
        /\ GotoFor(c, "spawn", None) \/ Fails(c)
    BY <1>1 DEF Evicted, SpawnFails, Disposed, tables
  <2> QED  BY <2>1, NobodyAsked, FailingAccounts, TurningAccounts
<1>2. CASE NewIsVisible(c)
  BY <1>2, NobodyAsked, GoingAccounts DEF NewIsVisible, tables
<1>3. CASE NewFails(c)
  <2>1. /\ caller[c].pc = "settleNew" /\ UNCHANGED <<slot, auth>>
        /\ \/ Leaves(c) /\ UNCHANGED worker /\ Ended(Mine(c))
           \/ Disposes(c)
    BY <1>3 DEF NewFails, tables
  <2> QED  BY <2>1, NobodyAsked, LeavingAccounts, DisposingAccounts
<1>4. CASE Spawns(c) /\ ~shutting
  <2>1. PICK n : n = Len(worker) + 1
    OBVIOUS
  <2>2. /\ caller[c].pc = "spawn" /\ GotoFor(c, "settleNew", n) /\ UNCHANGED <<slot, auth>>
    BY <1>4, <2>1 DEF Spawns, tables
  <2>3. /\ Handles' = Handles \cup {n} /\ worker'[n] = New(c)
        /\ \A v \in Handles : worker'[v] = worker[v]
    BY <1>4, <2>1, SpawnChanges
  <2>4. /\ OthersStay(c) /\ caller'[c].pc = "settleNew" /\ caller'[c].worker = n
    BY <2>2, GotoForFacts
  <2>5. \A d \in Callers : caller[d].pc \in Fresh \cup Parting => caller'[d] = caller[d]
    BY <2>2, <2>4 DEF OthersStay
  <2>6. ASSUME NEW w \in Handles, InUse(w)
        PROVE  worker'[w].asked = "nothing" /\ Kept(w)'
    <3>1. worker'[w] = worker[w]
      BY <2>3
    <3> QED  BY <2>2, <2>5, <2>6, <3>1 DEF InUse, Kept, Mine
  <2>7. InUse(n)'
    <3>1. New(c).asked = "nothing" /\ New(c).state.phase = "starting"
      BY <1>4 DEF New, Spawned
    <3> QED  BY <2>3, <2>4, <3>1 DEF InUse, Kept, Mine, Phase
  <2> QED  BY <2>3, <2>5, <2>6, <2>7 DEF Accounts
<1>5. CASE NewIsLeased(c) /\ ~shutting
  <2>1. /\ caller[c].pc = "settleNew" /\ caller[c].call = "Lease"
        /\ slot' = [slot EXCEPT ![caller[c].id] = Mine(c)] /\ UNCHANGED <<auth, worker>> /\ Leaves(c)
    BY <1>5 DEF NewIsLeased, TakesLease
  <2>2. caller[c].id \in Identities /\ worker[Mine(c)].id = caller[c].id /\ slot[caller[c].id] = None
    BY <2>1, HandleFacts
       DEF OnIdentity, Tables, NamesAgree, DecisionsHold, Keeping, Holding, Holds, Opens, Waits
  <2>3. /\ slot'[caller[c].id] = Mine(c)
        /\ \A id \in Identities : slot[id] # None => slot'[id] = slot[id]
    BY <2>1, <2>2 DEF Types, TypeOK
  <2>4. OthersStay(c)
    BY <2>1, LeavesFacts
  <2>5. ASSUME NEW w \in Handles, InUse(w)
        PROVE  worker'[w].asked = "nothing" /\ Kept(w)'
    <3>1. worker[w].id \in Identities /\ w # None
      BY HandleFacts DEF WorkerRecords
    <3>2. CASE slot[worker[w].id] = w \/ auth[worker[w].id] = w
      BY <2>1, <2>3, <2>5, <3>1, <3>2 DEF InUse, Kept
    <3>3. ASSUME NEW d \in Callers, Mine(d) = w, caller[d].pc \in Fresh
          PROVE  Kept(w)'
      BY <2>1, <2>2, <2>3, <2>4, <3>3 DEF Kept, OthersStay, Mine
    <3> QED  BY <2>1, <2>5, <3>2, <3>3 DEF InUse, Kept
  <2>6. Handles' = Handles /\ \A d \in Callers : caller[d].pc \in Parting => caller'[d] = caller[d]
    BY <2>1, <2>4 DEF OthersStay, Handles
  <2> QED  BY <2>1, <2>5, <2>6 DEF Accounts
<1>6. CASE Spawns(c) /\ shutting
  <2>1. /\ caller[c].pc = "spawn" /\ Fails(c) /\ UNCHANGED <<slot, auth>>
    BY <1>6 DEF Spawns, tables
  <2>2. PICK n : n = Len(worker) + 1
    OBVIOUS
  <2>3. /\ Handles' = Handles \cup {n} /\ \A v \in Handles : worker'[v] = worker[v]
    BY <1>6, <2>2, SpawnChanges
  <2>4. /\ OthersStay(c) /\ \A d \in Callers : caller[d].pc \in Fresh \cup Parting => d # c
    BY <2>1, GotoFacts, LeavesFacts DEF Fails
  <2>5. \A d \in Callers : caller[d].pc \in Fresh \cup Parting => caller'[d] = caller[d]
    BY <2>4 DEF OthersStay
  <2>6. ASSUME NEW w \in Handles, InUse(w)
        PROVE  worker'[w].asked = "nothing" /\ Kept(w)'
    <3>1. worker'[w] = worker[w]
      BY <2>3
    <3> QED  BY <2>1, <2>5, <2>6, <3>1 DEF InUse, Kept, Mine
  <2> QED  BY <1>6, <2>3, <2>5, <2>6 DEF Accounts
<1>7. CASE NewIsLeased(c) /\ shutting
  BY <1>7, DisposingAccounts DEF NewIsLeased, tables
<1> QED  BY <1>1, <1>2, <1>3, <1>4, <1>5, <1>6, <1>7 DEF SpawnStep

\* The authentication calls lose no worker.
LEMMA AuthAccounts ==
    ASSUME Settings, NEW c \in Callers, AuthStep(c)
    PROVE  Accounts
<1> USE DEF Settings, Deciding, At, Fresh, Parting
<1>1. CASE AuthRefused(c) \/ NoAuthToTake(c) \/ AuthClosed(c)
  <2>1. /\ \/ caller[c].pc \in {"reserve", "take"}
           \/ caller[c].pc = "close" /\ Phase(Mine(c)) = "released"
        /\ UNCHANGED <<worker, slot, auth>>
        /\ Leaves(c) \/ Goto(c, "unreserve")
    BY <1>1 DEF AuthRefused, NoAuthToTake, AuthClosed, tables
  <2> QED  BY <2>1, NobodyAsked, GoingAccounts, LeavingAccounts
<1>2. CASE AuthReserves(c)
  <2>1. CASE Goto(c, "spawn") /\ UNCHANGED <<worker, slot>>
    BY <1>2, <2>1, NobodyAsked, GoingAccounts DEF AuthReserves
  <2>2. ASSUME NEW id \in Victims(c), Evicts(c, id) PROVE Accounts
    <3>1. id \in Resident
      BY <1>2, <2>2, CallAt, HandleFacts
         DEF AuthReserves, Victims, Idles, Found, Resident, OnIdentity
    <3>2. PICK w : w = slot[id]
      OBVIOUS
    <3>3. caller[c].pc = "reserve" /\ auth' = auth /\ id \in Identities /\ w \in Handles
      BY <1>2, <3>1, <3>2, HandleFacts DEF AuthReserves, Resident
    <3> QED  BY <2>2, <3>2, <3>3, VacatingAccounts DEF Evicts
  <2> QED  BY <1>2, <2>1, <2>2 DEF AuthReserves
<1>3. CASE Navigated(c)
  <2>1. caller[c].pc = "navigate" /\ UNCHANGED <<slot, auth>>
    BY <1>3 DEF Navigated, tables
  <2>2. CASE Goto(c, "install") /\ UNCHANGED worker
    BY <2>1, <2>2, NobodyAsked, GoingAccounts
  <2>3. CASE Disposes(c)
    BY <2>1, <2>3, DisposingAccounts
  <2>4. ASSUME NEW s \in Degraded(worker[Mine(c)].state), Goto(c, "dispose"),
               worker' = [worker EXCEPT ![Mine(c)].state = s, ![Mine(c)].asked = "shutdown"]
        PROVE  Accounts
    <3>0. PICK w : w = Mine(c)
      OBVIOUS
    <3> DEFINE e == [worker[w] EXCEPT !.state = s, !.asked = "shutdown"]
    <3>1. w \in Handles /\ worker[w] \in WorkerRecords
      BY <2>1, <3>0, HandleFacts DEF Holding
    <3>2. e \in WorkerRecords
      <4>1. s \in Workers
        BY <2>4, <3>0, <3>1, HandleFacts, StatesAreWorkers
      <4> QED  BY <3>1, <4>1 DEF WorkerRecords
    <3>3. worker' = [worker EXCEPT ![w] = e]
      BY <2>4, <3>0, <3>1 DEF Types, TypeOK
    <3> HIDE DEF e
    <3>4. OnlyOne(w)
      BY <3>1, <3>2, <3>3, WorkerChanges DEF Types, TypeOK
    <3> QED  BY <2>1, <2>4, <3>0, <3>1, <3>4, GotoFacts, AskingAccounts DEF Mine
  <2> QED  BY <1>3, <2>2, <2>3, <2>4 DEF Navigated
<1>4. CASE Installs(c) \/ Unreserves(c)
  <2>1. /\ caller[c].pc \in {"install", "unreserve"} /\ Leaves(c) /\ UNCHANGED <<worker, slot>>
        /\ \/ caller[c].pc = "install" /\ auth' = [auth EXCEPT ![caller[c].id] = Mine(c)]
           \/ caller[c].pc = "unreserve" /\ auth' = [auth EXCEPT ![caller[c].id] = None]
    BY <1>4 DEF Installs, Unreserves
  <2>2. OwnsReservation(c, caller[c].id) /\ caller[c].id \in Identities
    BY <2>1, CallAt, HandleFacts DEF OnIdentity, OwnsReservation
  <2>3. auth[caller[c].id] = None
        /\ (caller[c].pc = "install" => worker[Mine(c)].id = caller[c].id)
    BY <2>2 DEF Tables, OwnersAlone, NamesAgree, Keeping, Holding
  <2>4. /\ caller[c].pc = "install" => auth'[caller[c].id] = Mine(c)
        /\ \A id \in Identities : auth[id] # None => auth'[id] = auth[id]
    BY <2>1, <2>2, <2>3 DEF Types, TypeOK
  <2>5. OthersStay(c)
    BY <2>1, LeavesFacts
  <2>6. ASSUME NEW w \in Handles, InUse(w)
        PROVE  worker'[w].asked = "nothing" /\ Kept(w)'
    <3>1. worker[w].id \in Identities /\ w # None
      BY HandleFacts DEF WorkerRecords
    <3>2. CASE slot[worker[w].id] = w \/ auth[worker[w].id] = w
      BY <2>1, <2>4, <2>6, <3>1, <3>2 DEF InUse, Kept
    <3>3. ASSUME NEW d \in Callers, Mine(d) = w, caller[d].pc \in Fresh
          PROVE  Kept(w)'
      BY <2>1, <2>3, <2>4, <2>5, <3>3 DEF Kept, OthersStay, Mine
    <3> QED  BY <2>1, <2>6, <3>2, <3>3 DEF InUse, Kept
  <2>7. Handles' = Handles /\ \A d \in Callers : caller[d].pc \in Parting => caller'[d] = caller[d]
    BY <2>1, <2>5 DEF OthersStay, Handles
  <2> QED  BY <2>1, <2>6, <2>7 DEF Accounts
<1>5. CASE TakesAuth(c)
  <2>1. PICK id \in OpenAuth(c) :
           /\ auth' = [auth EXCEPT ![id] = None]
           /\ Asked(auth[id], "shutdown")
           /\ caller' = [caller EXCEPT ![c].pc = "close", ![c].id = id, ![c].worker = auth[id]]
    BY <1>5 DEF TakesAuth
  <2>2. PICK w : w = auth[id]
    OBVIOUS
  <2>3. id \in Identities /\ w \in Handles /\ caller[c].pc = "take" /\ slot' = slot
    BY <1>5, <2>2, HandleFacts DEF TakesAuth, OpenAuth, Types, TypeOK
  <2>4. OnlyOne(w)
    BY <2>1, <2>2, <2>3, AskedChanges DEF Types, TypeOK
  <2>5. OthersStay(c) /\ caller'[c].pc = "close" /\ caller'[c].worker = w
    BY <2>1, <2>2 DEF OthersStay, Types, TypeOK, CallerStates
  <2>6. \A i \in Identities : auth[i] \notin {w, None} => auth'[i] = auth[i]
    BY <2>1, <2>2 DEF Types, TypeOK
  <2> QED  BY <2>3, <2>4, <2>5, <2>6, AskingAccounts
<1> QED  BY <1>1, <1>2, <1>3, <1>4, <1>5 DEF AuthStep

\* A call on a lease loses no worker.
LEMMA UseAccounts ==
    ASSUME Types, NEW c \in Callers, UseStep(c)
    PROVE  Accounts
<1> USE DEF At, Fresh, Parting
<1>1. CASE UseBegins(c) \/ SubscribeEnds(c)
  <2>1. /\ caller[c].pc \in {"session", "subscribe", "subscribed"}
        /\ UNCHANGED <<worker, slot, auth>>
        /\ Leaves(c) \/ Goto(c, "using")
    BY <1>1 DEF UseBegins, SubscribeEnds, tables
  <2> QED  BY <2>1, NobodyAsked, GoingAccounts, LeavingAccounts
<1>2. CASE UseEnds(c) \/ UseRestarts(c)
  <2>1. PICK w : w = Mine(c)
    OBVIOUS
  <2>2. /\ caller[c].pc \in {"using", "retried"} /\ UNCHANGED <<slot, auth>>
        /\ Leaves(c) \/ Goto(c, "restarting")
        /\ \/ UNCHANGED worker
           \/ Became(w, Degraded(worker[w].state))
           \/ Became(w, Restarting(worker[w].state))
    BY <1>2, <2>1 DEF UseEnds, UseRestarts, tables
  <2>3. w \in Handles /\ worker[w].state \in Workers
    BY <2>1, <2>2, CallAt, HandleFacts DEF OnLease
  <2>4. AsksNobody
    BY <2>2, <2>3, NobodyAsked, StatesAreWorkers
  <2> QED  BY <2>2, <2>4, GoingAccounts, LeavingAccounts
<1>3. CASE SubscribeBegins(c)
  <2>1. PICK w : w = Mine(c)
    OBVIOUS
  <2>2. caller[c].pc = "subscribe" /\ Goto(c, "subscribed") /\ UNCHANGED <<slot, auth>>
        /\ worker' = [worker EXCEPT ![w].subscriber = c]
    BY <1>3, <2>1 DEF SubscribeBegins, tables
  <2> DEFINE e == [worker[w] EXCEPT !.subscriber = c]
  <2>3. w \in Handles /\ worker[w] \in WorkerRecords
    BY <2>1, <2>2, CallAt, HandleFacts DEF OnLease
  <2>4. e \in WorkerRecords /\ e.asked = worker[w].asked /\ e.id = worker[w].id
    BY <2>3 DEF WorkerRecords
  <2>5. worker' = [worker EXCEPT ![w] = e]
    BY <2>2
  <2> HIDE DEF e
  <2>6. AsksNobody
    BY <2>3, <2>4, <2>5, WorkerChanges DEF Types, TypeOK, OnlyOne, WorkersOK, AsksNobody
  <2> QED  BY <2>2, <2>6, GoingAccounts
<1> QED  BY <1>1, <1>2, <1>3 DEF UseStep

\* A worker's own step takes it out of nobody's hands.
LEMMA WorkerAccounts ==
    ASSUME Types, NEW w \in Handles, WorkerStep(w) \/ SubscriptionEnds(w)
    PROVE  Accounts
<1>0. worker[w] \in WorkerRecords /\ worker[w].state \in Workers
  BY HandleFacts
<1>1. UNCHANGED <<slot, auth>>
  BY DEF WorkerStep, WorkerStarts, WorkerRestarts, WorkerCloses, WorkerEnds, SubscriptionEnds, tables
<1>2. ASSUME NEW c \in Callers PROVE KeepsWorker(c)
  <2>1. caller'[c] = caller[c] \/ caller[c].pc \in {"restarting", "repair", "repairing"}
    BY DEF WorkerStep, WorkerStarts, WorkerRestarts, WorkerCloses, WorkerEnds, SubscriptionEnds, At
  <2> QED  BY <2>1 DEF KeepsWorker, Fresh, Parting
<1>3. AsksNobody
  <2>1. CASE WorkerStep(w)
    <3>1. \E states \in {Started(worker[w].state), Restarted(worker[w].state),
                         Closing(worker[w].state),
                         {s \in Stopped(worker[w].state) : CloseBounded => ~s.live},
                         Released(worker[w].state)} : Became(w, states)
      BY <2>1 DEF WorkerStep, WorkerStarts, WorkerRestarts, WorkerCloses, WorkerEnds, Became
    <3>2. \A states \in {Started(worker[w].state), Restarted(worker[w].state),
                         Closing(worker[w].state),
                         {s \in Stopped(worker[w].state) : CloseBounded => ~s.live},
                         Released(worker[w].state)} : states \in SUBSET Workers
      BY <1>0, StatesAreWorkers
    <3> QED  BY <3>1, <3>2, NobodyAsked
  <2>2. CASE SubscriptionEnds(w)
    <3> DEFINE e == [worker[w] EXCEPT !.subscriber = Nobody]
    <3>1. e \in WorkerRecords /\ e.asked = worker[w].asked /\ e.id = worker[w].id
      BY <1>0 DEF WorkerRecords
    <3>2. worker' = [worker EXCEPT ![w] = e]
      BY <2>2 DEF SubscriptionEnds
    <3> HIDE DEF e
    <3> QED  BY <3>1, <3>2, WorkerChanges DEF Types, TypeOK, OnlyOne, WorkersOK, AsksNobody
  <2> QED  BY <2>1, <2>2
<1> QED  BY <1>1, <1>2, <1>3, QuietAccounts

\* shutting_down is never taken back.
LEMMA ShuttingStays ==
    ASSUME [Next]_vars, shutting
    PROVE  shutting'
<1> USE DEF Begins, Disposes
<1>1. ASSUME NEW c \in Callers, CallStep(c) PROVE shutting'
  BY <1>1 DEF CallStep, CallOnIdentity, CallOnLease, CallShutdown, CallEmergency, DropsLease, Cancel
<1>2. ASSUME NEW c \in Callers, LeaseStep(c) \/ Enters(c) \/ TurnedAway(c) PROVE shutting'
  BY <1>2 DEF LeaseStep, Enters, TurnedAway, LeaseRefused, LeaseReuses, LeaseRepairs, LeaseAwaits,
              LeaseRetires, LeaseMisses, RestartBegins, Settled, GivesUp, Retired, HasRoom,
              MakesRoom, AtCapacity
<1>3. ASSUME NEW c \in Callers, SpawnStep(c) \/ AuthStep(c) PROVE shutting'
  BY <1>3 DEF SpawnStep, Evicted, SpawnFails, Spawns, NewIsLeased, NewIsVisible, NewFails, Disposed,
              AuthStep, AuthRefused, AuthReserves, Navigated, Installs, Unreserves, TakesAuth,
              NoAuthToTake, AuthClosed
<1>4. ASSUME NEW c \in Callers, UseStep(c) \/ WriterStep(c) PROVE shutting'
  BY <1>4 DEF UseStep, UseBegins, UseEnds, UseRestarts, SubscribeBegins, SubscribeEnds, WriterStep,
              ShutdownDrained, ShutdownAsks, ShutdownWaited, ShutdownReturns, EmergencyDrained,
              EmergencyWaited, HardAborts, EmergencyReturns
<1>5. ASSUME NEW w \in Handles, WorkerStep(w) \/ SubscriptionEnds(w) PROVE shutting'
  BY <1>5 DEF WorkerStep, WorkerStarts, WorkerRestarts, WorkerCloses, WorkerEnds, SubscriptionEnds
<1> QED  BY <1>1, <1>2, <1>3, <1>4, <1>5 DEF Next, Proceed, vars

\* When no call is dropped and the station is not shutting down, every step leaves each worker in
\* use, in somebody's hands, or released.
LEMMA AccountedNext ==
    ASSUME Cancellable = {}, Settings, Accounted, [Next]_vars
    PROVE  Accounted'
<1> USE DEF Settings
<1>1. CASE shutting'
  BY <1>1 DEF Accounted
<1>2. CASE ~shutting'
  <2>1. ~shutting
    BY <1>2, ShuttingStays
  <2>2. Evolution
    BY StepEvolves
  <2>3. Accounts
    <3>1. ASSUME NEW c \in Callers, WriterStep(c) PROVE FALSE
      <4>1. caller[c].pc \in {"drained", "closing", "aborting"}
        BY <3>1 DEF WriterStep, ShutdownDrained, ShutdownAsks, ShutdownWaited, ShutdownReturns,
                    EmergencyDrained, EmergencyWaited, HardAborts, EmergencyReturns, Deciding, At
      <4> QED  BY <2>1, <4>1, CallAt DEF Gates, Writers
    <3>4. ASSUME NEW c \in Callers, CallEmergency(c) PROVE FALSE
      BY <1>2, <3>4 DEF CallEmergency
    <3>2. ASSUME NEW c \in Callers, CallStep(c) \/ Proceed(c) PROVE Accounts
      BY <1>2, <2>1, <3>1, <3>4, <3>2, CallAccounts, LeaseAccounts, SpawnAccounts, AuthAccounts,
         UseAccounts DEF Proceed
    <3>3. CASE UNCHANGED vars
      BY <3>3, NobodyAsked, QuietAccounts DEF vars, tables, KeepsWorker
    <3> QED  BY <3>2, <3>3, WorkerAccounts DEF Next
  <2> QED  BY <2>1, <2>2, <2>3, AccountedStays
<1> QED  BY <1>1, <1>2

-----------------------------------------------------------------------------
(***************************************************************************)
(* Who waits for a worker that starts: the call that opened it, and nobody *)
(* else.  A victim of lease() is of no profile that is reserved.           *)
(***************************************************************************)

NoneStarting ==
    /\ \A id \in Identities : slot[id] # None => Phase(slot[id]) # "starting"
    /\ \A id \in Identities : auth[id] # None => Phase(auth[id]) # "starting"
    /\ \A c \in Callers : caller[c].pc \in Holding \ {"settleNew"} => Phase(Mine(c)) # "starting"

EvictedApart ==
    \A c \in Callers : Holds(c) /\ At(c, "evict") =>
        \A id \in reserved : ProfileOf[id] # ProfileOf[worker[Mine(c)].id]

Apart == NoneStarting /\ EvictedApart

\* What was not starting does not start again.
LEMMA StartedStays ==
    ASSUME Types, NoneStarting, Evolution
    PROVE  /\ \A id \in Identities : slot[id] # None => worker'[slot[id]].state.phase # "starting"
           /\ \A id \in Identities : auth[id] # None => worker'[auth[id]].state.phase # "starting"
           /\ \A c \in Callers : caller[c].pc \in Holding \ {"settleNew"}
                 => worker'[Mine(c)].state.phase # "starting"
           /\ \A c \in Callers : caller[c].pc \in Holding /\ Phase(Mine(c)) # "starting"
                 => worker'[Mine(c)].state.phase # "starting"
<1>1. \A w \in Handles : worker[w].state.phase # "starting" => worker'[w].state.phase # "starting"
  BY DEF Evolution, Evolves, Phase
<1>2. /\ \A id \in Identities : auth[id] # None => auth[id] \in Handles
      /\ \A id \in Identities : slot[id] # None => slot[id] \in Handles
      /\ \A c \in Callers : caller[c].pc \in Holding => Mine(c) \in Handles
  BY HandleFacts DEF Resident
<1> QED  BY <1>1, <1>2 DEF NoneStarting, Phase

\* c may move to a worker that is not starting, and the tables name only such workers.
LEMMA NoneStarts ==
    ASSUME Types, NoneStarting, Evolution, NEW c \in Callers, OthersStay(c),
           \A id \in Identities : slot'[id] \notin {None, slot[id]}
              => worker'[slot'[id]].state.phase # "starting",
           \A id \in Identities : auth'[id] \notin {None, auth[id]}
              => worker'[auth'[id]].state.phase # "starting",
           caller'[c].pc \in Holding \ {"settleNew"}
              => worker'[caller'[c].worker].state.phase # "starting"
    PROVE  NoneStarting'
<1>1. \A d \in Callers \ {c} : caller'[d].pc \in Holding \ {"settleNew"}
         => worker'[caller'[d].worker].state.phase # "starting"
  BY StartedStays DEF OthersStay, Mine
<1>2. \A id \in Identities : slot'[id] # None => worker'[slot'[id]].state.phase # "starting"
  BY StartedStays
<1>3. \A id \in Identities : auth'[id] # None => worker'[auth'[id]].state.phase # "starting"
  BY StartedStays
<1> QED  BY <1>1, <1>2, <1>3 DEF NoneStarting, Mine, Phase

\* Where c comes to hold a worker, it is one of the tables, or the one it waited for.
LEMMA NoneStartingNext ==
    ASSUME Settings, NoneStarting, [Next]_vars
    PROVE  NoneStarting'
<1> USE DEF Settings, Deciding, At
<1>0. Evolution
  BY StepEvolves
<1>1. CASE AllWeaker
  <2>1. ASSUME NEW c \in Callers, caller'[c].pc \in Holding \ {"settleNew"}
        PROVE  worker'[caller'[c].worker].state.phase # "starting"
    <3>1. CASE caller'[c].pc = "evict"
      BY <1>0, <1>1, <3>1, StartedStays DEF AllWeaker, Weaker, Holding, Mine
    <3>2. CASE caller'[c].pc \in Keeping \ {"settleNew"}
      <4>1. caller[c].pc \in Keeping /\ caller'[c].worker = Mine(c)
            /\ (caller[c].pc = "settleNew" => Phase(Mine(c)) # "starting")
        BY <1>1, <3>2 DEF AllWeaker, Weaker, Mine
      <4> QED  BY <1>0, <4>1, StartedStays DEF Keeping
    <3> QED  BY <2>1, <3>1, <3>2 DEF Keeping
  <2> QED  BY <1>0, <1>1, <2>1, StartedStays DEF AllWeaker, tables, NoneStarting, Mine, Phase
<1>2. ASSUME NEW c \in Callers, Rewrites(c) PROVE NoneStarting'
  <2>1. CASE LeaseRepairs(c) \/ LeaseAwaits(c) \/ LeaseMisses(c)
    <3>1. /\ caller[c].pc = "decide" /\ UNCHANGED <<slot, auth>>
          /\ \/ \E pc : GotoFor(c, pc, Found(c)) /\ Found(c) # None
             \/ Goto(c, "room")
      BY <2>1 DEF LeaseRepairs, LeaseAwaits, LeaseMisses, Considers, tables
    <3>2. caller[c].id \in Identities
      BY <3>1, CallAt, HandleFacts DEF OnIdentity
    <3>3. /\ OthersStay(c)
          /\ \/ slot[caller[c].id] # None /\ caller'[c].worker = slot[caller[c].id]
             \/ caller'[c].pc = "room"
      BY <3>1, GotoFacts, GotoForFacts DEF Found
    <3> QED  BY <1>0, <3>1, <3>2, <3>3, StartedStays, NoneStarts DEF Holding, Waits
  <2>2. CASE LeaseRetires(c) \/ GivesUp(c)
    <3>1. /\ Vacates(caller[c].id) /\ auth' = auth
          /\ \/ caller[c].pc = "decide" /\ Found(c) # None /\ GotoFor(c, "retire", Found(c))
             \/ caller[c].pc \in Waits /\ GotoFor(c, "retire", Mine(c))
      BY <2>2 DEF LeaseRetires, Considers, GivesUp, Retires, Waits
    <3>2. caller[c].id \in Identities
      BY <3>1, CallAt, HandleFacts DEF OnIdentity
    <3>3. /\ OthersStay(c)
          /\ \/ caller'[c].worker = slot[caller[c].id] /\ slot[caller[c].id] # None
             \/ caller'[c].worker = Mine(c) /\ caller[c].pc \in Waits
      BY <3>1, GotoForFacts DEF Found
    <3>4. worker'[caller'[c].worker].state.phase # "starting"
      BY <1>0, <3>2, <3>3, StartedStays DEF Holding, Waits
    <3>5. \A id \in Identities : slot'[id] \in {None, slot[id]}
      BY <3>1 DEF Vacates, Types, TypeOK
    <3> QED  BY <1>0, <3>1, <3>3, <3>4, <3>5, NoneStarts
  <2>3. CASE MakesRoom(c)
    <3>1. PICK id \in Resident : Evicts(c, id)
      BY <2>3 DEF MakesRoom, Idles
    <3>2. OthersStay(c) /\ caller'[c].worker = slot[id] /\ id \in Identities /\ slot[id] # None
          /\ auth' = auth
      BY <2>3, <3>1, GotoForFacts DEF MakesRoom, Evicts, Resident
    <3>3. \A i \in Identities : slot'[i] \in {None, slot[i]}
      BY <3>1 DEF Evicts, Vacates, Types, TypeOK
    <3> QED  BY <1>0, <3>2, <3>3, StartedStays, NoneStarts
  <2>4. CASE Spawns(c)
    <3>1. UNCHANGED <<slot, auth>>
      BY <2>4 DEF Spawns, tables
    <3>2. OthersStay(c) /\ caller'[c].pc \in {"idle", "unreserve", "settleNew"}
      BY <2>4, GotoFacts, GotoForFacts, LeavesFacts DEF Spawns, Fails, Idle
    <3> QED  BY <1>0, <3>1, <3>2, NoneStarts DEF Holding, Waits
  <2>5. CASE NewIsLeased(c)
    <3>1. Mine(c) \in Handles /\ caller[c].pc = "settleNew" /\ Phase(Mine(c)) = "ready" /\ auth' = auth
      BY <2>5, HandleFacts DEF NewIsLeased, Holding
    <3>2. worker'[Mine(c)].state.phase # "starting"
      BY <1>0, <3>1, StartedStays DEF Holding
    <3>3. /\ OthersStay(c)
          /\ \/ slot' = slot /\ caller'[c].worker = Mine(c)
             \/ slot' = [slot EXCEPT ![caller[c].id] = Mine(c)] /\ caller'[c].pc = "idle"
      BY <2>5, GotoFacts, LeavesFacts DEF NewIsLeased, Disposes, TakesLease, Idle, Mine
    <3>4. \A id \in Identities : slot'[id] \in {slot[id], Mine(c)}
      BY <3>3 DEF Types, TypeOK
    <3> QED  BY <1>0, <3>1, <3>2, <3>3, <3>4, NoneStarts DEF Holding, Waits
  <2>6. CASE AuthReserves(c)
    <3>1. CASE Goto(c, "spawn") /\ slot' = slot
      <4>1. OthersStay(c) /\ caller'[c].pc = "spawn" /\ auth' = auth
        BY <2>6, <3>1, GotoFacts DEF AuthReserves
      <4> QED  BY <1>0, <3>1, <4>1, NoneStarts DEF Holding, Waits
    <3>2. ASSUME NEW id \in Victims(c), Evicts(c, id) PROVE NoneStarting'
      <4>1. id \in Resident
        BY <2>6, <3>2, CallAt, HandleFacts
           DEF AuthReserves, Victims, Idles, Found, Resident, OnIdentity
      <4>2. OthersStay(c) /\ caller'[c].worker = slot[id] /\ id \in Identities /\ slot[id] # None
            /\ auth' = auth
        BY <2>6, <3>2, <4>1, GotoForFacts DEF AuthReserves, Evicts, Resident
      <4>3. \A i \in Identities : slot'[i] \in {None, slot[i]}
        BY <3>2 DEF Evicts, Vacates, Types, TypeOK
      <4> QED  BY <1>0, <4>2, <4>3, StartedStays, NoneStarts
    <3> QED  BY <2>6, <3>1, <3>2 DEF AuthReserves
  <2>7. CASE Installs(c) \/ Unreserves(c)
    <3>1. /\ OthersStay(c) /\ caller'[c].pc = "idle" /\ slot' = slot
          /\ \A id \in Identities :
                \/ auth'[id] \in {auth[id], None}
                \/ auth'[id] = Mine(c) /\ caller[c].pc = "install"
      BY <2>7, LeavesFacts DEF Installs, Unreserves, Idle, Types, TypeOK
    <3> QED  BY <1>0, <3>1, StartedStays, NoneStarts DEF Holding, Waits
  <2>8. CASE TakesAuth(c)
    <3>1. PICK id \in OpenAuth(c) :
             /\ auth' = [auth EXCEPT ![id] = None]
             /\ caller' = [caller EXCEPT ![c].pc = "close", ![c].id = id, ![c].worker = auth[id]]
      BY <2>8 DEF TakesAuth
    <3>2. /\ id \in Identities /\ auth[id] # None /\ slot' = slot
          /\ \A i \in Identities : auth'[i] \in {auth[i], None}
          /\ OthersStay(c) /\ caller'[c].worker = auth[id]
      BY <2>8, <3>1 DEF TakesAuth, OpenAuth, OthersStay, Types, TypeOK, CallerStates
    <3> QED  BY <1>0, <3>2, StartedStays, NoneStarts
  <2>9. CASE ShutdownDrained(c) \/ EmergencyReturns(c)
    <3>1. \A id \in Identities : slot'[id] = None /\ auth'[id] = None
      BY <2>9 DEF ShutdownDrained, EmergencyReturns, NoTables
    <3>2. OthersStay(c) /\ caller'[c].pc \in {"closing", "idle"}
      BY <2>9, LeavesFacts
         DEF ShutdownDrained, EmergencyReturns, Returns, Idle, OthersStay, Types, TypeOK, CallerStates
    <3> QED  BY <1>0, <3>1, <3>2, NoneStarts DEF Holding, Waits
  <2> QED  BY <1>2, <2>1, <2>2, <2>3, <2>4, <2>5, <2>6, <2>7, <2>8, <2>9 DEF Rewrites
<1> QED  BY <1>1, <1>2, StepIsWeaker

\* Nothing is reserved while lease() closes its victim, and the victim was no reservation's.
LEMMA EvictedApartNext ==
    ASSUME Settings, EvictedApart, [Next]_vars
    PROVE  EvictedApart'
<1> USE DEF Settings, Deciding, At
<1>0. \A w \in Handles : worker'[w].id = worker[w].id
  BY StepEvolves DEF Evolution, Evolves
<1>1. ASSUME NEW c \in Callers, Holds(c), caller[c].pc = "evict", caller'[c].worker = Mine(c),
             reserved' \subseteq reserved, NEW id \in reserved'
      PROVE  ProfileOf[id] # ProfileOf[worker'[caller'[c].worker].id]
  <2>1. Mine(c) \in Handles
    BY <1>1, HandleFacts DEF Holding
  <2> QED  BY <1>0, <1>1, <2>1 DEF EvictedApart
<1>2. CASE AllWeaker
  <2> SUFFICES ASSUME NEW c \in Callers, Holds(c)', caller'[c].pc = "evict", NEW id \in reserved'
               PROVE  ProfileOf[id] # ProfileOf[worker'[caller'[c].worker].id]
    BY DEF EvictedApart, Mine
  <2>1. Holds(c) /\ caller[c].pc = "evict" /\ caller'[c].worker = Mine(c) /\ reserved' = reserved
    BY <1>2 DEF AllWeaker, Weaker, tables, Mine
  <2> QED  BY <1>1, <2>1
<1>3. ASSUME NEW d \in Callers, Rewrites(d) PROVE EvictedApart'
  <2> SUFFICES ASSUME NEW c \in Callers, Holds(c)', caller'[c].pc = "evict", NEW id \in reserved'
               PROVE  ProfileOf[id] # ProfileOf[worker'[caller'[c].worker].id]
    BY DEF EvictedApart, Mine
  <2>1. CASE MakesRoom(d) /\ c = d
    <3>1. PICK v \in Resident : Evicts(c, v)
      BY <2>1 DEF MakesRoom, Idles
    <3>2. caller'[c].worker = slot[v] /\ v \in Identities /\ slot[v] # None /\ slot[v] \in Handles
          /\ reserved' = reserved
      BY <2>1, <3>1, GotoForFacts, HandleFacts DEF MakesRoom, Evicts, Resident
    <3>3. worker'[slot[v]].id = v
      BY <1>0, <3>2 DEF Tables, NamesAgree
    <3> QED  BY <3>1, <3>2, <3>3 DEF Tables, OneFormPerProfile
  <2>2. CASE AuthReserves(d)
    <3>1. lock = Nobody /\ caller[d].call = "BeginAuth"
          /\ (Goto(d, "spawn") \/ \E w : GotoFor(d, "evict", w))
      BY <2>2, CallAt DEF AuthReserves, Evicts
    <3>2. OthersStay(d) /\ caller'[d].call = "BeginAuth"
      BY <3>1, GotoFacts, GotoForFacts
    <3> QED  BY <3>1, <3>2, NobodyElseHolds DEF Holds
  <2>3. CASE ~AuthReserves(d) /\ (MakesRoom(d) => c # d)
    <3>1. reserved' \subseteq reserved
      BY <1>3, <2>3 DEF Rewrites, LeaseRepairs, LeaseAwaits, LeaseRetires, LeaseMisses, GivesUp,
                        MakesRoom, Spawns, NewIsLeased, Installs, Unreserves, TakesAuth,
                        ShutdownDrained, EmergencyReturns, NoTables, tables
    <3>2. OthersStay(d) /\ (~MakesRoom(d) => caller'[d].pc # "evict")
      <4>1. CASE MakesRoom(d)
        <5>1. \E w : GotoFor(d, "evict", w)
          BY <4>1 DEF MakesRoom, Evicts
        <5> QED  BY <4>1, <5>1, GotoForFacts
      <4>2. CASE ~MakesRoom(d)
        <5>1. CASE TakesAuth(d) \/ ShutdownDrained(d)
          <6>1. CASE TakesAuth(d)
            <7>1. PICK i \in OpenAuth(d) :
                     caller' = [caller EXCEPT ![d].pc = "close", ![d].id = i, ![d].worker = auth[i]]
              BY <6>1 DEF TakesAuth
            <7> QED  BY <7>1 DEF OthersStay, Types, TypeOK, CallerStates
          <6>2. CASE ShutdownDrained(d)
            BY <6>2 DEF ShutdownDrained, OthersStay, Types, TypeOK, CallerStates
          <6> QED  BY <5>1, <6>1, <6>2
        <5>2. CASE ~TakesAuth(d) /\ ~ShutdownDrained(d)
          <6>1. \/ \E pc : pc # "evict" /\ Goto(d, pc)
                \/ \E pc, w : pc # "evict" /\ GotoFor(d, pc, w)
                \/ Leaves(d)
            BY <1>3, <2>3, <4>2, <5>2
               DEF Rewrites, LeaseRepairs, LeaseAwaits, LeaseRetires, Retires, LeaseMisses, GivesUp,
                   Spawns, Fails, NewIsLeased, Disposes, TakesLease, Installs, Unreserves,
                   EmergencyReturns, Returns
          <6> QED  BY <4>2, <6>1, GotoFacts, GotoForFacts, LeavesFacts DEF Idle
        <5> QED  BY <5>1, <5>2
      <4> QED  BY <4>1, <4>2
    <3>3. Holds(c) /\ caller[c].pc = "evict" /\ caller'[c].worker = Mine(c)
      BY <2>3, <3>2 DEF OthersStay, Holds, Mine
    <3> QED  BY <1>1, <3>1, <3>3
  <2> QED  BY <2>1, <2>2, <2>3
<1> QED  BY <1>2, <1>3, StepIsWeaker

-----------------------------------------------------------------------------
(* Who answers for a worker that was not released *)

\* A worker that starts or was released holds no browser.
Silent == \A w \in Handles : Phase(w) \in {"starting", "released"} => ~Live(w)

\* A worker that has not launched, or has released its browser, runs none, after every step.
LEMMA SilentNext == Types /\ Silent /\ [Next]_vars => Silent'
<1> SUFFICES ASSUME Types, Silent, [Next]_vars PROVE Silent'
  OBVIOUS
<1>1. Evolution
  BY StepEvolves
<1>2. \A w \in Handles : Phase(w)' \in {"starting", "released"} => ~Live(w)'
  BY <1>1 DEF Evolution, Evolves, Silent
<1>3. \A n \in Handles' \ Handles : ~Live(n)'
  BY <1>1 DEF Evolution, Spawned, Live
<1> QED  BY <1>2, <1>3 DEF Silent

\* lease() has it under the mutex, or the owner of a reservation has it.
HeldBy(c, w) ==
    Holds(c) /\ Mine(c) = w /\ caller[c].pc \in {"retire", "evict", "settleNew", "dispose"}
ReservedBy(c, w) ==
    /\ OwnsReservation(c, worker[w].id) /\ Mine(c) = w
    /\ caller[c].pc \in {"settleNew", "navigate", "install", "dispose", "close"}

\* A worker not yet released is resident, authenticates, is held by an opening caller, or is
\* leaving.
LEMMA Claimed ==
    ASSUME Settings, Accounted, ~shutting, NEW w \in Handles, Phase(w) # "released"
    PROVE  \/ slot[worker[w].id] = w \/ auth[worker[w].id] = w
           \/ \E c \in Callers : HeldBy(c, w)
           \/ \E c \in Callers : ReservedBy(c, w)
           \/ Leaving(w)
<1> USE DEF Settings
<1>1. ASSUME NEW c \in Callers, Mine(c) = w, caller[c].pc \in Fresh \cup Parting
      PROVE  HeldBy(c, w) \/ ReservedBy(c, w) \/ Leaving(w)
  <2>1. CASE caller[c].call = "Lease"
    <3>1. caller[c].pc \in {"retire", "evict", "settleNew", "dispose"}
      BY <1>1, <2>1, CallAt DEF Fresh, Parting
    <3> QED  BY <1>1, <2>1, <3>1 DEF HeldBy, Holds, Opens
  <2>2. CASE caller[c].call # "Lease" /\ caller[c].pc = "evict"
    <3>1. lock # c
      BY <2>2 DEF Gates, Holds
    <3> QED  BY <1>1, <2>2, <3>1 DEF Leaving, At
  <2>3. CASE caller[c].call # "Lease" /\ caller[c].pc # "evict"
    <3>1. caller[c].pc \in {"settleNew", "navigate", "install", "dispose", "close"}
          /\ caller[c].call \in {"BeginAuth", "FinishAuth"}
          /\ (caller[c].call = "FinishAuth" => caller[c].pc = "close")
      BY <1>1, <2>3, CallAt DEF Fresh, Parting
    <3>2. worker[w].id = caller[c].id
      BY <1>1, <3>1 DEF Tables, NamesAgree, Keeping, Holding
    <3> QED  BY <1>1, <3>1, <3>2 DEF ReservedBy, OwnsReservation
  <2> QED  BY <2>1, <2>2, <2>3
<1> QED  BY <1>1 DEF Accounted, InUse, Kept, GivenUp

\* A worker that starts is with the call that opened it.
LEMMA StartingWith ==
    ASSUME Settings, Apart, Accounted, ~shutting, NEW w \in Handles, Phase(w) = "starting"
    PROVE  \E c \in Callers : /\ At(c, "settleNew") /\ Mine(c) = w /\ caller[c].id = worker[w].id
                              /\ Holds(c) \/ OwnsReservation(c, worker[w].id)
<1> USE DEF Settings, Apart, NoneStarting
<1>1. w # None /\ worker[w].id \in Identities
  BY HandleFacts DEF WorkerRecords
<1>2. slot[worker[w].id] # w /\ auth[worker[w].id] # w /\ ~Leaving(w)
  BY <1>1 DEF Leaving, Holding, At
<1>3. PICK c \in Callers : HeldBy(c, w) \/ ReservedBy(c, w)
  BY <1>2, Claimed
<1>4. caller[c].pc = "settleNew" /\ Mine(c) = w
  BY <1>3 DEF HeldBy, ReservedBy, Holding
<1>5. caller[c].id = worker[w].id
  BY <1>4 DEF Tables, NamesAgree, Keeping, Holding
<1> QED  BY <1>3, <1>4, <1>5 DEF HeldBy, ReservedBy, At

\* The layers below leave no two browsers on one profile outside of an eviction.
LEMMA ProfilesFree ==
    ASSUME Settings, Apart, Accounted, Silent
    PROVE  ProfileIsFree
<1> USE DEF Settings
<1> SUFFICES ASSUME ~shutting, NEW w \in Handles, NEW v \in Handles, w # v,
                    ProfileOf[worker[w].id] = ProfileOf[worker[v].id], Phase(w) = "starting",
                    ~Leaving(v), Phase(v) # "released"
             PROVE  FALSE
  BY DEF ProfileIsFree, Silent, Phase
<1> DEFINE i == worker[w].id
           j == worker[v].id
<1>1. i \in Identities /\ j \in Identities /\ w # None /\ v # None
  BY HandleFacts DEF WorkerRecords
<1>2. PICK c \in Callers : /\ At(c, "settleNew") /\ Mine(c) = w /\ caller[c].id = i
                           /\ Holds(c) \/ OwnsReservation(c, i)
  BY StartingWith
<1>3. Holds(c) => ~PersonaTaken(i) /\ i \notin reserved /\ slot[i] = None
  BY <1>2 DEF Tables, DecisionsHold, At, Waits
<1>4. OwnsReservation(c, i) => i \in reserved /\ auth[i] = None /\ i \notin Resident
  BY <1>1 DEF Tables, OwnersAlone, OneFormPerProfile
\* No other worker has the profile in a table.
<1>5. j \notin Resident
  <2>1. CASE Holds(c)
    BY <1>1, <1>3, <2>1 DEF PersonaTaken, Resident
  <2>2. CASE OwnsReservation(c, i)
    BY <1>1, <1>4, <2>2 DEF Tables, OneFormPerProfile
  <2> QED  BY <1>2, <2>1, <2>2
<1>6. j \in reserved => j = i /\ OwnsReservation(c, i) /\ auth[i] = None
  <2>1. CASE Holds(c)
    BY <1>1, <1>3, <2>1 DEF PersonaTaken
  <2>2. CASE OwnsReservation(c, i)
    BY <1>1, <1>4, <2>2 DEF Tables, OneFormPerProfile
  <2> QED  BY <1>2, <2>1, <2>2
<1>7. slot[j] # v /\ auth[j] # v
  BY <1>1, <1>5, <1>6 DEF Resident, Tables, NamesAgree
<1>8. ASSUME NEW d \in Callers, HeldBy(d, v) PROVE FALSE
  <2>1. CASE Holds(c)
    BY <1>2, <1>8, <2>1 DEF HeldBy, Gates
  <2>2. CASE OwnsReservation(c, i) /\ caller[d].pc = "evict"
    BY <1>4, <1>8, <2>2 DEF HeldBy, Apart, EvictedApart, At
  <2>3. CASE OwnsReservation(c, i) /\ caller[d].pc # "evict"
    <3>1. caller[d].id = j
      BY <1>8, <2>3 DEF HeldBy, Tables, NamesAgree, Keeping, Holding
    <3>2. ~PersonaTaken(j) /\ j \notin reserved
      BY <1>8, <3>1 DEF HeldBy, Tables, DecisionsHold
    <3> QED  BY <1>1, <1>4, <2>3, <3>2 DEF PersonaTaken
  <2> QED  BY <1>2, <2>1, <2>2, <2>3
<1>9. ASSUME NEW d \in Callers, ReservedBy(d, v) PROVE FALSE
  <2>1. OwnsReservation(d, j) /\ j \in reserved
    BY <1>1, <1>9 DEF ReservedBy, Tables, OwnersAlone
  <2>2. c = d
    BY <1>1, <1>6, <2>1 DEF Tables, OwnersAlone
  <2> QED  BY <1>2, <1>9, <2>2 DEF ReservedBy
<1> QED  BY <1>7, <1>8, <1>9, Claimed

\* A new worker finds its profile held by another browser of the same station only when that
\* is a victim begin_auth_session() is still closing, as long as no future is dropped.
THEOREM ProfilesAreFree ==
    ASSUME Cancellable = {}
    PROVE  Spec => []ProfileIsFree
<1> DEFINE Inv == Apart /\ Accounted /\ Silent
<1>1. Init => Inv
  BY DEF Init, Apart, NoneStarting, EvictedApart, Accounted, Silent, Idle, Holding, Waits, Holds, Handles
<1>2. Settings /\ Inv /\ [Next]_vars => Inv'
  BY NoneStartingNext, EvictedApartNext, AccountedNext, SilentNext DEF Apart, Settings
<1>3. Settings /\ Inv => ProfileIsFree
  BY ProfilesFree
<1> HIDE DEF Inv
<1> QED  BY <1>1, <1>2, <1>3, SettingsHold, PTL DEF Spec

-----------------------------------------------------------------------------
(***************************************************************************)
(* Room.  lease() counts under the mutex and fills the room it found only  *)
(* when its browser is ready; until then the room is set aside for it.     *)
(***************************************************************************)

Opening == \E c \in Callers : Holds(c) /\ caller[c].pc \in Opens \ {"room"}

Room ==
    /\ IsFiniteSet(Resident) /\ IsFiniteSet(reserved)
    /\ Cardinality(Resident) + Cardinality(reserved) <= MaxResident
    /\ Opening => Cardinality(Resident) + Cardinality(reserved) < MaxResident

\* The residents after one was taken away, and after one moved in.
LEMMA ResidentsMove ==
    ASSUME Types, Room, NEW id \in Identities
    PROVE  /\ Vacates(id) /\ slot[id] # None =>
                 IsFiniteSet(Resident') /\ Cardinality(Resident') = Cardinality(Resident) - 1
           /\ \A w : slot' = [slot EXCEPT ![id] = w] =>
                 IsFiniteSet(Resident') /\ Cardinality(Resident') <= Cardinality(Resident) + 1
           /\ Cardinality(Resident) \in Nat
<1>0. PICK r : r = Resident
  OBVIOUS
<1>1. IsFiniteSet(r) /\ Cardinality(r) \in Nat
  BY <1>0, FS_CardinalityType DEF Room
<1>2. ASSUME Vacates(id), slot[id] # None
      PROVE  IsFiniteSet(Resident') /\ Cardinality(Resident') = Cardinality(Resident) - 1
  <2>1. Resident' = r \ {id} /\ id \in r
    BY <1>0, <1>2 DEF Vacates, Resident, Types, TypeOK
  <2> QED  BY <1>0, <1>1, <2>1, FS_RemoveElement
<1>3. ASSUME NEW w, slot' = [slot EXCEPT ![id] = w]
      PROVE  IsFiniteSet(Resident') /\ Cardinality(Resident') <= Cardinality(Resident) + 1
  <2>1. Resident' \in SUBSET (r \cup {id})
    BY <1>0, <1>3 DEF Resident, Types, TypeOK
  <2>2. IsFiniteSet(r \cup {id}) /\ Cardinality(r \cup {id}) <= Cardinality(r) + 1
    BY <1>1, FS_AddElement
  <2>5. Cardinality(r \cup {id}) \in Nat
    BY <2>2, FS_CardinalityType
  <2>3. PICK s : s = Resident'
    OBVIOUS
  <2>4. IsFiniteSet(s) /\ Cardinality(s) <= Cardinality(r \cup {id}) /\ Cardinality(s) \in Nat
    BY <2>1, <2>2, <2>5, <2>3, FS_Subset, FS_CardinalityType
  <2> QED  BY <1>0, <1>1, <2>2, <2>5, <2>3, <2>4
<1> QED  BY <1>0, <1>1, <1>2, <1>3

\* The reservations after one was made, and after one was taken back.
LEMMA ReservationsMove ==
    ASSUME Room, NEW id
    PROVE  /\ reserved' = reserved \cup {id} =>
                 IsFiniteSet(reserved') /\ Cardinality(reserved') <= Cardinality(reserved) + 1
           /\ reserved' \in {reserved, reserved \ {id}} =>
                 IsFiniteSet(reserved') /\ Cardinality(reserved') <= Cardinality(reserved)
           /\ Cardinality(reserved) \in Nat
           /\ IsFiniteSet(reserved') => Cardinality(reserved') \in Nat
<1>0. PICK r : r = reserved
  OBVIOUS
<1>1. IsFiniteSet(r) /\ Cardinality(r) \in Nat
  BY <1>0, FS_CardinalityType DEF Room
<1>2. IsFiniteSet(r \cup {id}) /\ Cardinality(r \cup {id}) <= Cardinality(r) + 1
  BY <1>1, FS_AddElement
<1>3. IsFiniteSet(r \ {id}) /\ Cardinality(r \ {id}) <= Cardinality(r)
  BY <1>1, FS_RemoveElement
<1>4. IsFiniteSet(reserved') => Cardinality(reserved') \in Nat
  <2>1. PICK s : s = reserved'
    OBVIOUS
  <2> QED  BY <2>1, FS_CardinalityType
<1> QED  BY <1>0, <1>1, <1>2, <1>3, <1>4

\* Nobody opens a worker once the mutex is free, or was free before somebody took it for
\* something else.
LEMMA NobodyOpens ==
    ASSUME Gates, NEW c \in Callers, lock \in {Nobody, c}, OthersStay(c),
           Holds(c)' => caller'[c].pc \in Waits \cup {"room"}
    PROVE  ~Opening'
<1>1. \A d \in Callers \ {c} : ~Holds(d)'
  BY NobodyElseHolds
<1> QED  BY <1>1 DEF Opening, Waits, Opens

\* The tables and the openings move only where the room is looked at.
LEMMA WeakerRoom ==
    ASSUME Types, Gates, Room, AllWeaker
    PROVE  Room'
<1>1. Resident' = Resident /\ reserved' = reserved
  BY DEF AllWeaker, tables, Resident
<1>2. ASSUME NEW c \in Callers, Holds(c)', caller'[c].pc \in Opens \ {"room"}
      PROVE  Cardinality(Resident) + Cardinality(reserved) < MaxResident
  <2>1. Holds(c) /\ caller[c].pc \in Opens /\ (caller[c].pc = "room" => ~Full)
    <3>1. Weaker(c)
      BY DEF AllWeaker
    <3> QED  BY <1>2, <3>1 DEF Weaker, Holds, Waits, Opens
  <2>2. CASE caller[c].pc = "room"
    <3>1. \A id \in Identities : Cardinality(Resident) \in Nat
      BY ResidentsMove
    <3>2. caller[c].id \in Identities
      BY <2>1, HandleFacts DEF Holds, OnIdentity
    <3> QED  BY <2>1, <2>2, <3>1, <3>2, ReservationsMove, StationAssumption DEF Full
  <2>3. CASE caller[c].pc # "room"
    BY <2>1, <2>3 DEF Room, Opening
  <2> QED  BY <2>2, <2>3
<1> QED  BY <1>1, <1>2 DEF Room, Opening

\* lease() under the mutex, until its worker is told to start.
LEMMA LeaseRoom ==
    ASSUME Types, Gates, Tables, Room, NEW c \in Callers,
           LeaseRepairs(c) \/ LeaseAwaits(c) \/ LeaseRetires(c) \/ LeaseMisses(c) \/ GivesUp(c)
           \/ MakesRoom(c)
    PROVE  Room'
<1> USE DEF Deciding, At
<1>1. CASE LeaseRepairs(c) \/ LeaseAwaits(c) \/ LeaseMisses(c)
  <2>1. /\ caller[c].pc = "decide" /\ lock = Nobody /\ UNCHANGED tables
        /\ \/ \E pc \in {"repair", "settle"} : GotoFor(c, pc, Found(c))
           \/ Goto(c, "room")
    BY <1>1 DEF LeaseRepairs, LeaseAwaits, LeaseMisses, Considers
  <2>2. OthersStay(c) /\ caller'[c].pc \in {"repair", "settle", "room"}
    BY <2>1, GotoFacts, GotoForFacts
  <2>3. ~Opening'
    BY <2>1, <2>2, NobodyOpens DEF Waits
  <2>4. Resident' = Resident /\ reserved' = reserved
    BY <2>1 DEF tables, Resident
  <2> QED  BY <2>3, <2>4 DEF Room
<1>2. CASE LeaseRetires(c) \/ GivesUp(c) \/ MakesRoom(c)
  <2>1. \E id \in Identities : Vacates(id) /\ slot[id] # None
    <3>1. CASE LeaseRetires(c)
      <4>1. caller[c].id \in Identities
        BY <3>1, CallAt, HandleFacts DEF LeaseRetires, Considers, OnIdentity
      <4> QED  BY <3>1, <4>1 DEF LeaseRetires, Considers, Retires, Found
    <3>2. CASE GivesUp(c)
      <4>1. /\ Holds(c) /\ caller[c].id \in Identities /\ Mine(c) \in Handles
            /\ caller[c].pc \in Waits /\ Vacates(caller[c].id)
        <5>1. caller[c].pc \in {"broken", "settle"} /\ Vacates(caller[c].id)
          BY <3>2 DEF GivesUp, Retires
        <5> QED  BY <5>1, CallAt, HandleFacts DEF Holds, Waits, Holding, OnIdentity
      <4>2. slot[caller[c].id] = Mine(c) /\ Mine(c) # None
        BY <4>1, HandleFacts DEF Tables, DecisionsHold
      <4> QED  BY <4>1, <4>2
    <3>3. CASE MakesRoom(c)
      BY <3>3 DEF MakesRoom, Evicts, Idles, Resident
    <3> QED  BY <1>2, <3>1, <3>2, <3>3
  <2>2. UNCHANGED reserved
    BY <1>2 DEF LeaseRetires, GivesUp, MakesRoom
  <2>3. IsFiniteSet(Resident') /\ Cardinality(Resident') = Cardinality(Resident) - 1
        /\ Cardinality(Resident) \in Nat
    BY <2>1, ResidentsMove
  <2> QED  BY <2>2, <2>3, ReservationsMove, StationAssumption DEF Room
<1> QED  BY <1>1, <1>2

\* The new worker, which moves in when it is ready.
LEMMA SpawnRoom ==
    ASSUME Types, Gates, Tables, Room, NEW c \in Callers, Spawns(c) \/ NewIsLeased(c)
    PROVE  Room'
<1>1. caller[c].pc \in {"spawn", "settleNew"} /\ UNCHANGED reserved
  BY DEF Spawns, NewIsLeased, At, tables
<1>2. CASE UNCHANGED tables /\ OthersStay(c) /\ caller'[c].call \in {caller[c].call, "None"}
  <2>1. Resident' = Resident
    BY <1>2 DEF tables, Resident
  <2>2. Opening' => Opening
    BY <1>1, <1>2 DEF Opening, Holds, OthersStay, Waits, Opens
  <2> QED  BY <1>1, <2>1, <2>2 DEF Room
<1>3. CASE NewIsLeased(c) /\ ~shutting
  <2>1. /\ caller[c].pc = "settleNew" /\ caller[c].call = "Lease" /\ Leaves(c)
        /\ slot' = [slot EXCEPT ![caller[c].id] = Mine(c)]
    BY <1>3 DEF NewIsLeased, At, TakesLease
  <2>2. Holds(c) /\ lock = c /\ caller[c].id \in Identities
    BY <2>1, HandleFacts DEF Holds, Opens, Gates, OnIdentity
  <2>3. ~Opening'
    BY <2>1, <2>2, LeavesFacts, NobodyOpens DEF Holds, Idle
  <2>4. Cardinality(Resident) + Cardinality(reserved) < MaxResident
    BY <2>1, <2>2 DEF Room, Opening, Opens
  <2>5. PICK w : slot' = [slot EXCEPT ![caller[c].id] = w]
    BY <2>1
  <2>6. IsFiniteSet(Resident') /\ Cardinality(Resident') <= Cardinality(Resident) + 1
        /\ Cardinality(Resident) \in Nat
    BY <2>2, <2>5, ResidentsMove
  <2>7. Cardinality(Resident') \in Nat
    <3>1. PICK s : s = Resident'
      OBVIOUS
    <3> QED  BY <2>6, <3>1, FS_CardinalityType
  <2> QED  BY <1>1, <2>3, <2>4, <2>6, <2>7, ReservationsMove, StationAssumption DEF Room
<1>4. CASE NewIsLeased(c) /\ shutting
  BY <1>2, <1>4, GotoFacts DEF NewIsLeased, Disposes, tables
<1>5. CASE Spawns(c)
  BY <1>2, <1>5, GotoFacts, GotoForFacts, LeavesFacts DEF Spawns, Fails, Idle
<1> QED  BY <1>3, <1>4, <1>5

\* begin_auth_session() and finish_auth_session() reserve and settle when the mutex is free.
LEMMA AuthRoom ==
    ASSUME Types, Gates, Tables, Room, NEW c \in Callers,
           AuthReserves(c) \/ Installs(c) \/ Unreserves(c) \/ TakesAuth(c)
    PROVE  Room'
<1> USE DEF Deciding, At
<1>1. lock = Nobody /\ caller[c].call # "Lease"
  BY CallAt DEF AuthReserves, Installs, Unreserves, TakesAuth
<1>2. OthersStay(c) /\ caller'[c].call # "Lease"
  <2>1. CASE AuthReserves(c)
    BY <1>1, <2>1, GotoFacts, GotoForFacts DEF AuthReserves, Evicts
  <2>2. CASE Installs(c) \/ Unreserves(c)
    BY <2>2, LeavesFacts DEF Installs, Unreserves, Idle
  <2>3. CASE TakesAuth(c)
    <3>1. PICK id, w : caller' = [caller EXCEPT ![c].pc = "close", ![c].id = id, ![c].worker = w]
      BY <2>3 DEF TakesAuth
    <3> QED  BY <1>1, <3>1 DEF OthersStay, Types, TypeOK, CallerStates
  <2> QED  BY <2>1, <2>2, <2>3
<1>3. ~Opening'
  BY <1>1, <1>2, NobodyOpens DEF Holds
<1>4. caller[c].call \in OnIdentity /\ caller[c].id \in Identities
  BY CallAt, HandleFacts DEF AuthReserves, Installs, Unreserves, TakesAuth, OnIdentity
<1>5. Cardinality(Resident) \in Nat
  BY <1>4, ResidentsMove
<1>6. CASE AuthReserves(c)
  <2>1. \/ slot' = slot /\ ~Full
        \/ \E id \in Identities : Vacates(id) /\ slot[id] # None
    BY <1>4, <1>6 DEF AuthReserves, Victims, Evicts, Idles, Found, Resident
  <2>2. PICK a : a = caller[c].id
    OBVIOUS
  <2>3. reserved' = reserved \cup {a}
    BY <1>6, <2>2 DEF AuthReserves
  <2>4. IsFiniteSet(reserved') /\ Cardinality(reserved') <= Cardinality(reserved) + 1
        /\ Cardinality(reserved) \in Nat /\ Cardinality(reserved') \in Nat
    BY <2>3, ReservationsMove
  <2>5. CASE slot' = slot /\ ~Full
    <3>1. Resident' = Resident
      BY <2>5 DEF Resident
    <3> QED  BY <1>3, <1>5, <2>4, <2>5, <3>1, StationAssumption DEF Room, Full
  <2>6. ASSUME NEW id \in Identities, Vacates(id), slot[id] # None PROVE Room'
    <3>1. IsFiniteSet(Resident') /\ Cardinality(Resident') = Cardinality(Resident) - 1
      BY <2>6, ResidentsMove
    <3> QED  BY <1>3, <1>5, <2>4, <3>1, StationAssumption DEF Room
  <2> QED  BY <2>1, <2>5, <2>6
<1>7. CASE Installs(c) \/ Unreserves(c) \/ TakesAuth(c)
  <2>1. Resident' = Resident
    BY <1>7 DEF Installs, Unreserves, TakesAuth, Resident
  <2>2. PICK a : a = caller[c].id
    OBVIOUS
  <2>3. reserved' \in {reserved, reserved \ {a}}
    BY <1>7, <2>2 DEF Installs, Unreserves, TakesAuth
  <2>4. IsFiniteSet(reserved') /\ Cardinality(reserved') <= Cardinality(reserved)
        /\ Cardinality(reserved) \in Nat /\ Cardinality(reserved') \in Nat
    BY <2>3, ReservationsMove
  <2> QED  BY <1>3, <1>5, <2>1, <2>4, StationAssumption DEF Room
<1> QED  BY <1>6, <1>7

\* The writers empty the tables, and nobody else is behind the gate.
LEMMA EmptyRoom ==
    ASSUME Types, Gates, NEW c \in Callers, ShutdownDrained(c) \/ EmergencyReturns(c)
    PROVE  Room'
<1>1. /\ NoTables /\ OthersStay(c) /\ caller'[c].call \in Writers \cup {"None"}
      /\ lock = Nobody
  <2>1. CASE ShutdownDrained(c)
    BY <2>1, CallAt DEF ShutdownDrained, Deciding, At, OthersStay, Types, TypeOK, CallerStates
  <2>2. CASE EmergencyReturns(c)
    BY <2>2, LeavesFacts DEF EmergencyReturns, Returns, At, Idle
  <2> QED  BY <2>1, <2>2
<1>2. ~Opening'
  BY <1>1, NobodyOpens DEF Holds, Writers
<1>3. Resident' = {} /\ reserved' = {}
  BY <1>1 DEF NoTables, Resident
<1> QED  BY <1>2, <1>3, FS_EmptySet, StationAssumption DEF Room

\* Room is kept by every step.
LEMMA RoomNext == Types /\ Gates /\ Tables /\ Room /\ [Next]_vars => Room'
<1> SUFFICES ASSUME Types, Gates, Tables, Room, [Next]_vars PROVE Room'
  OBVIOUS
<1>1. ASSUME NEW c \in Callers, Rewrites(c) PROVE Room'
  BY <1>1, LeaseRoom, SpawnRoom, AuthRoom, EmptyRoom DEF Rewrites
<1> QED  BY <1>1, WeakerRoom, StepIsWeaker

\* The empty station has room.
LEMMA RoomInit == Init => Room
<1> SUFFICES ASSUME Init PROVE Room
  OBVIOUS
<1>1. Resident = {} /\ reserved = {} /\ ~Opening
  BY DEF Init, Resident, Opening, Holds, Idle
<1> QED  BY <1>1, FS_EmptySet, StationAssumption DEF Room

-----------------------------------------------------------------------------
(* Counting: every browser stands for a resident, a reservation, the room  *)
(* set aside for lease(), or a victim of begin_auth_session().             *)

\* A function takes no more values than it has arguments.
LEMMA NoMoreValues ==
    ASSUME NEW S, IsFiniteSet(S), NEW f, DOMAIN f = S
    PROVE  /\ IsFiniteSet({f[x] : x \in S})
           /\ Cardinality({f[x] : x \in S}) <= Cardinality(S)
           /\ Cardinality({f[x] : x \in S}) \in Nat
<1> DEFINE T == {f[x] : x \in S}
           g == [x \in S |-> f[x]]
<1>1. g \in Surjection(S, T)
  BY DEF Surjection
<1>2. IsFiniteSet(T) /\ Cardinality(T) <= Cardinality(S)
  BY <1>1, FS_Surjection
<1> QED  BY <1>2, FS_CardinalityType

\* A set covered by four is no larger than the four together.
LEMMA CoveredByFour ==
    ASSUME NEW A, NEW B, NEW C, NEW D,
           IsFiniteSet(A), IsFiniteSet(B), IsFiniteSet(C), IsFiniteSet(D),
           NEW S, S \subseteq ((A \cup B) \cup (C \cup D))
    PROVE  Cardinality(S) <= Cardinality(A) + Cardinality(B) + Cardinality(C) + Cardinality(D)
<1>1. /\ IsFiniteSet(A \cup B) /\ IsFiniteSet(A \cap B)
      /\ Cardinality(A \cup B) = Cardinality(A) + Cardinality(B) - Cardinality(A \cap B)
  BY FS_Union, FS_Intersection
<1>2. /\ IsFiniteSet(C \cup D) /\ IsFiniteSet(C \cap D)
      /\ Cardinality(C \cup D) = Cardinality(C) + Cardinality(D) - Cardinality(C \cap D)
  BY FS_Union, FS_Intersection
<1> DEFINE P == A \cup B
           Q == C \cup D
<1>3. /\ IsFiniteSet(P \cup Q) /\ IsFiniteSet(P \cap Q)
      /\ Cardinality(P \cup Q) = Cardinality(P) + Cardinality(Q) - Cardinality(P \cap Q)
  BY <1>1, <1>2, FS_Union, FS_Intersection
<1>4. /\ Cardinality(A) \in Nat /\ Cardinality(B) \in Nat /\ Cardinality(A \cap B) \in Nat
      /\ Cardinality(C) \in Nat /\ Cardinality(D) \in Nat /\ Cardinality(C \cap D) \in Nat
      /\ Cardinality(P) \in Nat /\ Cardinality(Q) \in Nat /\ Cardinality(P \cap Q) \in Nat
      /\ Cardinality(P \cup Q) \in Nat
  BY <1>1, <1>2, <1>3, FS_CardinalityType
<1>5. S \in SUBSET (P \cup Q)
  OBVIOUS
<1>6. IsFiniteSet(S) /\ Cardinality(S) <= Cardinality(P \cup Q)
  BY <1>3, <1>5, FS_Subset
<1>7. Cardinality(S) \in Nat
  BY <1>6, FS_CardinalityType
<1> HIDE DEF P, Q
<1> QED  BY <1>1, <1>2, <1>3, <1>4, <1>6, <1>7 DEF P, Q

\* While the station is up, the browsers are no more than the room allows and the victims
\* that begin_auth_session() is closing.
LEMMA BrowsersBounded ==
    ASSUME Settings, Accounted, Silent, Room
    PROVE  BrowserBound
<1> USE DEF Settings
<1> SUFFICES ASSUME ~shutting
             PROVE  Cardinality({w \in Handles : Live(w)})
                       <= MaxResident + Cardinality({c \in Callers : At(c, "evict") /\ lock # c})
  BY DEF BrowserBound
<1> DEFINE Opener(c) == Holds(c) /\ caller[c].pc \in Opens \ {"room"}
           OwnerOf(id) == CHOOSE c \in Callers : OwnsReservation(c, id)
           BrowserOf(id) == IF auth[id] # None THEN auth[id] ELSE Mine(OwnerOf(id))
<1>1. PICK R : R = Resident
  OBVIOUS
<1>2. PICK V : V = reserved
  OBVIOUS
<1>3. PICK O : O = {c \in Callers : Opener(c)}
  OBVIOUS
<1>4. PICK E : E = {c \in Callers : At(c, "evict") /\ lock # c}
  OBVIOUS
<1>5. PICK f : f = [id \in R |-> slot[id]]
  OBVIOUS
<1>6. PICK g : g = [id \in V |-> BrowserOf(id)]
  OBVIOUS
<1>7. PICK h : h = [c \in O |-> Mine(c)]
  OBVIOUS
<1>8. PICK k : k = [c \in E |-> Mine(c)]
  OBVIOUS
<1>9. PICK B : B = {w \in Handles : Live(w)}
  OBVIOUS
<1>10. /\ IsFiniteSet(R) /\ IsFiniteSet(V) /\ IsFiniteSet(O) /\ IsFiniteSet(E)
       /\ Cardinality(O) <= 1 /\ Cardinality(O) \in Nat
       /\ O # {} => Cardinality(R) + Cardinality(V) < MaxResident
       /\ O = {} => Cardinality(O) = 0
       /\ Cardinality(R) + Cardinality(V) <= MaxResident
       /\ Cardinality(R) \in Nat /\ Cardinality(V) \in Nat /\ Cardinality(E) \in Nat
  <2>1. IsFiniteSet(O) /\ IsFiniteSet(E)
    <3>1. O \in SUBSET Callers /\ E \in SUBSET Callers
      BY <1>3, <1>4
    <3> QED  BY <3>1, StationAssumption, FS_Subset
  <2>2. Cardinality(O) <= 1 /\ (O = {} => Cardinality(O) = 0)
    <3>1. CASE O = {}
      BY <3>1, FS_EmptySet
    <3>2. ASSUME NEW c \in O PROVE O = {c}
      BY <1>3, <3>2 DEF Gates
    <3>3. ASSUME NEW c \in O PROVE Cardinality(O) = 1
      BY <3>2, <3>3, FS_Singleton
    <3> QED  BY <3>1, <3>3
  <2>3. IsFiniteSet(R) /\ IsFiniteSet(V) /\ Cardinality(R) + Cardinality(V) <= MaxResident
    BY <1>1, <1>2 DEF Room
  <2>4. O # {} => Cardinality(R) + Cardinality(V) < MaxResident
    BY <1>1, <1>2, <1>3 DEF Room, Opening
  <2> QED  BY <2>1, <2>2, <2>3, <2>4, FS_CardinalityType
<1>11. B \subseteq (({f[x] : x \in R} \cup {g[x] : x \in V}) \cup ({h[x] : x \in O} \cup {k[x] : x \in E}))
  <2> SUFFICES ASSUME NEW w \in B
               PROVE  \/ \E id \in R : f[id] = w
                      \/ \E id \in V : g[id] = w
                      \/ \E c \in O : h[c] = w
                      \/ \E c \in E : k[c] = w
    OBVIOUS
  <2>1. w \in Handles /\ Phase(w) # "released" /\ w # None /\ worker[w].id \in Identities
    BY <1>9, HandleFacts DEF Silent, WorkerRecords
  <2>2. CASE slot[worker[w].id] = w
    BY <1>1, <1>5, <2>1, <2>2 DEF Resident
  <2>3. CASE auth[worker[w].id] = w
    <3>1. worker[w].id \in V
      BY <1>2, <2>1, <2>3 DEF Tables, NamesAgree
    <3> QED  BY <1>6, <2>1, <2>3, <3>1
  <2>4. ASSUME NEW c \in Callers, HeldBy(c, w) PROVE \E d \in O : h[d] = w
    BY <1>3, <1>7, <2>4 DEF HeldBy, Opens
  <2>5. ASSUME NEW c \in Callers, ReservedBy(c, w) PROVE \E id \in V : g[id] = w
    <3> DEFINE id == worker[w].id
    <3>1. OwnsReservation(c, id) /\ Mine(c) = w
      BY <2>5 DEF ReservedBy
    <3>2. id \in V /\ auth[id] = None /\ OwnerOf(id) = c
      BY <1>2, <2>1, <3>1 DEF Tables, OwnersAlone
    <3> QED  BY <1>6, <3>1, <3>2
  <2>6. CASE Leaving(w)
    BY <1>4, <1>8, <2>6 DEF Leaving
  <2> QED  BY <2>1, <2>2, <2>3, <2>4, <2>5, <2>6, Claimed
<1>12. DOMAIN f = R /\ DOMAIN g = V /\ DOMAIN h = O /\ DOMAIN k = E
  BY <1>5, <1>6, <1>7, <1>8
<1> DEFINE Sf == {f[x] : x \in R}
           Sg == {g[x] : x \in V}
           Sh == {h[x] : x \in O}
           Sk == {k[x] : x \in E}
<1>13. /\ IsFiniteSet(Sf) /\ Cardinality(Sf) <= Cardinality(R) /\ Cardinality(Sf) \in Nat
       /\ IsFiniteSet(Sg) /\ Cardinality(Sg) <= Cardinality(V) /\ Cardinality(Sg) \in Nat
       /\ IsFiniteSet(Sh) /\ Cardinality(Sh) <= Cardinality(O) /\ Cardinality(Sh) \in Nat
       /\ IsFiniteSet(Sk) /\ Cardinality(Sk) <= Cardinality(E) /\ Cardinality(Sk) \in Nat
  BY <1>10, <1>12, NoMoreValues
<1>14. B \subseteq ((Sf \cup Sg) \cup (Sh \cup Sk))
  BY <1>11
<1> HIDE DEF Sf, Sg, Sh, Sk
<1>15. Cardinality(B) <= Cardinality(Sf) + Cardinality(Sg) + Cardinality(Sh) + Cardinality(Sk)
       /\ Cardinality(B) \in Nat
  <2>1. IsFiniteSet(B)
    <3>1. IsFiniteSet(Sf \cup Sg) /\ IsFiniteSet(Sh \cup Sk)
      BY <1>13, FS_Union
    <3>2. IsFiniteSet((Sf \cup Sg) \cup (Sh \cup Sk)) /\ B \in SUBSET ((Sf \cup Sg) \cup (Sh \cup Sk))
      BY <1>14, <3>1, FS_Union
    <3> QED  BY <3>2, FS_Subset
  <2>2. Cardinality(B) \in Nat
    BY <2>1, FS_CardinalityType
  <2>3. Cardinality(B) <= Cardinality(Sf) + Cardinality(Sg) + Cardinality(Sh) + Cardinality(Sk)
    BY <1>13, <1>14, CoveredByFour
  <2> QED  BY <2>2, <2>3
<1>16. Cardinality(B) <= MaxResident + Cardinality(E)
  BY <1>10, <1>13, <1>15, StationAssumption
<1> QED  BY <1>4, <1>9, <1>16

\* max_resident bounds the browsers that exist, whichever calls count at the same time, as long
\* as no future is dropped: only a victim of begin_auth_session() still closing goes beyond it.
THEOREM BrowsersAreBounded ==
    ASSUME Cancellable = {}
    PROVE  Spec => []BrowserBound
<1> DEFINE Inv == Accounted /\ Silent /\ Room
<1>1. Init => Inv
  BY RoomInit DEF Init, Accounted, Silent, Handles
<1>2. Settings /\ Inv /\ [Next]_vars => Inv'
  BY AccountedNext, SilentNext, RoomNext DEF Settings
<1>3. Settings /\ Inv => BrowserBound
  BY BrowsersBounded
<1> HIDE DEF Inv
<1> QED  BY <1>1, <1>2, <1>3, SettingsHold, PTL DEF Spec

-----------------------------------------------------------------------------
(***************************************************************************)
(* The shutdowns.  Every worker that may hold a browser is in the registry *)
(* or some call waits for its release, until the call returns that closes  *)
(* them all; what is spawned later is aborted before it starts.            *)
(***************************************************************************)

\* The browser is always gone when its close ends; or no future is dropped and nobody calls
\* emergency_shutdown().
Dependable == CloseBounded \/ (Cancellable = {} /\ "Emergency" \notin Offered)

\* A writer is at work on the workers it found registered.
Deaf == {"closing", "aborting"}

\* c answers for the release of w.
Awaits(c, w) ==
    \/ caller[c].pc \in Deaf /\ w \in caller[c].todo
    \/ caller[c].pc = "closing" /\ Mine(c) = w
    \/ caller[c].pc \in Parting /\ Mine(c) = w /\ ~CloseBounded
Awaited(w) == \E c \in Callers : Awaits(c, w)

Told(w) == worker[w].asked # "nothing" \/ Phase(w) \in {"closing", "stopped"}

Shutdowns ==
    /\ \A w \in Handles : Quiet(w) \/ w \in registry \/ Awaited(w)
    /\ \A w \in Handles : Phase(w) = "stopped" /\ Live(w) => ~CloseBounded
    /\ \A w \in Handles : ~CloseBounded /\ Told(w) => Quiet(w) \/ Awaited(w)
    /\ \A c \in Callers : caller[c].pc = "closing" =>
          \A w \in registry : Quiet(w) \/ Awaits(c, w)
    /\ \A c \in Callers : caller[c].pc = "aborting" => registry = {}
    /\ ended # {} => \A w \in Handles : Quiet(w)

\* Only calls that are offered are made.
Legal == \A c \in Callers : caller[c].call \in Offered \cup {"None"}

-----------------------------------------------------------------------------
\* Which way a caller may go: through its call, which it began when it was idle; to and from
\* its work on the registered workers only as a writer.
Moves(c) ==
    /\ caller'[c].call \in {caller[c].call, "None"} \cup Offered
    /\ caller'[c].pc \in Deaf => \/ caller'[c].pc = caller[c].pc
                                 \/ ShutdownDrained(c) \/ EmergencyDrained(c)
    /\ caller[c].pc \in Deaf => caller'[c] = caller[c] \/ WriterStep(c)

\* A caller that stays, leaves, or goes where no writer works.
LEMMA PlainMoves ==
    ASSUME Types, NEW c \in Callers, caller[c].pc \notin Deaf,
           \/ Leaves(c)
           \/ \E pc : pc \notin Deaf /\ Goto(c, pc)
           \/ \E pc, w : pc \notin Deaf /\ GotoFor(c, pc, w)
    PROVE  \A d \in Callers : Moves(d)
<1>1. OthersStay(c) /\ caller'[c].call \in {caller[c].call, "None"} /\ caller'[c].pc \notin Deaf
  BY GotoFacts, GotoForFacts, LeavesFacts DEF Idle, Deaf
<1> QED  BY <1>1 DEF Moves, OthersStay

\* A call that fails outside of a shutdown disturbs no shutdown.
LEMMA FailsMoves ==
    ASSUME Types, NEW c \in Callers, caller[c].pc \notin Deaf, Fails(c)
    PROVE  \A d \in Callers : Moves(d)
<1>1. Leaves(c) \/ Goto(c, "unreserve")
  BY DEF Fails
<1> QED  BY <1>1, PlainMoves DEF Deaf

\* A caller that stays.
LEMMA StayingMoves ==
    ASSUME caller' = caller
    PROVE  \A d \in Callers : Moves(d)
BY DEF Moves

\* The calls that begin, and those the gate lets in.
LEMMA CallMoves ==
    ASSUME Types, NEW c \in Callers, CallStep(c) \/ Enters(c) \/ TurnedAway(c)
    PROVE  \A d \in Callers : Moves(d)
<1>1. ASSUME caller[c].pc = "idle", NEW r, Queues(c, r), r.pc = "gate", r.call \in Offered
      PROVE  \A d \in Callers : Moves(d)
  <2>1. OthersStay(c) /\ caller'[c] = r
    BY <1>1 DEF Queues, OthersStay, Types, TypeOK
  <2> QED  BY <1>1, <2>1 DEF Moves, OthersStay, Deaf
<1>2. CASE CallOnIdentity(c)
  <2>1. PICK call \in OnIdentity, id \in Identities, runtime \in Runtimes :
           /\ Begins(c, call)
           /\ Queues(c, [Idle EXCEPT !.pc = "gate", !.call = call, !.id = id, !.runtime = runtime])
    BY <1>2 DEF CallOnIdentity
  <2> QED  BY <1>1, <2>1 DEF Begins, Idle, At
<1>3. CASE CallOnLease(c)
  <2>1. PICK call \in OnLease :
           /\ Begins(c, call)
           /\ Queues(c, [Idle EXCEPT !.pc = "gate", !.call = call, !.worker = lease[c]])
    BY <1>3 DEF CallOnLease
  <2> QED  BY <1>1, <2>1 DEF Begins, Idle, At
<1>4. CASE CallShutdown(c) \/ CallEmergency(c)
  <2>1. PICK call \in Writers :
           Begins(c, call) /\ Queues(c, [Idle EXCEPT !.pc = "gate", !.call = call])
    BY <1>4 DEF CallShutdown, CallEmergency, Writers
  <2> QED  BY <1>1, <2>1 DEF Begins, Idle, At
<1>5. CASE DropsLease(c)
  BY <1>5, StayingMoves DEF DropsLease
<1>6. CASE Cancel(c)
  <2>1. caller[c].pc \notin Deaf /\ Leaves(c)
    BY <1>6, CallAt DEF Cancel, OnIdentity, OnLease, Deaf
  <2> QED  BY <2>1, PlainMoves
<1>7. CASE Enters(c) \/ TurnedAway(c)
  <2>1. gate.waiting \in Seq(Callers) /\ gate.waiting # <<>> /\ c = Head(gate.waiting) /\ Queued
    BY <1>7 DEF Enters, TurnedAway, Granted, Types, TypeOK
  <2>2. Len(gate.waiting) \in Nat \ {0} /\ c = gate.waiting[1]
    BY <2>1, EmptySeq
  <2>3. caller[c].pc = "gate"
    BY <2>1, <2>2 DEF Queued, At
  <2>4. caller[c].call \in Calls
    BY <2>3, CallAt DEF Types, TypeOK, CallerStates
  <2>5. Entry[caller[c].call] \notin Deaf
    BY <2>4 DEF Entry, Calls, OnIdentity, OnLease, Writers, Deaf
  <2>6. Leaves(c) \/ Goto(c, Entry[caller[c].call])
    BY <1>7 DEF Enters, TurnedAway
  <2>7. caller[c].pc \notin Deaf
    BY <2>3 DEF Deaf
  <2> QED  BY <2>5, <2>6, <2>7, PlainMoves
<1> QED  BY <1>2, <1>3, <1>4, <1>5, <1>6, <1>7 DEF CallStep

\* What goes on behind the gate.
LEMMA ProceedMoves ==
    ASSUME Types, NEW c \in Callers, LeaseStep(c) \/ SpawnStep(c) \/ AuthStep(c) \/ UseStep(c)
    PROVE  \A d \in Callers : Moves(d)
<1> USE DEF At, Deciding
<1>1. caller[c].pc \notin Deaf
  <2>1. CASE LeaseStep(c)
    BY <2>1 DEF Deaf, LeaseStep, LeaseRefused, LeaseReuses, LeaseRepairs, LeaseAwaits,
                LeaseRetires, LeaseMisses, RestartBegins, Settled, GivesUp, Retired, HasRoom,
                MakesRoom, AtCapacity, Considers
  <2>2. CASE SpawnStep(c) \/ AuthStep(c)
    BY <2>2 DEF Deaf, SpawnStep, Evicted, SpawnFails, Spawns, NewIsLeased, NewIsVisible, NewFails,
                Disposed, AuthStep, AuthRefused, AuthReserves, Navigated, Installs, Unreserves,
                TakesAuth, NoAuthToTake, AuthClosed
  <2>3. CASE UseStep(c)
    BY <2>3 DEF Deaf, UseStep, UseBegins, UseEnds, UseRestarts, SubscribeBegins, SubscribeEnds
  <2> QED  BY <2>1, <2>2, <2>3
<1>2. CASE LeaseStep(c)
  <2>1. \/ Leaves(c)
        \/ \E pc \in {"room", "repairing", "spawn"} : Goto(c, pc)
        \/ \E w : \E pc \in {"repair", "settle", "retire", "room", "evict"} : GotoFor(c, pc, w)
    BY <1>2 DEF LeaseStep, LeaseRefused, LeaseReuses, LeaseRepairs, LeaseAwaits,
                LeaseRetires, LeaseMisses, RestartBegins, Settled, GivesUp, Retired, HasRoom,
                MakesRoom, AtCapacity, Considers, Retires, Evicts, TakesLease
  <2> QED  BY <1>1, <2>1, PlainMoves DEF Deaf
<1>3. CASE SpawnStep(c)
  <2>1. \/ Leaves(c) \/ Fails(c)
        \/ \E pc \in {"navigate", "dispose"} : Goto(c, pc)
        \/ \E w : \E pc \in {"spawn", "settleNew"} : GotoFor(c, pc, w)
    BY <1>3 DEF SpawnStep, Evicted, SpawnFails, Spawns, NewIsLeased, NewIsVisible, NewFails,
                Disposed, Disposes, TakesLease
  <2> QED  BY <1>1, <2>1, PlainMoves, FailsMoves DEF Deaf
<1>4. CASE AuthStep(c)
  <2>1. CASE TakesAuth(c)
    <3>1. PICK id, w :
             caller' = [caller EXCEPT ![c].pc = "close", ![c].id = id, ![c].worker = w]
      BY <2>1 DEF TakesAuth
    <3>2. OthersStay(c) /\ caller'[c].call = caller[c].call /\ caller'[c].pc = "close"
      BY <3>1 DEF OthersStay, Types, TypeOK, CallerStates
    <3> QED  BY <1>1, <3>2 DEF Moves, OthersStay, Deaf
  <2>2. CASE ~TakesAuth(c)
    <3>1. \/ Leaves(c)
          \/ \E pc \in {"spawn", "install", "dispose", "unreserve"} : Goto(c, pc)
          \/ \E w : GotoFor(c, "evict", w)
      BY <1>4, <2>2 DEF AuthStep, AuthRefused, AuthReserves, Navigated, Installs, Unreserves,
                        NoAuthToTake, AuthClosed, Evicts, Disposes
    <3> QED  BY <1>1, <3>1, PlainMoves DEF Deaf
  <2> QED  BY <2>1, <2>2
<1>5. CASE UseStep(c)
  <2>1. Leaves(c) \/ \E pc \in {"using", "restarting", "subscribed"} : Goto(c, pc)
    BY <1>5 DEF UseStep, UseBegins, UseEnds, UseRestarts, SubscribeBegins, SubscribeEnds
  <2> QED  BY <1>1, <2>1, PlainMoves DEF Deaf
<1> QED  BY <1>2, <1>3, <1>4, <1>5

\* shutdown() takes the next worker off its list, tells it to stop and waits for it.
LEMMA AskingFacts ==
    ASSUME Types, NEW c \in Callers, ShutdownAsks(c)
    PROVE  /\ caller[c].pc = "closing" /\ caller'[c].pc = "closing" /\ OthersStay(c)
           /\ caller'[c].call = caller[c].call /\ Mine(c) = None
           /\ caller'[c].worker \in caller[c].todo /\ caller'[c].worker \in Handles
           /\ caller'[c].todo = caller[c].todo \ {caller'[c].worker}
           /\ OnlyOne(caller'[c].worker) /\ UNCHANGED <<registry, ended>>
<1> DEFINE w == Min(caller[c].todo)
<1>1. w \in caller[c].todo /\ w \in Handles
  BY HandleFacts, MinIsMember DEF ShutdownAsks, Types, Shaped
<1>2. /\ Asked(w, "shutdown") /\ caller[c].pc = "closing" /\ Mine(c) = None
      /\ caller' = [caller EXCEPT ![c].worker = w, ![c].todo = @ \ {w}]
      /\ UNCHANGED <<registry, ended>>
  BY DEF ShutdownAsks, At
<1> HIDE DEF w
<1>3. caller[c] \in CallerStates
  BY DEF Types, TypeOK
<1>4. caller' = [caller EXCEPT ![c] = [caller[c] EXCEPT !.worker = w, !.todo = caller[c].todo \ {w}]]
  BY <1>2, <1>3 DEF CallerStates
<1>5. /\ caller'[c].pc = "closing" /\ caller'[c].call = caller[c].call /\ caller'[c].worker = w
      /\ caller'[c].todo = caller[c].todo \ {w} /\ OthersStay(c)
  BY <1>2, <1>3, <1>4 DEF OthersStay, Types, TypeOK, CallerStates
<1>6. OnlyOne(w)
  BY <1>1, <1>2, AskedChanges DEF Types, TypeOK
<1> QED  BY <1>1, <1>2, <1>5, <1>6

\* emergency_shutdown() takes a worker off its list that was released.
LEMMA WaitingFacts ==
    ASSUME Types, NEW c \in Callers, EmergencyWaited(c)
    PROVE  /\ caller[c].pc = "aborting" /\ caller'[c].pc = "aborting" /\ OthersStay(c)
           /\ caller'[c].call = caller[c].call /\ UNCHANGED <<worker, registry, ended>>
           /\ \A w \in caller[c].todo : w \in caller'[c].todo \/ Phase(w) = "released"
<1> DEFINE m == Min(caller[c].todo)
<1>1. /\ caller[c].pc = "aborting" /\ Phase(m) = "released"
      /\ caller' = [caller EXCEPT ![c].todo = caller[c].todo \ {m}]
      /\ UNCHANGED <<worker, registry, ended>>
  BY DEF EmergencyWaited, At
<1> HIDE DEF m
<1>2. /\ caller'[c].pc = "aborting" /\ caller'[c].call = caller[c].call
      /\ caller'[c].todo = caller[c].todo \ {m} /\ OthersStay(c)
  BY <1>1 DEF OthersStay, Types, TypeOK, CallerStates
<1> QED  BY <1>1, <1>2

\* What the writers do.
LEMMA WriterMoves ==
    ASSUME Types, NEW c \in Callers, WriterStep(c)
    PROVE  \A d \in Callers : Moves(d)
<1> USE DEF At, Deciding
<1>1. CASE HardAborts(c)
  BY <1>1, StayingMoves DEF HardAborts
<1>2. CASE ~HardAborts(c)
  <2>1. /\ OthersStay(c) /\ caller'[c].call \in {caller[c].call, "None"}
        /\ caller'[c].pc \in Deaf => \/ caller'[c].pc = caller[c].pc
                                     \/ ShutdownDrained(c) \/ EmergencyDrained(c)
    <3>1. CASE ShutdownReturns(c) \/ EmergencyReturns(c)
      BY <3>1, LeavesFacts DEF ShutdownReturns, EmergencyReturns, Returns, Idle, Deaf
    <3>2. CASE ShutdownDrained(c) \/ EmergencyDrained(c)
      <4>1. \E pc \in {"closing", "aborting"}, todo \in {registry} :
              caller' = [caller EXCEPT ![c].pc = pc, ![c].todo = todo]
        BY <3>2 DEF ShutdownDrained, EmergencyDrained
      <4>2. OthersStay(c) /\ caller'[c].call = caller[c].call
        BY <4>1 DEF OthersStay, Types, TypeOK, CallerStates
      <4> QED  BY <3>2, <4>2
    <3>3. CASE ShutdownWaited(c)
      BY <3>3, GotoForFacts DEF ShutdownWaited
    <3>4. CASE ShutdownAsks(c) \/ EmergencyWaited(c)
      BY <3>4, AskingFacts, WaitingFacts
    <3> QED  BY <1>2, <3>1, <3>2, <3>3, <3>4 DEF WriterStep
  <2> QED  BY <2>1 DEF Moves, OthersStay
<1> QED  BY <1>1, <1>2

\* Every step moves every caller in one of these ways.
LEMMA StepMoves ==
    ASSUME Types, [Next]_vars
    PROVE  \A d \in Callers : Moves(d)
<1>1. CASE UNCHANGED vars
  BY <1>1, StayingMoves DEF vars
<1>2. ASSUME NEW w \in Handles, WorkerStep(w) \/ SubscriptionEnds(w), NEW d \in Callers
      PROVE  Moves(d)
  <2>1. \/ caller'[d] = caller[d]
        \/ /\ caller[d].pc \in {"restarting", "repair", "repairing"}
           /\ \E pc \in {"retried", "repaired", "broken"} : caller'[d] = [caller[d] EXCEPT !.pc = pc]
    BY <1>2 DEF WorkerStep, WorkerStarts, WorkerRestarts, WorkerCloses, WorkerEnds,
                SubscriptionEnds, At
  <2>2. caller[d] \in CallerStates
    BY DEF Types, TypeOK
  <2> QED  BY <2>1, <2>2 DEF Moves, Deaf, CallerStates
<1>3. ASSUME NEW c \in Callers, CallStep(c) \/ Proceed(c) PROVE \A d \in Callers : Moves(d)
  BY <1>3, CallMoves, ProceedMoves, WriterMoves DEF Proceed
<1> QED  BY <1>1, <1>2, <1>3 DEF Next

\* A caller is in no other call than the station offers.
LEMMA LegalNext == Types /\ Legal /\ [Next]_vars => Legal'
BY StepMoves DEF Legal, Moves

-----------------------------------------------------------------------------
(* What a step owes the shutdowns *)

Answers ==
    /\ \A w \in Handles : Awaited(w) => Quiet(w) \/ Awaited(w)'
    /\ \A w \in registry : w \in registry' \/ Quiet(w) \/ Awaited(w)'
    /\ \A n \in Handles' \ Handles :
          n \in registry' /\ (shutting \/ worker'[n].asked # "nothing" => Quiet(n)')
    /\ ~CloseBounded => \A w \in Handles : worker'[w].asked # worker[w].asked => Awaited(w)'
    /\ \A c \in Callers : caller'[c].pc = "closing" =>
          \A w \in registry' : Quiet(w)' \/ Awaits(c, w)'
    /\ \A c \in Callers : caller'[c].pc = "aborting" => registry' = {}
    /\ ended' # ended => Handles' = Handles /\ \A w \in Handles : Quiet(w)

\* A step in which every caller answers for the workers it takes from the registry keeps what a
\* shutdown relies on.
LEMMA ShutdownsStay ==
    ASSUME Types, Gates, Shutdowns, Evolution, Answers
    PROVE  Shutdowns'
<1>0. \A w \in Handles : Quiet(w) => Quiet(w)'
  BY DEF Evolution, Evolves
<1>1. \A n \in Handles' \ Handles : ~Live(n)' /\ Phase(n)' = "starting"
  BY DEF Evolution, Spawned, Live, Phase
<1>2. ASSUME NEW w \in Handles' PROVE Quiet(w)' \/ w \in registry' \/ Awaited(w)'
  BY <1>0, <1>2 DEF Shutdowns, Answers
<1>3. ASSUME NEW w \in Handles', Phase(w)' = "stopped", Live(w)' PROVE ~CloseBounded
  BY <1>1, <1>3 DEF Shutdowns, Evolution, Evolves
<1>4. ASSUME NEW w \in Handles', ~CloseBounded, Told(w)' PROVE Quiet(w)' \/ Awaited(w)'
  <2>1. CASE w \notin Handles
    <3>1. worker'[w].asked # "nothing"
      BY <1>1, <1>4, <2>1 DEF Told
    <3> QED  BY <2>1, <3>1 DEF Answers
  <2>2. CASE w \in Handles /\ worker'[w].asked # worker[w].asked
    BY <1>4, <2>2 DEF Answers
  <2>3. CASE w \in Handles /\ worker'[w].asked = worker[w].asked
    <3>1. Told(w)
      BY <1>4, <2>3 DEF Told, Evolution, Evolves
    <3> QED  BY <1>0, <1>4, <2>3, <3>1 DEF Shutdowns, Answers
  <2> QED  BY <2>1, <2>2, <2>3
<1>5. ASSUME ended' # {}, NEW w \in Handles' PROVE Quiet(w)'
  <2>1. CASE ended' # ended
    BY <1>0, <2>1 DEF Answers
  <2>2. CASE ended' = ended
    <3>1. shutting /\ \A v \in Handles : Quiet(v)
      BY <1>5, <2>2 DEF Shutdowns, Gates
    <3> QED  BY <1>0, <1>5, <3>1 DEF Answers
  <2> QED  BY <2>1, <2>2
<1> QED  BY <1>2, <1>3, <1>4, <1>5 DEF Shutdowns, Answers

\* The registry and the history change in four actions only.
LEMMA RegistryStays ==
    ASSUME [Next]_vars
    PROVE  \/ registry' = registry /\ ended' = ended
           \/ \E c \in Callers : \/ Spawns(c) /\ ended' = ended
                                 \/ ShutdownReturns(c) \/ EmergencyDrained(c) \/ EmergencyReturns(c)
<1> USE DEF Begins, Disposes
<1>1. ASSUME NEW c \in Callers, CallStep(c) PROVE registry' = registry /\ ended' = ended
  BY <1>1 DEF CallStep, CallOnIdentity, CallOnLease, CallShutdown, CallEmergency, DropsLease, Cancel
<1>2. ASSUME NEW c \in Callers, LeaseStep(c) \/ Enters(c) \/ TurnedAway(c)
      PROVE  registry' = registry /\ ended' = ended
  BY <1>2 DEF LeaseStep, Enters, TurnedAway, LeaseRefused, LeaseReuses, LeaseRepairs, LeaseAwaits,
              LeaseRetires, LeaseMisses, RestartBegins, Settled, GivesUp, Retired, HasRoom,
              MakesRoom, AtCapacity
<1>3. ASSUME NEW c \in Callers, SpawnStep(c) \/ AuthStep(c)
      PROVE  ended' = ended /\ (registry' = registry \/ Spawns(c))
  BY <1>3 DEF SpawnStep, Evicted, SpawnFails, Spawns, NewIsLeased, NewIsVisible, NewFails, Disposed,
              AuthStep, AuthRefused, AuthReserves, Navigated, Installs, Unreserves, TakesAuth,
              NoAuthToTake, AuthClosed
<1>4. ASSUME NEW c \in Callers, UseStep(c) PROVE registry' = registry /\ ended' = ended
  BY <1>4 DEF UseStep, UseBegins, UseEnds, UseRestarts, SubscribeBegins, SubscribeEnds
<1>5. ASSUME NEW c \in Callers, WriterStep(c)
      PROVE  \/ registry' = registry /\ ended' = ended
             \/ ShutdownReturns(c) \/ EmergencyDrained(c) \/ EmergencyReturns(c)
  BY <1>5 DEF WriterStep, ShutdownDrained, ShutdownAsks, ShutdownWaited, EmergencyWaited, HardAborts
<1>6. ASSUME NEW w \in Handles, WorkerStep(w) \/ SubscriptionEnds(w)
      PROVE  registry' = registry /\ ended' = ended
  BY <1>6 DEF WorkerStep, WorkerStarts, WorkerRestarts, WorkerCloses, WorkerEnds, SubscriptionEnds
<1> QED  BY <1>1, <1>2, <1>3, <1>4, <1>5, <1>6 DEF Next, Proceed, vars

\* Whoever is not a writer keeps the accounts, also during a shutdown.
LEMMA NextAccounts ==
    ASSUME Cancellable = {}, "Emergency" \notin Offered, Settings, [Next]_vars
    PROVE  Accounts \/ \E c \in Callers : WriterStep(c)
<1> USE DEF Settings
<1>1. ASSUME NEW c \in Callers, CallEmergency(c) PROVE FALSE
  BY <1>1 DEF CallEmergency, Begins
<1>2. ASSUME NEW c \in Callers, CallStep(c) \/ Proceed(c) PROVE Accounts \/ WriterStep(c)
  BY <1>1, <1>2, CallAccounts, LeaseAccounts, SpawnAccounts, AuthAccounts, UseAccounts DEF Proceed
<1>3. CASE UNCHANGED vars
  BY <1>3, NobodyAsked, QuietAccounts DEF vars, tables, KeepsWorker
<1> QED  BY <1>2, <1>3, WorkerAccounts DEF Next

\* A writer is alone behind the gate.
LEMMA WriterAlone ==
    ASSUME Types, Gates, NEW c \in Callers, caller[c].pc \in Deaf \cup {"drained"}
    PROVE  \A d \in Callers \ {c} : caller[d].pc \in {"idle", "gate"}
<1>1. gate.writer = c /\ gate.readers = {}
  BY CallAt, StationAssumption DEF Gates, Inside, Writers, Deaf
<1> QED  BY <1>1 DEF Gates, Inside

\* Nobody is at work on the registered workers while somebody else is behind the gate.
LEMMA NoWriterAtWork ==
    ASSUME Types, Gates, NEW c \in Callers, caller[c].pc \notin {"idle", "gate", "drained"} \cup Deaf
    PROVE  \A d \in Callers : caller[d].pc \notin Deaf \cup {"drained"}
BY WriterAlone DEF Deaf

\* What those who are not writers owe the workers somebody answers for.
LEMMA AwaitedStay ==
    ASSUME Dependable, Settings, Silent, Evolution, [Next]_vars,
           \A c \in Callers : ~WriterStep(c)
    PROVE  /\ \A w \in Handles, c \in Callers : Awaits(c, w) => Quiet(w) \/ Awaits(c, w)'
           /\ ~CloseBounded => \A w \in Handles : worker'[w].asked # worker[w].asked => Awaited(w)'
<1> USE DEF Settings
<1>1. \A c \in Callers : caller[c].pc \in Deaf => caller'[c] = caller[c]
  BY StepMoves DEF Moves
<1>2. ~CloseBounded => Accounts
  BY NextAccounts DEF Dependable
<1>3. ASSUME NEW w \in Handles, NEW c \in Callers, Awaits(c, w), ~Quiet(w)
      PROVE  Awaits(c, w)'
  <2>1. CASE caller[c].pc \in Deaf
    <3>1. caller[c].pc \notin Parting
      BY <2>1 DEF Deaf, Parting
    <3> QED  BY <1>1, <1>3, <2>1, <3>1 DEF Awaits, Mine
  <2>2. CASE caller[c].pc \in Parting
    <3>1. Mine(c) = w /\ ~CloseBounded
      BY <1>3, <2>2 DEF Awaits, Parting, Deaf
    <3>2. Phase(w) # "released"
      BY <1>3 DEF Quiet, Silent
    <3>3. caller'[c].pc \in Parting /\ caller'[c].worker = w
      BY <1>2, <2>2, <3>1, <3>2 DEF Accounts, Mine
    <3> QED  BY <3>1, <3>3 DEF Awaits, Mine
  <2> QED  BY <1>3, <2>1, <2>2 DEF Awaits, Deaf
<1>4. ASSUME ~CloseBounded, NEW w \in Handles, worker'[w].asked # worker[w].asked
      PROVE  Awaited(w)'
  BY <1>2, <1>4 DEF Accounts, GivenUp, Awaited, Awaits
<1> QED  BY <1>3, <1>4

\* Everybody but the writers, when nothing is spawned.
LEMMA OthersAnswer ==
    ASSUME Dependable, Settings, Silent, Shutdowns, Evolution, [Next]_vars,
           \A c \in Callers : ~WriterStep(c) /\ ~Spawns(c)
    PROVE  Answers
<1> USE DEF Settings
<1>1. registry' = registry /\ ended' = ended
  BY RegistryStays DEF WriterStep
<1>2. Handles' = Handles
  BY DEF Evolution
<1>3. /\ \A w \in Handles, c \in Callers : Awaits(c, w) => Quiet(w) \/ Awaits(c, w)'
      /\ ~CloseBounded => \A w \in Handles : worker'[w].asked # worker[w].asked => Awaited(w)'
  BY AwaitedStay
<1>4. registry \subseteq Handles /\ \A w \in Handles : Quiet(w) => Quiet(w)'
  BY DEF Types, TypeOK, Evolution, Evolves
<1>5. \A c \in Callers : caller'[c].pc \in Deaf => caller'[c].pc = caller[c].pc
  BY StepMoves DEF Moves, WriterStep
<1>6. ASSUME NEW c \in Callers, caller'[c].pc = "closing", NEW w \in registry'
      PROVE  Quiet(w)' \/ Awaits(c, w)'
  BY <1>1, <1>3, <1>4, <1>5, <1>6 DEF Shutdowns, Deaf
<1>7. ASSUME NEW c \in Callers, caller'[c].pc = "aborting" PROVE registry' = {}
  BY <1>1, <1>5, <1>7 DEF Shutdowns, Deaf
<1> QED  BY <1>1, <1>2, <1>3, <1>6, <1>7 DEF Answers, Awaited

\* A new worker is registered; the registry lets go of workers that ended, and has nobody at
\* work on it.
LEMMA SpawnAnswers ==
    ASSUME Dependable, Settings, Silent, Shutdowns, Evolution, [Next]_vars,
           NEW c \in Callers, Spawns(c)
    PROVE  Answers
<1> USE DEF Settings
<1>1. PICK n : n = Len(worker) + 1
  OBVIOUS
<1>2. /\ Handles' = Handles \cup {n} /\ worker'[n] = New(c)
      /\ \A v \in Handles : worker'[v] = worker[v]
      /\ registry' = {w \in registry : ~Ended(w)} \cup {n} /\ ended' = ended
  BY <1>1, SpawnChanges DEF Spawns, Registered
<1>3. caller[c].pc = "spawn"
  BY DEF Spawns, At
<1>4. \A d \in Callers : caller[d].pc \notin Deaf \cup {"drained"}
  BY <1>3, NoWriterAtWork DEF Deaf
<1>5. \A d \in Callers : ~WriterStep(d)
  BY <1>4 DEF Deaf, WriterStep, ShutdownDrained, ShutdownAsks, ShutdownWaited, ShutdownReturns,
              EmergencyDrained, EmergencyWaited, HardAborts, EmergencyReturns, At, Deciding
<1>6. /\ \A w \in Handles, d \in Callers : Awaits(d, w) => Quiet(w) \/ Awaits(d, w)'
      /\ ~CloseBounded => \A w \in Handles : worker'[w].asked # worker[w].asked => Awaited(w)'
  BY <1>5, AwaitedStay
<1>7. \A d \in Callers : caller'[d].pc \notin Deaf
  BY <1>4, <1>5, StepMoves DEF Moves, WriterStep
<1>8. ASSUME NEW w \in registry, w \notin registry' PROVE Quiet(w) \/ Awaited(w)'
  <2>1. w \in Handles /\ Phase(w) \in {"stopped", "released"}
    BY <1>2, <1>8 DEF Ended, Types, TypeOK
  <2>2. CASE ~Live(w)
    BY <2>1, <2>2 DEF Quiet
  <2>3. CASE Live(w)
    <3>1. Phase(w) = "stopped" /\ ~CloseBounded
      BY <2>1, <2>3 DEF Silent, Shutdowns
    <3>2. Quiet(w) \/ Awaited(w)
      BY <2>1, <3>1 DEF Shutdowns, Told
    <3> QED  BY <1>6, <2>1, <3>2 DEF Awaited
  <2> QED  BY <2>2, <2>3
<1>9. shutting \/ worker'[n].asked # "nothing" => Quiet(n)'
  BY <1>2 DEF New, Spawned, Quiet, Phase, Live
<1> QED  BY <1>2, <1>6, <1>7, <1>8, <1>9 DEF Answers, Awaited, Deaf

\* A writer answers for whatever is registered: it is the only one behind the gate, so that
\* nobody else does.
LEMMA WriterAnswers ==
    ASSUME Dependable, Settings, Legal, Silent, Shutdowns, Evolution, [Next]_vars,
           NEW c \in Callers, WriterStep(c)
    PROVE  Answers
<1> USE DEF Settings
<1>1. caller[c].pc \in Deaf \cup {"drained"}
  BY DEF Deaf, WriterStep, ShutdownDrained, ShutdownAsks, ShutdownWaited, ShutdownReturns,
         EmergencyDrained, EmergencyWaited, HardAborts, EmergencyReturns, At, Deciding
<1>2. \A d \in Callers \ {c} : caller[d].pc \in {"idle", "gate"}
  BY <1>1, WriterAlone
<1>3. \A d \in Callers \ {c}, w \in Handles : ~Awaits(d, w)
  BY <1>2 DEF Awaits, Deaf, Parting
<1>4. caller[c].call = "Emergency" => CloseBounded
  BY DEF Legal, Dependable
<1>5. /\ registry \subseteq Handles /\ \A w \in Handles : Quiet(w) => Quiet(w)'
      /\ \A w \in Handles : w # None
  BY HandleFacts DEF Types, TypeOK, Evolution, Evolves
<1>6. \A w \in Handles : Phase(w) = "released" => Quiet(w)
  BY DEF Quiet, Silent
<1>7. Handles' = Handles
  <2>1. \A d \in Callers : ~Spawns(d)
    <3>1. \A d \in Callers : caller[d].pc # "spawn"
      BY <1>1, <1>2 DEF Deaf
    <3> QED  BY <3>1 DEF Spawns, At
  <2> QED  BY <2>1 DEF Evolution
\* In the other steps the others stay idle or queued.
<1>8. ASSUME OthersStay(c)
      PROVE  \A d \in Callers \ {c} : caller'[d].pc \notin Deaf
  BY <1>2, <1>8 DEF OthersStay, Deaf
<1>9. CASE ShutdownDrained(c)
  <2>1. /\ caller[c].pc = "drained" /\ UNCHANGED <<worker, registry, ended>> /\ OthersStay(c)
        /\ caller'[c].pc = "closing" /\ caller'[c].todo = registry
    BY <1>9 DEF ShutdownDrained, Deciding, At, OthersStay, Types, TypeOK, CallerStates
  <2>2. \A w \in Handles : ~Awaited(w)
    BY <1>3, <2>1 DEF Awaited, Awaits, Deaf, Parting
  <2>3. \A w \in registry : Awaits(c, w)'
    BY <2>1 DEF Awaits, Deaf
  <2> QED  BY <1>7, <1>8, <2>1, <2>2, <2>3 DEF Answers, Deaf
<1>10. CASE ShutdownAsks(c)
  <2>1. /\ caller[c].pc = "closing" /\ caller'[c].pc = "closing" /\ OthersStay(c)
        /\ Mine(c) = None /\ caller'[c].todo = caller[c].todo \ {caller'[c].worker}
        /\ OnlyOne(caller'[c].worker) /\ UNCHANGED <<registry, ended>>
    BY <1>10, AskingFacts
  <2>2. \A w \in Handles : Awaits(c, w) => Awaits(c, w)'
    BY <1>5, <2>1 DEF Awaits, Deaf, Parting, Mine
  <2>3. \A w \in Handles : worker'[w].asked # worker[w].asked => Awaited(w)'
    BY <2>1 DEF OnlyOne, Awaited, Awaits, Mine
  <2> QED  BY <1>3, <1>5, <1>7, <1>8, <2>1, <2>2, <2>3 DEF Answers, Awaited, Shutdowns, Deaf
<1>11. CASE ShutdownWaited(c)
  <2>1. /\ caller[c].pc = "closing" /\ Phase(Mine(c)) = "released" /\ caller'[c].pc = "closing"
        /\ caller'[c].todo = caller[c].todo /\ OthersStay(c) /\ UNCHANGED <<worker, registry, ended>>
    BY <1>11, GotoForFacts DEF ShutdownWaited, At
  <2>2. \A w \in Handles : Awaits(c, w) => Quiet(w) \/ Awaits(c, w)'
    BY <1>6, <2>1 DEF Awaits, Deaf, Parting
  <2> QED  BY <1>3, <1>5, <1>7, <1>8, <2>1, <2>2 DEF Answers, Awaited, Shutdowns, Deaf
<1>12. CASE ShutdownReturns(c)
  <2>1. /\ caller[c].pc = "closing" /\ Mine(c) = None /\ caller[c].todo = {}
        /\ registry' = {} /\ UNCHANGED worker /\ OthersStay(c) /\ caller'[c] = Idle
    BY <1>12, LeavesFacts DEF ShutdownReturns, Returns, At
  <2>2. \A w \in Handles : ~Awaited(w)
    BY <1>3, <1>5, <2>1 DEF Awaited, Awaits, Deaf, Parting
  <2>3. \A w \in registry : Quiet(w)
    BY <1>5, <2>1, <2>2 DEF Shutdowns, Awaited
  <2>4. \A w \in Handles : Quiet(w)
    BY <2>2, <2>3 DEF Shutdowns
  <2> QED  BY <1>5, <1>7, <1>8, <2>1, <2>2, <2>4 DEF Answers, Deaf, Idle
<1>13. CASE EmergencyDrained(c)
  <2>1. /\ caller[c].pc = "drained" /\ OthersStay(c) /\ caller[c].call = "Emergency"
        /\ caller'[c].pc = "aborting" /\ caller'[c].todo = registry /\ registry' = {}
        /\ ended' = ended
    BY <1>13 DEF EmergencyDrained, At, OthersStay, Types, TypeOK, CallerStates
  <2>2. \A w \in Handles : ~Awaited(w)
    BY <1>3, <2>1 DEF Awaited, Awaits, Deaf, Parting
  <2>3. \A w \in registry : Awaited(w)'
    BY <2>1 DEF Awaited, Awaits, Deaf
  <2> QED  BY <1>4, <1>7, <1>8, <2>1, <2>2, <2>3 DEF Answers, Deaf
<1>14. CASE EmergencyWaited(c)
  <2>1. /\ caller[c].pc = "aborting" /\ caller'[c].pc = "aborting" /\ OthersStay(c)
        /\ UNCHANGED <<worker, registry, ended>>
        /\ \A w \in caller[c].todo : w \in caller'[c].todo \/ Phase(w) = "released"
    BY <1>14, WaitingFacts
  <2>2. \A w \in Handles : Awaits(c, w) => Quiet(w) \/ Awaits(c, w)'
    BY <1>6, <2>1 DEF Awaits, Deaf, Parting
  <2> QED  BY <1>3, <1>7, <1>8, <2>1, <2>2 DEF Answers, Awaited, Shutdowns, Deaf
<1>15. CASE HardAborts(c)
  <2>1. caller[c].pc = "aborting" /\ UNCHANGED <<caller, registry, ended>> /\ CloseBounded
    BY <1>4, <1>15, CallAt DEF HardAborts, At
  <2> QED  BY <1>2, <1>7, <2>1 DEF Answers, Awaited, Awaits, Shutdowns, Mine
<1>16. CASE EmergencyReturns(c)
  <2>1. /\ caller[c].pc = "aborting" /\ caller[c].todo = {} /\ OthersStay(c) /\ caller'[c] = Idle
        /\ UNCHANGED <<worker, registry>>
    BY <1>16, LeavesFacts DEF EmergencyReturns, Returns, At
  <2>2. \A w \in Handles : ~Awaited(w)
    BY <1>3, <2>1 DEF Awaited, Awaits, Deaf, Parting
  <2>3. registry = {} /\ \A w \in Handles : Quiet(w)
    BY <2>1, <2>2 DEF Shutdowns
  <2> QED  BY <1>7, <1>8, <2>1, <2>2, <2>3 DEF Answers, Deaf, Idle
<1> QED  BY <1>9, <1>10, <1>11, <1>12, <1>13, <1>14, <1>15, <1>16 DEF WriterStep

\* The shutdowns' invariant is kept by every step.
LEMMA ShutdownsNext ==
    ASSUME Dependable, Settings, Legal, Silent, Shutdowns, [Next]_vars
    PROVE  Shutdowns'
<1>1. Evolution
  BY StepEvolves DEF Settings
<1>2. Answers
  BY <1>1, OthersAnswer, SpawnAnswers, WriterAnswers
<1> QED  BY <1>1, <1>2, ShutdownsStay DEF Settings

\* When closes are bounded, or when no call is dropped and no emergency is asked for, what a
\* shutdown relies on holds in every reachable state.
LEMMA ShutdownsHold ==
    ASSUME Dependable
    PROVE  Spec => []Shutdowns
<1> DEFINE Inv == Legal /\ Silent /\ Shutdowns
<1>1. Init => Inv
  BY DEF Init, Legal, Silent, Shutdowns, Handles, Idle
<1>2. Settings /\ Inv /\ [Next]_vars => Inv'
  BY LegalNext, SilentNext, ShutdownsNext DEF Settings
<1> HIDE DEF Inv
<1>3. Inv => Shutdowns
  BY DEF Inv
<1> QED  BY <1>1, <1>2, <1>3, SettingsHold, PTL DEF Spec

\* Every worker that may hold a browser is registered, or a shutdown is closing it, whichever
\* call spawned it and however that call ended.
THEOREM RegistryIsComplete ==
    ASSUME Dependable
    PROVE  Spec => []RegistryIsShutdownSet
<1>1. Shutdowns => RegistryIsShutdownSet
  BY DEF Shutdowns, RegistryIsShutdownSet, Quiet, Awaited, Awaits, Mine
<1> QED  BY <1>1, ShutdownsHold, PTL

\* When shutdown() or emergency_shutdown() has returned, no browser is left, and none starts
\* afterwards.
THEOREM ShutdownReleases ==
    ASSUME Dependable
    PROVE  Spec => []ShutdownReleasesAll
<1>1. Shutdowns => ShutdownReleasesAll
  BY DEF Shutdowns, ShutdownReleasesAll, Quiet
<1> QED  BY <1>1, ShutdownsHold, PTL
=============================================================================
