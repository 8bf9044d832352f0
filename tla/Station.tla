------------------------------ MODULE Station ------------------------------
(***************************************************************************)
(* The browser station (crates/dig2browser-station/src/lib.rs): one fleet  *)
(* of workers shared by any number of callers.  It leases a worker per     *)
(* identity, keeps it resident, evicts an idle one for room, opens visible *)
(* authentication browsers, and closes everything on shutdown or in an     *)
(* emergency.  A step of a caller runs from one await to the next.         *)
(*                                                                         *)
(* A worker is a value of WorkerStates, the contract Worker implements: it *)
(* is asked to stop, and a shutdown of it returns once it was released.    *)
(* Left out: the order of last_used (any idle resident may be evicted),    *)
(* the checks that read only the configuration, and the queue for command  *)
(* slots inside a lease, which is in SessionTask.                          *)
(***************************************************************************)
EXTENDS WorkerStates, Naturals, Sequences, FiniteSets, FiniteSetsExt

CONSTANTS
    Callers,         \* tasks that hold a clone of the station
    Nobody,
    Identities,      \* identity requests: a profile with persona and backend
    ProfileOf,       \* the profile an identity names
    Runtimes,        \* runtimes a caller may select
    MaxResident,     \* config.max_resident
    Offered,         \* the calls made
    Cancellable,     \* callers whose futures may be dropped at an await
    DevtoolsBounded, \* whether the browser always answers a subscription
    CloseBounded,    \* whether the browser is always gone when its close ends
    MaxCalls         \* bound: calls made in a behaviour

OnIdentity == {"Lease", "BeginAuth", "FinishAuth"}
OnLease == {"Use", "Subscribe"}
Writers == {"Shutdown", "Emergency"}
Calls == OnIdentity \cup OnLease \cup Writers

ASSUME StationAssumption ==
    /\ IsFiniteSet(Callers) /\ Nobody \notin Callers
    /\ DOMAIN ProfileOf = Identities
    /\ MaxResident \in Nat \ {0}
    /\ Offered \subseteq Calls
    /\ Cancellable \subseteq Callers
    /\ DevtoolsBounded \in BOOLEAN
    /\ CloseBounded \in BOOLEAN
    /\ MaxCalls \in Nat

VARIABLES
    worker,    \* every worker spawned so far
    registry,  \* emergency_workers
    slot,      \* state.slots: the resident worker of an identity, or none
    reserved,  \* the keys of state.auth_sessions
    auth,      \* its values: the worker of a visible browser, or none yet
    gate,      \* operation_gate, a fair read-write lock
    lock,      \* who holds the state mutex
    shutting,  \* shutting_down
    ended,     \* history: which of Shutdown and Emergency returned
    lease,     \* per caller: the worker it has leased, or none
    caller,    \* per caller: the call it is in
    calls      \* bound: calls made so far

tables == <<slot, reserved, auth>>
vars == <<worker, registry, tables, gate, lock, shutting, ended, lease, caller, calls>>

-----------------------------------------------------------------------------
(* Types *)

None == 0
Handles == DOMAIN worker

\* asked: what it was told to do; subscriber: whose subscription its actor awaits.
WorkerRecords == [state : Workers, id : Identities, runtime : Runtimes,
                  asked : {"nothing", "shutdown", "abort", "kill"},
                  subscriber : Callers \cup {Nobody}]

CallerPcs == {"idle", "gate", "decide", "repair", "repairing", "repaired", "broken",
              "settle", "retire", "room", "evict", "spawn", "settleNew", "navigate",
              "install", "dispose", "reserve", "unreserve", "take", "close",
              "session", "using", "restarting", "retried", "subscribe", "subscribed",
              "drained", "closing", "aborting", "clear"}
CallerStates == [pc : CallerPcs, call : Calls \cup {"None"}, id : Identities \cup {Nobody},
                 runtime : Runtimes \cup {Nobody}, worker : Nat, todo : SUBSET Nat]
Idle == [pc |-> "idle", call |-> "None", id |-> Nobody, runtime |-> Nobody,
         worker |-> None, todo |-> {}]

TypeOK ==
    /\ worker \in Seq(WorkerRecords)
    /\ registry \subseteq Handles
    /\ slot \in [Identities -> Handles \cup {None}]
    /\ reserved \subseteq Identities
    /\ auth \in [Identities -> Handles \cup {None}]
    /\ gate \in [readers : SUBSET Callers, writer : Callers \cup {Nobody}, waiting : Seq(Callers)]
    /\ lock \in Callers \cup {Nobody}
    /\ shutting \in BOOLEAN
    /\ ended \subseteq Writers
    /\ lease \in [Callers -> Handles \cup {None}]
    /\ caller \in [Callers -> CallerStates]
    /\ calls \in Nat

-----------------------------------------------------------------------------

Phase(w) == worker[w].state.phase
Live(w) == worker[w].state.live
Ended(w) == Phase(w) \in {"stopped", "released"}
At(c, pc) == caller[c].pc = pc
Mine(c) == caller[c].worker

Resident == {id \in Identities : slot[id] # None}
Leases(w) == Cardinality({c \in Callers : lease[c] = w})
\* Mutant: the number of leases is not looked at.
IdlesAny(ids) == ids
Idles(ids) == {id \in ids : Leases(slot[id]) = 0}

\* Mutant: the identities being authenticated are forgotten.
PersonaResident(id) == \E other \in Resident \ {id} : ProfileOf[other] = ProfileOf[id]

\* Another identity of the same profile is resident or reserved.
PersonaTaken(id) ==
    \E other \in (Resident \cup reserved) \ {id} : ProfileOf[other] = ProfileOf[id]

Vacates(id) == slot' = [slot EXCEPT ![id] = None]

Became(w, states) == \E s \in states : worker' = [worker EXCEPT ![w].state = s]
Asked(w, what) == worker' = [worker EXCEPT ![w].asked = IF @ = "nothing" THEN what ELSE @]
AbortAll(ws) ==
    worker' = [w \in Handles |-> IF w \in ws THEN [worker[w] EXCEPT !.asked = "abort"]
                                             ELSE worker[w]]

Goto(c, pc) == caller' = [caller EXCEPT ![c].pc = pc]
GotoFor(c, pc, w) == caller' = [caller EXCEPT ![c].pc = pc, ![c].worker = w]

\* A queue in which nobody waits twice, without c.
Without(queue, c) ==
    IF \E k \in DOMAIN queue : queue[k] = c
    THEN LET at == CHOOSE k \in DOMAIN queue : queue[k] = c
         IN  [i \in 1 .. Len(queue) - 1 |-> queue[IF i < at THEN i ELSE i + 1]]
    ELSE queue

\* Mutant: the read side of the gate is not given back.
LeavesGate(c) ==
    /\ caller' = [caller EXCEPT ![c] = Idle]
    /\ gate' = [gate EXCEPT !.writer = IF @ = c THEN Nobody ELSE @,
                            !.waiting = Without(@, c)]
    /\ lock' = IF lock = c THEN Nobody ELSE lock

\* The call returns, or its future is dropped: every guard it held goes.
Leaves(c) ==
    /\ caller' = [caller EXCEPT ![c] = Idle]
    /\ gate' = [readers |-> gate.readers \ {c},
                writer |-> IF gate.writer = c THEN Nobody ELSE gate.writer,
                waiting |-> Without(gate.waiting, c)]
    /\ lock' = IF lock = c THEN Nobody ELSE lock

Init ==
    /\ worker = <<>> /\ registry = {}
    /\ slot = [id \in Identities |-> None]
    /\ reserved = {} /\ auth = [id \in Identities |-> None]
    /\ gate = [readers |-> {}, writer |-> Nobody, waiting |-> <<>>]
    /\ lock = Nobody
    /\ shutting = FALSE /\ ended = {}
    /\ lease = [c \in Callers |-> None]
    /\ caller = [c \in Callers |-> Idle]
    /\ calls = 0

-----------------------------------------------------------------------------
(* Calls *)

Begins(c, call) ==
    /\ At(c, "idle") /\ call \in Offered
    /\ calls < MaxCalls
    /\ calls' = calls + 1

Queues(c, record) ==
    /\ caller' = [caller EXCEPT ![c] = record]
    /\ gate' = [gate EXCEPT !.waiting = Append(@, c)]

\* Bound: a caller holds at most one lease.
CallOnIdentity(c) ==
    \E call \in OnIdentity, id \in Identities, runtime \in Runtimes :
        /\ Begins(c, call)
        /\ ~shutting
        /\ call = "Lease" => lease[c] = None
        /\ Queues(c, [Idle EXCEPT !.pc = "gate", !.call = call, !.id = id, !.runtime = runtime])
        /\ UNCHANGED <<worker, registry, tables, lock, shutting, ended, lease>>

CallOnLease(c) ==
    \E call \in OnLease :
        /\ Begins(c, call)
        /\ lease[c] # None
        /\ Queues(c, [Idle EXCEPT !.pc = "gate", !.call = call, !.worker = lease[c]])
        /\ UNCHANGED <<worker, registry, tables, lock, shutting, ended, lease>>

CallShutdown(c) ==
    /\ Begins(c, "Shutdown")
    /\ ~shutting
    /\ shutting' = TRUE
    /\ Queues(c, [Idle EXCEPT !.pc = "gate", !.call = "Shutdown"])
    /\ UNCHANGED <<worker, registry, tables, lock, ended, lease>>

CallEmergency(c) ==
    /\ Begins(c, "Emergency")
    /\ shutting' = TRUE
    /\ AbortAll(registry)
    /\ Queues(c, [Idle EXCEPT !.pc = "gate", !.call = "Emergency"])
    /\ UNCHANGED <<registry, tables, lock, ended, lease>>

Entry == [Lease |-> "decide", BeginAuth |-> "reserve", FinishAuth |-> "take",
          Use |-> "session", Subscribe |-> "subscribe",
          Shutdown |-> "drained", Emergency |-> "drained"]

\* The gate serves its waiters in order: a waiting writer holds back readers.
Granted(c) ==
    /\ gate.waiting # <<>> /\ c = Head(gate.waiting)
    /\ gate.writer = Nobody
    /\ caller[c].call \in Writers => gate.readers = {}

Enters(c) ==
    /\ Granted(c)
    /\ ~(shutting /\ caller[c].call \in OnLease)
    /\ Goto(c, Entry[caller[c].call])
    /\ gate' = IF caller[c].call \in Writers
               THEN [gate EXCEPT !.waiting = Tail(@), !.writer = c]
               ELSE [gate EXCEPT !.waiting = Tail(@), !.readers = @ \cup {c}]
    /\ UNCHANGED <<worker, registry, tables, lock, shutting, ended, lease, calls>>

TurnedAway(c) ==
    /\ Granted(c)
    /\ shutting /\ caller[c].call \in OnLease
    /\ Leaves(c)
    /\ UNCHANGED <<worker, registry, tables, shutting, ended, lease, calls>>

-----------------------------------------------------------------------------
(* lease(): the state mutex is held from the decision to the return. *)

Locks(c) == lock = Nobody /\ lock' = c

Deciding(c, pc) == At(c, pc) /\ lock = Nobody

Refused(c) == shutting \/ PersonaTaken(caller[c].id) \/ caller[c].id \in reserved

Found(c) == slot[caller[c].id]
Fits(c) == worker[Found(c)].runtime = caller[c].runtime
RuntimeBusy(c) == Found(c) # None /\ ~Fits(c) /\ Leases(Found(c)) # 0

TakesLease(c, w) ==
    /\ lease' = [lease EXCEPT ![c] = w]
    /\ Leaves(c)

Retires(c, w) ==
    /\ Vacates(caller[c].id)
    /\ Asked(w, "shutdown")
    /\ GotoFor(c, "retire", w)

LeaseRefused(c) ==
    /\ Deciding(c, "decide")
    /\ Refused(c) \/ RuntimeBusy(c)
    /\ Leaves(c)
    /\ UNCHANGED <<worker, registry, tables, shutting, ended, lease, calls>>

Considers(c, phases) ==
    /\ Deciding(c, "decide")
    /\ ~Refused(c) /\ Found(c) # None
    /\ Fits(c) /\ Phase(Found(c)) \in phases

LeaseReuses(c) ==
    /\ Considers(c, {"ready"})
    /\ TakesLease(c, Found(c))
    /\ UNCHANGED <<worker, registry, tables, shutting, ended, calls>>

LeaseRepairs(c) ==
    /\ Considers(c, {"degraded"})
    /\ Locks(c)
    /\ GotoFor(c, "repair", Found(c))
    /\ UNCHANGED <<worker, registry, tables, gate, shutting, ended, lease, calls>>

LeaseAwaits(c) ==
    /\ Considers(c, {"starting", "restarting"})
    /\ Locks(c)
    /\ GotoFor(c, "settle", Found(c))
    /\ UNCHANGED <<worker, registry, tables, gate, shutting, ended, lease, calls>>

LeaseRetires(c) ==
    /\ \/ Considers(c, {"closing", "stopped", "released"})
       \/ /\ Deciding(c, "decide") /\ ~Refused(c)
          /\ Found(c) # None /\ ~Fits(c) /\ ~RuntimeBusy(c)
    /\ Locks(c)
    /\ Retires(c, Found(c))
    /\ UNCHANGED <<registry, reserved, auth, gate, shutting, ended, lease, calls>>

LeaseMisses(c) ==
    /\ Deciding(c, "decide")
    /\ ~Refused(c) /\ Found(c) = None
    /\ Locks(c)
    /\ Goto(c, "room")
    /\ UNCHANGED <<worker, registry, tables, gate, shutting, ended, lease, calls>>

\* The Restart is sent at once; its actor gets to it when it is free.
RestartBegins(c) ==
    /\ At(c, "repair")
    /\ worker[Mine(c)].subscriber = Nobody
    /\ Became(Mine(c), Restarting(worker[Mine(c)].state))
    /\ Goto(c, "repairing")
    /\ UNCHANGED <<registry, tables, gate, lock, shutting, ended, lease, calls>>

Settled(c) ==
    /\ \/ At(c, "repaired")
       \/ At(c, "settle") /\ Phase(Mine(c)) = "ready"
    /\ TakesLease(c, Mine(c))
    /\ UNCHANGED <<worker, registry, tables, shutting, ended, calls>>

GivesUp(c) ==
    /\ \/ At(c, "broken")
       \/ At(c, "settle") /\ Phase(Mine(c)) \in {"degraded", "stopped", "released"}
    /\ Retires(c, Mine(c))
    /\ UNCHANGED <<registry, reserved, auth, gate, lock, shutting, ended, lease, calls>>

\* Mutant: the shutdown of the old worker is not awaited.
RetiredAtOnce(c) ==
    /\ At(c, "retire")
    /\ GotoFor(c, "room", None)
    /\ UNCHANGED <<worker, registry, tables, gate, lock, shutting, ended, lease, calls>>

Retired(c) ==
    /\ At(c, "retire") /\ Phase(Mine(c)) = "released"
    /\ GotoFor(c, "room", None)
    /\ UNCHANGED <<worker, registry, tables, gate, lock, shutting, ended, lease, calls>>

-----------------------------------------------------------------------------
(* Room, and a new worker: lease() under the mutex, begin_auth_session()   *)
(* under its reservation alone.                                            *)

Full == Cardinality(Resident) + Cardinality(reserved) >= MaxResident

\* Mutant: a failed begin_auth_session() keeps its reservation.
FailsPlainly(c) == Leaves(c)

\* An error of begin_auth_session() has a reservation to take back.
Fails(c) ==
    IF caller[c].call = "Lease" THEN Leaves(c)
    ELSE Goto(c, "unreserve") /\ UNCHANGED <<gate, lock>>

Evicts(c, id) ==
    /\ Vacates(id)
    /\ Asked(slot[id], "shutdown")
    /\ GotoFor(c, "evict", slot[id])

HasRoom(c) ==
    /\ At(c, "room") /\ ~Full
    /\ Goto(c, "spawn")
    /\ UNCHANGED <<worker, registry, tables, gate, lock, shutting, ended, lease, calls>>

MakesRoom(c) ==
    /\ At(c, "room") /\ Full
    /\ \E id \in Idles(Resident) : Evicts(c, id)
    /\ UNCHANGED <<registry, reserved, auth, gate, lock, shutting, ended, lease, calls>>

AtCapacity(c) ==
    /\ At(c, "room") /\ Full /\ Idles(Resident) = {}
    /\ Leaves(c)
    /\ UNCHANGED <<worker, registry, tables, shutting, ended, lease, calls>>

\* The victim is gone; its shutdown may still report a failure.
Evicted(c) ==
    /\ At(c, "evict") /\ Phase(Mine(c)) = "released"
    /\ \/ GotoFor(c, "spawn", None) /\ UNCHANGED <<gate, lock>>
       \/ Fails(c)
    /\ UNCHANGED <<worker, registry, tables, shutting, ended, lease, calls>>

\* The profile, the identity contract or the spawn itself.
SpawnFails(c) ==
    /\ At(c, "spawn")
    /\ Fails(c)
    /\ UNCHANGED <<worker, registry, tables, shutting, ended, lease, calls>>

\* Mutants: the registry takes a handle that does not exist, or drops the others.
RegisteredNext(n) == registry \cup {n + 1}
RegisteredOnly(n) == {n}
\* register_emergency_worker() drops the stopped workers and adds the new one.
Registered(n) == {w \in registry : ~Ended(w)} \cup {n}

\* The new worker is aborted on the spot when the station is shutting down.
Spawns(c) ==
    /\ At(c, "spawn")
    /\ LET n == Len(worker) + 1
       IN  /\ worker' = Append(worker,
                 [state |-> Spawned, id |-> caller[c].id, runtime |-> caller[c].runtime,
                  asked |-> IF shutting THEN "abort" ELSE "nothing", subscriber |-> Nobody])
           /\ registry' = Registered(n)
           /\ IF shutting THEN Fails(c)
              ELSE GotoFor(c, "settleNew", n) /\ UNCHANGED <<gate, lock>>
    /\ UNCHANGED <<tables, shutting, ended, lease, calls>>

Disposes(c) ==
    /\ Asked(Mine(c), "shutdown")
    /\ Goto(c, "dispose")
    /\ UNCHANGED <<gate, lock>>

NewIsLeased(c) ==
    /\ At(c, "settleNew") /\ Phase(Mine(c)) = "ready"
    /\ caller[c].call = "Lease"
    /\ IF shutting
       THEN Disposes(c) /\ UNCHANGED <<slot, lease>>
       ELSE /\ slot' = [slot EXCEPT ![caller[c].id] = Mine(c)]
            /\ TakesLease(c, Mine(c))
            /\ UNCHANGED worker
    /\ UNCHANGED <<registry, reserved, auth, shutting, ended, calls>>

NewIsVisible(c) ==
    /\ At(c, "settleNew") /\ Phase(Mine(c)) = "ready"
    /\ caller[c].call = "BeginAuth"
    /\ Goto(c, "navigate")
    /\ UNCHANGED <<worker, registry, tables, gate, lock, shutting, ended, lease, calls>>

\* A startup that failed is unconfirmed: the Restart that follows is refused.
NewFails(c) ==
    /\ At(c, "settleNew")
    /\ IF caller[c].call = "Lease" /\ Ended(Mine(c))
       THEN Leaves(c) /\ UNCHANGED worker
       ELSE Phase(Mine(c)) \in {"degraded", "stopped", "released"} /\ Disposes(c)
    /\ UNCHANGED <<registry, tables, shutting, ended, lease, calls>>

Disposed(c) ==
    /\ At(c, "dispose") /\ Phase(Mine(c)) = "released"
    /\ Fails(c)
    /\ UNCHANGED <<worker, registry, tables, shutting, ended, lease, calls>>

-----------------------------------------------------------------------------
(* begin_auth_session() and finish_auth_session() *)

AuthRefused(c) ==
    /\ Deciding(c, "reserve")
    /\ \/ Refused(c)
       \/ Found(c) # None /\ Leases(Found(c)) # 0
       \/ Found(c) = None /\ Full /\ Idles(Resident) = {}
    /\ Leaves(c)
    /\ UNCHANGED <<worker, registry, tables, shutting, ended, lease, calls>>

Victims(c) ==
    IF Found(c) # None THEN Idles({caller[c].id}) ELSE IF Full THEN Idles(Resident) ELSE {}

\* The mutex is given up before the victim is shut down.
AuthReserves(c) ==
    /\ Deciding(c, "reserve") /\ ~Refused(c)
    /\ \/ \E id \in Victims(c) : Evicts(c, id)
       \/ /\ Found(c) = None /\ ~Full
          /\ Goto(c, "spawn") /\ UNCHANGED <<slot, worker>>
    /\ reserved' = reserved \cup {caller[c].id}
    /\ UNCHANGED <<registry, auth, gate, lock, shutting, ended, lease, calls>>

\* The login page is opened, then the session journal is told.
Navigated(c) ==
    /\ At(c, "navigate")
    /\ \/ /\ Phase(Mine(c)) = "ready"
          /\ \/ Goto(c, "install") /\ UNCHANGED worker
             \/ Disposes(c)
             \/ /\ \E s \in Degraded(worker[Mine(c)].state) :
                      worker' = [worker EXCEPT ![Mine(c)].state = s,
                                               ![Mine(c)].asked = "shutdown"]
                /\ worker[Mine(c)].asked = "nothing"
                /\ Goto(c, "dispose")
       \/ Ended(Mine(c)) /\ Disposes(c)
    /\ UNCHANGED <<registry, tables, gate, lock, shutting, ended, lease, calls>>

\* The reservation is still there: only its owner takes it back, and both
\* shutdowns wait for the gate this call holds (ReservationOwned).
Installs(c) ==
    /\ Deciding(c, "install")
    /\ auth' = [auth EXCEPT ![caller[c].id] = Mine(c)]
    /\ Leaves(c)
    /\ UNCHANGED <<worker, registry, slot, reserved, shutting, ended, lease, calls>>

Unreserves(c) ==
    /\ Deciding(c, "unreserve")
    /\ reserved' = reserved \ {caller[c].id}
    /\ auth' = [auth EXCEPT ![caller[c].id] = None]
    /\ Leaves(c)
    /\ UNCHANGED <<worker, registry, slot, shutting, ended, lease, calls>>

\* The profile's authentication browser, if it has one that nobody is closing.
OpenAuth(c) ==
    {id \in reserved : ProfileOf[id] = ProfileOf[caller[c].id] /\ auth[id] # None}

TakesAuth(c) ==
    /\ Deciding(c, "take")
    /\ \E id \in OpenAuth(c) :
          /\ auth' = [auth EXCEPT ![id] = None]
          /\ Asked(auth[id], "shutdown")
          /\ caller' = [caller EXCEPT ![c].pc = "close", ![c].id = id, ![c].worker = auth[id]]
    /\ UNCHANGED <<registry, slot, reserved, gate, lock, shutting, ended, lease, calls>>

NoAuthToTake(c) ==
    /\ Deciding(c, "take") /\ OpenAuth(c) = {}
    /\ Leaves(c)
    /\ UNCHANGED <<worker, registry, tables, shutting, ended, lease, calls>>

\* Mutant: the reservation goes while the visible browser is still closing.
AuthClosedAtOnce(c) ==
    /\ At(c, "close")
    /\ Goto(c, "unreserve")
    /\ UNCHANGED <<worker, registry, tables, gate, lock, shutting, ended, lease, calls>>

AuthClosed(c) ==
    /\ At(c, "close") /\ Phase(Mine(c)) = "released"
    /\ Goto(c, "unreserve")
    /\ UNCHANGED <<worker, registry, tables, gate, lock, shutting, ended, lease, calls>>

-----------------------------------------------------------------------------
(* Work through a lease.  execute(), run_task() and navigate_and_capture() *)
(* hold the session gate of the worker; a subscription does not.           *)

UseBegins(c) ==
    /\ At(c, "session")
    /\ \A d \in Callers :
          Mine(d) = Mine(c) => caller[d].pc \notin {"using", "restarting", "retried"}
    /\ Goto(c, "using")
    /\ UNCHANGED <<worker, registry, tables, gate, lock, shutting, ended, lease, calls>>

\* The commands are answered, perhaps with a refusal; the last may have failed.
UseEnds(c) ==
    /\ caller[c].pc \in {"using", "retried"}
    /\ worker[Mine(c)].subscriber = Nobody
    /\ UNCHANGED worker \/ Became(Mine(c), Degraded(worker[Mine(c)].state))
    /\ Leaves(c)
    /\ UNCHANGED <<registry, tables, shutting, ended, lease, calls>>

\* A Restart command, or the retry of a navigation that failed.
UseRestarts(c) ==
    /\ At(c, "using")
    /\ worker[Mine(c)].subscriber = Nobody
    /\ Became(Mine(c), Restarting(worker[Mine(c)].state))
    /\ Goto(c, "restarting")
    /\ UNCHANGED <<registry, tables, gate, lock, shutting, ended, lease, calls>>

SubscribeBegins(c) ==
    /\ At(c, "subscribe") /\ Phase(Mine(c)) = "ready"
    /\ worker[Mine(c)].subscriber = Nobody
    /\ worker' = [worker EXCEPT ![Mine(c)].subscriber = c]
    /\ Goto(c, "subscribed")
    /\ UNCHANGED <<registry, tables, gate, lock, shutting, ended, lease, calls>>

\* The actor answered, refused, or is gone.
SubscribeEnds(c) ==
    /\ \/ At(c, "subscribed") /\ worker[Mine(c)].subscriber # c
       \/ At(c, "subscribe") /\ Phase(Mine(c)) \in {"degraded", "released"}
    /\ Leaves(c)
    /\ UNCHANGED <<worker, registry, tables, shutting, ended, lease, calls>>

DropsLease(c) ==
    /\ At(c, "idle") /\ lease[c] # None
    /\ lease' = [lease EXCEPT ![c] = None]
    /\ UNCHANGED <<worker, registry, tables, gate, lock, shutting, ended, caller, calls>>

-----------------------------------------------------------------------------
(* shutdown() and emergency_shutdown(), alone behind the gate *)

NoTables ==
    /\ slot' = [id \in Identities |-> None]
    /\ reserved' = {}
    /\ auth' = [id \in Identities |-> None]

Returns(c) == Leaves(c) /\ ended' = ended \cup {caller[c].call}

ShutdownDrained(c) ==
    /\ Deciding(c, "drained") /\ caller[c].call = "Shutdown"
    /\ NoTables
    /\ caller' = [caller EXCEPT ![c].pc = "closing", ![c].todo = registry]
    /\ UNCHANGED <<worker, registry, gate, lock, shutting, ended, lease, calls>>

\* The registered workers are shut down one after the other.
ShutdownAsks(c) ==
    /\ At(c, "closing") /\ Mine(c) = None /\ caller[c].todo # {}
    /\ LET w == Min(caller[c].todo)
       IN  /\ Asked(w, "shutdown")
           /\ caller' = [caller EXCEPT ![c].worker = w, ![c].todo = @ \ {w}]
    /\ UNCHANGED <<registry, tables, gate, lock, shutting, ended, lease, calls>>

\* Mutant: the next worker is asked before this one has been released.
ShutdownWaitsNot(c) ==
    /\ At(c, "closing") /\ Mine(c) # None
    /\ GotoFor(c, "closing", None)
    /\ UNCHANGED <<worker, registry, tables, gate, lock, shutting, ended, lease, calls>>

ShutdownWaited(c) ==
    /\ At(c, "closing") /\ Mine(c) # None /\ Phase(Mine(c)) = "released"
    /\ GotoFor(c, "closing", None)
    /\ UNCHANGED <<worker, registry, tables, gate, lock, shutting, ended, lease, calls>>

ShutdownReturns(c) ==
    /\ At(c, "closing") /\ Mine(c) = None /\ caller[c].todo = {}
    /\ registry' = {}
    /\ Returns(c)
    /\ UNCHANGED <<worker, tables, shutting, lease, calls>>

EmergencyDrained(c) ==
    /\ At(c, "drained") /\ caller[c].call = "Emergency"
    /\ AbortAll(registry)
    /\ registry' = {}
    /\ caller' = [caller EXCEPT ![c].pc = "aborting", ![c].todo = registry]
    /\ UNCHANGED <<tables, gate, lock, shutting, ended, lease, calls>>

EmergencyWaited(c) ==
    /\ At(c, "aborting") /\ caller[c].todo # {}
    /\ Phase(Min(caller[c].todo)) = "released"
    /\ caller' = [caller EXCEPT ![c].todo = @ \ {Min(@)}]
    /\ UNCHANGED <<worker, registry, tables, gate, lock, shutting, ended, lease, calls>>

\* wait_aborted() ran into its own timeout.
HardAborts(c) ==
    /\ At(c, "aborting") /\ caller[c].todo # {}
    /\ LET w == Min(caller[c].todo)
       IN  /\ worker[w].asked = "abort"
           /\ \E s \in Closing(worker[w].state) :
                 worker' = [worker EXCEPT ![w].state = s, ![w].asked = "kill",
                                          ![w].subscriber = Nobody]
    /\ UNCHANGED <<registry, tables, gate, lock, shutting, ended, lease, caller, calls>>

EmergencyReturns(c) ==
    /\ At(c, "aborting") /\ caller[c].todo = {} /\ lock = Nobody
    /\ NoTables
    /\ Returns(c)
    /\ UNCHANGED <<worker, registry, shutting, lease, calls>>

-----------------------------------------------------------------------------
(* The workers, by their contract *)

\* The profile is owned by one browser at a time (ProfileOwnershipGuard).
WorkerStarts(w) ==
    /\ worker[w].asked # "abort"
    /\ \E s \in Started(worker[w].state) :
          /\ s.live => \A v \in Handles \ {w} :
                          Live(v) => ProfileOf[worker[v].id] # ProfileOf[worker[w].id]
          /\ worker' = [worker EXCEPT ![w].state = s]
    /\ UNCHANGED <<registry, tables, gate, lock, shutting, ended, lease, caller, calls>>

\* The restart ends; the caller whose command it was gets its reply.
WorkerRestarts(w) ==
    /\ worker[w].asked # "abort"
    /\ \E s \in Restarted(worker[w].state) :
          /\ worker' = [worker EXCEPT ![w].state = s]
          /\ caller' = [c \in Callers |->
                IF Mine(c) # w THEN caller[c]
                ELSE IF At(c, "restarting") THEN [caller[c] EXCEPT !.pc = "retried"]
                ELSE IF At(c, "repairing")
                THEN [caller[c] EXCEPT !.pc = IF s.phase = "ready" THEN "repaired" ELSE "broken"]
                ELSE caller[c]]
    /\ UNCHANGED <<registry, tables, gate, lock, shutting, ended, lease, calls>>

\* A Shutdown waits for its turn in the actor, an abort only for a subscription;
\* the reply of the command in hand is dropped.
WorkerCloses(w) ==
    /\ \/ worker[w].asked = "shutdown" /\ Phase(w) \in {"ready", "degraded"}
       \/ worker[w].asked = "abort" /\ Phase(w) # "closing"
    /\ worker[w].subscriber = Nobody
    /\ Became(w, Closing(worker[w].state))
    /\ caller' = [c \in Callers |->
          IF Mine(c) # w THEN caller[c]
          ELSE IF At(c, "restarting") THEN [caller[c] EXCEPT !.pc = "retried"]
          ELSE IF caller[c].pc \in {"repair", "repairing"}
          THEN [caller[c] EXCEPT !.pc = "broken"]
          ELSE caller[c]]
    /\ UNCHANGED <<registry, tables, gate, lock, shutting, ended, lease, calls>>

WorkerEnds(w) ==
    /\ \/ /\ worker[w].asked # "kill"
          /\ Became(w, {s \in Stopped(worker[w].state) : CloseBounded => ~s.live})
       \/ /\ worker[w].asked = "kill" \/ Phase(w) = "stopped"
          /\ Became(w, Released(worker[w].state))
    /\ UNCHANGED <<registry, tables, gate, lock, shutting, ended, lease, caller, calls>>

SubscriptionEnds(w) ==
    /\ worker[w].subscriber # Nobody
    /\ worker' = [worker EXCEPT ![w].subscriber = Nobody]
    /\ UNCHANGED <<registry, tables, gate, lock, shutting, ended, lease, caller, calls>>

\* The future of a call is dropped; a command it had sent may still fail.
Cancel(c) ==
    /\ c \in Cancellable /\ caller[c].call \in OnIdentity \cup OnLease
    /\ \/ UNCHANGED worker
       \/ /\ caller[c].pc \in {"using", "retried"}
          /\ Became(Mine(c), Degraded(worker[Mine(c)].state))
    /\ Leaves(c)
    /\ UNCHANGED <<registry, tables, shutting, ended, lease, calls>>

-----------------------------------------------------------------------------

LeaseStep(c) ==
    \/ LeaseRefused(c) \/ LeaseReuses(c) \/ LeaseRepairs(c) \/ LeaseAwaits(c)
    \/ LeaseRetires(c) \/ LeaseMisses(c) \/ RestartBegins(c)
    \/ Settled(c) \/ GivesUp(c) \/ Retired(c)
    \/ HasRoom(c) \/ MakesRoom(c) \/ AtCapacity(c)

SpawnStep(c) ==
    \/ Evicted(c) \/ SpawnFails(c) \/ Spawns(c) \/ NewIsLeased(c)
    \/ NewIsVisible(c) \/ NewFails(c) \/ Disposed(c)

AuthStep(c) ==
    \/ AuthRefused(c) \/ AuthReserves(c) \/ Navigated(c) \/ Installs(c)
    \/ Unreserves(c) \/ TakesAuth(c) \/ NoAuthToTake(c) \/ AuthClosed(c)

UseStep(c) ==
    \/ UseBegins(c) \/ UseEnds(c) \/ UseRestarts(c)
    \/ SubscribeBegins(c) \/ SubscribeEnds(c)

WriterStep(c) ==
    \/ ShutdownDrained(c) \/ ShutdownAsks(c) \/ ShutdownWaited(c) \/ ShutdownReturns(c)
    \/ EmergencyDrained(c) \/ EmergencyWaited(c) \/ HardAborts(c) \/ EmergencyReturns(c)

Proceed(c) ==
    \/ Enters(c) \/ TurnedAway(c) \/ LeaseStep(c) \/ SpawnStep(c)
    \/ AuthStep(c) \/ UseStep(c) \/ WriterStep(c)

CallStep(c) ==
    \/ CallOnIdentity(c) \/ CallOnLease(c) \/ CallShutdown(c) \/ CallEmergency(c)
    \/ DropsLease(c) \/ Cancel(c)

WorkerStep(w) == WorkerStarts(w) \/ WorkerRestarts(w) \/ WorkerCloses(w) \/ WorkerEnds(w)

Next ==
    \/ \E c \in Callers : CallStep(c) \/ Proceed(c)
    \/ \E w \in Handles : WorkerStep(w) \/ SubscriptionEnds(w)

\* The gate and the mutexes serve their waiters in order, hence strong fairness;
\* a worker that starts, restarts or was asked to stop gets on with it.
Fairness ==
    /\ \A c \in Callers : SF_vars(Proceed(c))
    /\ \A w \in 1 .. MaxCalls :
          /\ WF_vars(w \in Handles /\ WorkerStep(w))
          /\ DevtoolsBounded => WF_vars(w \in Handles /\ SubscriptionEnds(w))

Spec == Init /\ [][Next]_vars
FairSpec == Spec /\ Fairness

-----------------------------------------------------------------------------
(* Properties *)

\* max_resident bounds the browsers that exist, whichever calls admit at the same
\* time (they check it under the mutex and fill the room later): while the station is up,
\* only a victim that begin_auth_session() is still closing goes beyond it.
BrowserBound ==
    ~shutting =>
        Cardinality({w \in Handles : Live(w)})
            <= MaxResident + Cardinality({c \in Callers : At(c, "evict") /\ lock # c})

\* A victim that begin_auth_session() is still closing: neither its slot nor the mutex
\* tells the other calls of it.
Leaving(w) == \E c \in Callers : At(c, "evict") /\ lock # c /\ Mine(c) = w

\* A new worker finds its profile held by another browser of the same station only when that
\* is such a victim: whoever else takes a worker out of a table has it released before the
\* identity, in either of its forms, is opened again.
ProfileIsFree ==
    ~shutting => \A w, v \in Handles :
        /\ w # v /\ ProfileOf[worker[w].id] = ProfileOf[worker[v].id]
        /\ Phase(w) = "starting"
        => Leaving(v) \/ (~Live(v) /\ Phase(v) # "starting")

\* A new worker never finds its profile held, whoever is closing the browser that has it.
VictimsAreGone ==
    ~shutting => \A w, v \in Handles :
        /\ w # v /\ ProfileOf[worker[w].id] = ProfileOf[worker[v].id]
        /\ Phase(w) = "starting"
        => ~Live(v)

\* A profile is open under one identity, in one way: as a resident or as an
\* authentication session.
OneFormPerProfile ==
    /\ Resident \cap reserved = {}
    /\ \A i, j \in Resident \cup reserved : ProfileOf[i] = ProfileOf[j] => i = j

OwnsReservation(c, id) ==
    /\ caller[c].id = id
    /\ \/ caller[c].call = "BeginAuth" /\ caller[c].pc \notin {"gate", "reserve"}
       \/ caller[c].call = "FinishAuth" /\ caller[c].pc \in {"close", "unreserve"}

\* A reservation without a browser belongs to exactly one call in flight, which
\* will fill it or take it back: no identity stays blocked after the calls that
\* opened or closed its authentication browser.
ReservationOwned ==
    \A id \in Identities :
        Cardinality({c \in Callers : OwnsReservation(c, id)})
            = IF id \in reserved /\ auth[id] = None THEN 1 ELSE 0

\* Every worker that may hold a browser is in the registry the shutdowns close,
\* or is being closed by one of them, whichever call spawned it and however that
\* call ended ("the worker registry remains the canonical shutdown set").
RegistryIsShutdownSet ==
    \A w \in Handles :
        Live(w) => w \in registry \/ \E c \in Callers : w \in caller[c].todo \cup {Mine(c)}

\* When shutdown() or emergency_shutdown() has returned, no browser is left, and none starts
\* afterwards, whichever other calls were given up meanwhile.  Where a close may end before
\* its browser is gone (CloseBounded = FALSE) it holds of shutdown() alone, with no emergency
\* beside it and no call given up: a worker that published Stopped leaves the registry with
\* the next registration, and an emergency takes the others out of it before it waits.
ShutdownReleasesAll == ended # {} => \A w \in Handles : ~Live(w)

\* A browser under lease is never closed to make room or to change its runtime:
\* while the station is up a resident goes only when nobody has it on lease, or
\* when the call that takes it away found it unable to serve.
LeaseKeepsBrowser ==
    [][\A id \in Identities :
          slot[id] # None /\ slot'[id] # slot[id] /\ ~shutting =>
              \/ Leases(slot[id]) = 0
              \/ \E c \in Callers : lock' = c /\ caller'[c].pc = "retire"
                                    /\ caller[c].pc \in {"decide", "broken", "settle"}
                                    /\ (caller[c].pc # "broken" =>
                                          Phase(slot[id]) \notin {"ready", "restarting"})]_vars

\* Every call on the station returns.
EveryCallReturns == \A c \in Callers : ~At(c, "idle") ~> At(c, "idle")

\* An emergency comes to its end, whatever the other calls are waiting for.
EmergencyEnds == \A c \in Callers : caller[c].call = "Emergency" ~> "Emergency" \in ended
=============================================================================
