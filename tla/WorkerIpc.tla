----------------------------- MODULE WorkerIpc -----------------------------
(***************************************************************************)
(* A process that keeps browser workers for one client                     *)
(* (src/worker_ipc.rs, src/bin/dig2browser-worker.rs).  The client sends   *)
(* requests down a pipe, the server answers one after the other, and the   *)
(* workers of the profiles it was asked for stay, up to a number, for the  *)
(* next request.  A worker is what WorkerStates says of it, in a slot      *)
(* until it is released.                                                   *)
(*                                                                         *)
(* Abstracted: frames are what reading them finds out; of a page that was  *)
(* captured only whether it fits into a response.                          *)
(***************************************************************************)
EXTENDS Naturals, FiniteSets, WorkerStates

CONSTANTS
    Profiles, NoProfile,
    MaxResident,     \* WorkerIpcConfig::max_resident
    MaxCaptures      \* bound: captures asked for

VARIABLES
    pipe,            \* whether the client still has its end
    server,          \* where serve_connection() is, and with what
    resident, used,  \* WorkerRegistry: the worker of each profile, when it was last used
    ticks,           \* clock
    held,            \* the workers that are not released
    lastServed       \* history: whose capture was answered last

ipcVars == <<pipe, server, resident, used, ticks, held, lastServed>>

\* What a client may send: control requests have no fields; a frame that is none is answered,
\* one that is cut short is not.
Captures == [kind : {"Capture"}, profile : Profiles]
Controls == [kind : {"Health", "Shutdown", "Invalid", "Malformed", "Cut"}, profile : {NoProfile}]
Statuses == {"Ok", "Invalid", "Unavailable", "CaptureFailed", "TooLarge", "Protocol"}

\* One slot more than there may be workers.
Slots == 1 .. MaxResident + 1
NoWorker == 0
Free == [phase |-> "released", condemned |-> FALSE, live |-> FALSE]
Life(w) == held[w].life
LifePhase(w) == Life(w).phase
Held == {w \in Slots : LifePhase(w) # "released"}
Residents == {p \in Profiles : resident[p] # NoWorker}

Ats == {"Read", "Look", "Settle", "Restart", "Room", "Evict", "Spawn", "Start", "Dismiss",
        "Navigate", "Rotate", "Capture", "Remove", "Renew", "Reply", "Drain", "Drop", "Done"}

\* The request at hand, the worker that is waited for, the answer there will be.
Servers == [at : Ats, request : Captures \cup Controls, worker : Slots \cup {NoWorker},
            answer : Statuses]
Waiting == [at |-> "Read", request |-> [kind |-> "Health", profile |-> NoProfile],
            worker |-> NoWorker, answer |-> "Ok"]

IpcTypeOK ==
    /\ pipe \in {"Open", "Closed"} /\ server \in Servers
    /\ resident \in [Profiles -> Slots \cup {NoWorker}]
    /\ used \in [Profiles -> 0..ticks] /\ ticks \in 0..MaxCaptures
    /\ held \in [Slots -> [life : Workers, profile : Profiles \cup {NoProfile}, failed : BOOLEAN]]
    /\ lastServed \in Profiles \cup {NoProfile}

IpcInit ==
    /\ pipe = "Open" /\ server = Waiting
    /\ resident = [p \in Profiles |-> NoWorker] /\ used = [p \in Profiles |-> 0] /\ ticks = 0
    /\ held = [w \in Slots |-> [life |-> Free, profile |-> NoProfile, failed |-> FALSE]]
    /\ lastServed = NoProfile

-----------------------------------------------------------------------------
(* The workers, and the client *)

registry == <<resident, used, ticks>>
talk == <<pipe, lastServed>>

Becomes(w, lives) ==
    \E life \in lives :
        held' = [held EXCEPT ![w] =
                    IF life.phase = "released"
                    THEN [life |-> Free, profile |-> NoProfile, failed |-> FALSE]
                    ELSE [@ EXCEPT !.life = life]]

\* A start, a restart or a close goes on.
WorkerMoves(w) ==
    /\ Becomes(w, Started(Life(w)) \cup Restarted(Life(w)) \cup Stopped(Life(w))
                  \cup Released(Life(w)))
    /\ UNCHANGED <<server, talk, registry>>

Leaves == /\ pipe = "Open" /\ pipe' = "Closed"
          /\ UNCHANGED <<server, lastServed, registry, held>>

Goes(at) == server' = [server EXCEPT !.at = at]
Answers(status) == server' = [server EXCEPT !.at = "Reply", !.answer = status]

\* BrowserWorker::shutdown(), and who waits for its end.
Closes(w, at, answer) ==
    /\ Becomes(w, Closing(Life(w)))
    /\ server' = [server EXCEPT !.at = at, !.worker = w, !.answer = answer]
IsReleased == server.worker \notin Held

\* Its entry is taken out of the table.
Forgets(p) == /\ resident' = [resident EXCEPT ![p] = NoWorker]
              /\ used' = [used EXCEPT ![p] = 0]

-----------------------------------------------------------------------------
(* serve_connection *)

\* read_request(), validate_request_fields()
Reads ==
    /\ server.at = "Read"
    /\ \E request \in Captures \cup Controls :
          /\ pipe = "Open" \/ request.kind = "Cut"
          /\ server' = [Waiting EXCEPT
                !.request = request,
                !.at = CASE request.kind = "Capture" -> "Look" [] request.kind = "Cut" -> "Drain"
                         [] OTHER -> "Reply",
                !.answer = CASE request.kind = "Invalid" -> "Invalid"
                             [] request.kind = "Malformed" -> "Protocol" [] OTHER -> "Ok"]
          /\ request.kind = "Capture" => ticks < MaxCaptures
          /\ ticks' = IF request.kind = "Capture" THEN ticks + 1 ELSE ticks
    /\ UNCHANGED <<talk, resident, used, held>>

\* The pipe has come to its end.
Ends == /\ server.at = "Read" /\ pipe = "Closed"
        /\ Goes("Drain") /\ UNCHANGED <<talk, registry, held>>

\* write_response(): nobody reads it any more, and the connection is over.
Replies ==
    /\ server.at = "Reply"
    /\ IF pipe = "Open"
       THEN /\ lastServed' = IF server.request.kind # "Capture" THEN lastServed
                             ELSE IF server.answer \in {"Ok", "TooLarge"} THEN server.request.profile
                             ELSE IF lastServed = server.request.profile THEN NoProfile
                             ELSE lastServed
            /\ server' = IF server.request.kind \in {"Shutdown", "Malformed"}
                         THEN [Waiting EXCEPT !.at = "Drain"] ELSE Waiting
       ELSE server' = [Waiting EXCEPT !.at = "Drain"] /\ UNCHANGED lastServed
    /\ UNCHANGED <<pipe, registry, held>>

\* WorkerRegistry::shutdown_all(), one after the other.
Drains ==
    /\ server.at = "Drain"
    /\ IF Residents = {} THEN Goes("Done") /\ UNCHANGED <<resident, used, held>>
       ELSE \E p \in Residents :
               /\ Forgets(p)
               /\ Closes(resident[p], "Drop", server.answer)
    /\ UNCHANGED <<talk, ticks>>

Drops == /\ server.at = "Drop" /\ IsReleased
         /\ Goes("Drain") /\ UNCHANGED <<talk, registry, held>>

-----------------------------------------------------------------------------
(* WorkerRegistry::worker *)

Profile == server.request.profile
Mine == resident[Profile]
Uses == Goes("Navigate") /\ used' = [used EXCEPT ![Profile] = ticks]

\* The worker that is there is ready, or to be restarted, or on its way.
Looks ==
    /\ server.at = "Look"
    /\ CASE Mine = NoWorker -> Goes("Room") /\ UNCHANGED <<used, held>>
         [] Mine # NoWorker /\ LifePhase(Mine) = "ready" -> Uses /\ UNCHANGED held
         [] Mine # NoWorker /\ LifePhase(Mine) = "degraded" ->
               /\ UNCHANGED used
               /\ IF Restarting(Life(Mine)) = {} THEN Goes("Renew") /\ UNCHANGED held
                  ELSE Becomes(Mine, Restarting(Life(Mine))) /\ Goes("Restart")
         [] OTHER -> Goes("Settle") /\ UNCHANGED <<used, held>>
    /\ UNCHANGED <<talk, resident, ticks>>

\* AgentCommand::Restart is answered, wait_until_settled() returns.
Settled ==
    /\ server.at \in {"Restart", "Settle"} /\ LifePhase(Mine) \in {"ready", "degraded", "stopped"}
    /\ IF LifePhase(Mine) = "ready" THEN Uses ELSE Goes("Renew") /\ UNCHANGED used
    /\ UNCHANGED <<talk, resident, ticks, held>>

\* remove_worker(): and then as if there had been none, or after a failed request the answer.
Removes ==
    /\ server.at \in {"Renew", "Remove"}
    /\ Forgets(Profile)
    /\ Closes(Mine, IF server.at = "Renew" THEN "Evict" ELSE "Dismiss", server.answer)
    /\ UNCHANGED <<talk, ticks>>

\* max_resident, and who makes room.
HasRoom == Cardinality(Residents) < MaxResident
Oldest(p) == \A q \in Residents : used[p] <= used[q]

MakesRoom ==
    /\ server.at = "Room"
    /\ IF HasRoom THEN Goes("Spawn") /\ UNCHANGED <<resident, used, held>>
       ELSE \E p \in Residents :
               /\ Oldest(p)
               /\ Forgets(p)
               /\ Closes(resident[p], "Evict", server.answer)
    /\ UNCHANGED <<talk, ticks>>

\* What was removed is waited for.
Evicted ==
    /\ server.at = "Evict" /\ IsReleased
    /\ Goes("Room") /\ UNCHANGED <<talk, registry, held>>

\* The identity cannot be opened, or there is a worker.
Spawns ==
    /\ server.at = "Spawn"
    /\ \/ Answers("Unavailable") /\ UNCHANGED held
       \/ LET w == CHOOSE slot \in Slots \ Held : TRUE IN
          /\ held' = [held EXCEPT ![w] = [life |-> Spawned, profile |-> Profile, failed |-> FALSE]]
          /\ server' = [server EXCEPT !.at = "Start", !.worker = w]
    /\ UNCHANGED <<talk, registry>>

StartSettles ==
    /\ server.at = "Start" /\ LifePhase(server.worker) \in {"ready", "degraded"}
    /\ IF LifePhase(server.worker) = "ready"
       THEN /\ resident' = [resident EXCEPT ![Profile] = server.worker]
            /\ Uses /\ UNCHANGED held
       ELSE Closes(server.worker, "Dismiss", "Unavailable") /\ UNCHANGED <<resident, used>>
    /\ UNCHANGED <<talk, ticks>>

Dismissed ==
    /\ server.at = "Dismiss" /\ IsReleased
    /\ Answers(server.answer) /\ UNCHANGED <<talk, registry, held>>

-----------------------------------------------------------------------------
(* WorkerRegistry::capture *)

\* A navigation may renew the browser first.
RenewsFirst ==
    /\ server.at = "Navigate" /\ Becomes(Mine, Restarting(Life(Mine)))
    /\ Goes("Rotate") /\ UNCHANGED <<talk, registry>>

\* The command was carried out, or it was not and the worker says so or not.
Asks == {"Navigate", "Rotate", "Capture"}
Succeeds ==
    /\ server.at \in Asks /\ LifePhase(Mine) = "ready"
    /\ IF server.at = "Capture" THEN \E status \in {"Ok", "TooLarge"} : Answers(status)
       ELSE Goes("Capture")
    /\ UNCHANGED <<talk, registry, held>>

CommandFails ==
    /\ server.at \in Asks /\ LifePhase(Mine) \in {"ready", "degraded"}
    /\ \E life \in {Life(Mine)} \cup Degraded(Life(Mine)) :
          held' = [held EXCEPT ![Mine].life = life, ![Mine].failed = TRUE]
    /\ server' = [server EXCEPT !.at = "Remove", !.answer = "CaptureFailed"]
    /\ UNCHANGED <<talk, registry>>

ServeStep ==
    \/ Reads \/ Ends \/ Replies \/ Drains \/ Drops
    \/ Looks \/ Settled \/ Removes \/ MakesRoom \/ Evicted \/ Spawns \/ StartSettles \/ Dismissed
    \/ RenewsFirst \/ Succeeds \/ CommandFails
SomeWorkerMoves == \E w \in Slots : WorkerMoves(w)

IpcNext == ServeStep \/ SomeWorkerMoves \/ Leaves

\* The server is one task; a worker settles and closes (WorkerContract).  Only the client's
\* requests are up to the client.
IpcStep == (ServeStep /\ server.at # "Read") \/ Ends \/ SomeWorkerMoves
IpcSpec == IpcInit /\ [][IpcNext]_ipcVars /\ WF_ipcVars(IpcStep)

-----------------------------------------------------------------------------
(* Properties *)

\* There are never more workers than the process may have, those included that are still
\* starting or closing, and never two for one profile (WorkerRegistry::worker).
WorkersAreBounded ==
    /\ Cardinality(Held) <= MaxResident
    /\ \A w, v \in Held : held[w].profile = held[v].profile => w = v

\* A worker whose browser failed a request is not asked again (remove_worker).
FailedAreForgotten == \A w \in Slots : (held[w].failed /\ resident[held[w].profile] = w) => server.at = "Remove"

\* Whoever was served last is not who makes room (last_used).
LastServedStays ==
    (server.at = "Read" /\ lastServed # NoProfile /\ MaxResident > 1) =>
        resident[lastServed] # NoWorker \/ server.request.profile = lastServed

\* A process that is through leaves no browser behind (shutdown_all).
NothingIsLeft == server.at = "Done" => Held = {}

\* It ends when its client leaves or tells it to.
MustDrain == pipe = "Closed" \/ server.at = "Drain"
IpcEnds == MustDrain ~> (server.at = "Done")
=============================================================================
