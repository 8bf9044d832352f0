------------------------------ MODULE MCDaemon ------------------------------
(***************************************************************************)
(* The station daemon: the crawl service with the collections it executes, *)
(* the collections that clients begin, the live sessions, and the server   *)
(* whose connections begin them and whose end shuts the services down.     *)
(* Crawls and clients do not meet in a collection, and of the services the *)
(* server sees only how their shutdowns end; of the server the task that   *)
(* runs it with the egress proxy sees the drain and the end.  The broker   *)
(* the daemon starts meets its client before it has a lease.  Next to it,  *)
(* for one client, is the process that keeps workers behind a pipe.  A     *)
(* behaviour is one of any of them: "part" is chosen at first and only     *)
(* that moves.                                                             *)
(***************************************************************************)
EXTENDS CrawlService, TLC

CONSTANTS
    a, i1, i2, task, p1, p2, n1, n2, Parts,
    Connections, LiveIds, NoSession, MaxSessions, RingCapacity, MaxCursor, MaxConnections,
    o1, o2, e1, e2, f1, f2, f3, NoProfile, MaxResident, MaxCaptures

VARIABLES
    part,
    cBegun, cOutcome, cArtifact, cBlob, cReceipt, cPhase, cAccepting, cAdmission, cExecuted,
    cActive, cCancelled, cFailures, cLeaving, cPc, cFaults, cStarts, cStray,
    liveAccepting, opening, sessions, liveReader, stopped, idle, log, closing, departing,
    refused, lastRead,
    server, conn, joinSet, asked, inbox, remoteStop, drainTimedOut, kept,
    main, inner, verdict, stopping, lost, lease, serving, shuttingDown, gate, entered,
    op, up, ending, proxy, tunnel, accepted, counted, expected,
    launcher, elevated, peer, records, heard, orders, reused, seen, terminated, secret, holders,
    visitor, caller,
    clientPipe, ipc, resident, used, ticks, held, lastServed

\* A page without links, and two collections of one task.
MCLinks == {{}}
Begun == {i1, i2}

\* There is room for both of them, or for one; the daemon starts once more than with a crawl.
K(room) == INSTANCE Collection
    WITH Ids <- Begun, Tasks <- {task}, MaxActive <- room, MaxStarts <- MaxStarts + 1,
         begun <- cBegun, outcome <- cOutcome, artifact <- cArtifact, blob <- cBlob,
         receipt <- cReceipt, phase <- cPhase, accepting <- cAccepting, admission <- cAdmission,
         pc <- cPc, executed <- cExecuted, active <- cActive, cancelled <- cCancelled,
         failures <- cFailures, leaving <- cLeaving, faults <- cFaults, starts <- cStarts,
         stray <- cStray

\* Live sessions with their events, and the server with sessions it begins and ends.
L == INSTANCE LiveSessions
S == INSTANCE StationServer WITH LiveIds <- {n1}, MaxCursor <- 0

\* Two operations on the station, and two connections to a proxy with room for one.
R == INSTANCE DaemonRun WITH Ops <- {o1, o2}, Tunnels <- {e1, e2}, MaxTunnels <- 1

\* The start of the elevated broker.
B == INSTANCE BrokerBootstrap

\* The process behind a pipe, with room for fewer profiles than it is asked for.
I == INSTANCE WorkerIpc
    WITH Profiles <- {f1, f2, f3}, pipe <- clientPipe, server <- ipc

begunByClients ==
    <<cBegun, cOutcome, cArtifact, cBlob, cReceipt, cPhase, cAccepting, cAdmission, cExecuted,
      cActive, cCancelled, cFailures, cLeaving, cPc, cFaults, cStarts, cStray>>
work == <<begunByClients, vars>>
live == <<liveAccepting, opening, sessions, liveReader, stopped, idle, log, closing,
          departing, refused, lastRead>>
pipe == <<server, conn, joinSet, asked, inbox, remoteStop, drainTimedOut, kept>>
running == <<main, inner, verdict, stopping, lost, lease, serving, shuttingDown, gate, entered,
             op, up, ending, proxy, tunnel, accepted, counted, expected>>
broker == <<launcher, elevated, peer, records, heard, orders, reused, seen, terminated, secret,
            holders, visitor, caller>>
workers == <<clientPipe, ipc, resident, used, ticks, held, lastServed>>
daemonVars == <<part, work, live, pipe, running, broker, workers>>

DaemonInit ==
    /\ part \in Parts
    /\ Init /\ K(2)!Init
    /\ IF part = "Live" THEN L!LiveInit ELSE S!LiveInit
    /\ S!AcceptInit /\ R!RunInit /\ B!BootstrapInit /\ I!IpcInit

CollectionsKeep == UNCHANGED <<vars, live, pipe, running, broker, workers>>

DaemonNext ==
    /\ UNCHANGED part
    /\ \/ part = "Crawl" /\ Next
          /\ UNCHANGED <<begunByClients, live, pipe, running, broker, workers>>
       \/ part = "Collections" /\ K(2)!Next /\ CollectionsKeep
       \/ part = "Full" /\ K(1)!Next /\ CollectionsKeep
       \/ part = "Live" /\ L!LiveNext /\ UNCHANGED <<work, pipe, running, broker, workers>>
       \/ part = "Server" /\ S!ServerNext /\ UNCHANGED <<work, running, broker, workers>>
       \/ part = "Run" /\ R!RunNext /\ UNCHANGED <<work, live, pipe, broker, workers>>
       \/ part = "Broker" /\ B!BootstrapNext /\ UNCHANGED <<work, live, pipe, running, workers>>
       \/ part = "Ipc" /\ I!IpcNext /\ UNCHANGED <<work, live, pipe, running, broker>>

\* What is fair about a part, where nothing else moves.
DaemonSpec ==
    /\ DaemonInit /\ [][DaemonNext]_daemonVars
    /\ WF_vars(part = "Crawl" /\ RunnerStep) /\ WF_vars(part = "Crawl" /\ SetFlags)
    /\ WF_<<live, pipe>>(part = "Server" /\ S!ServerStep)
    /\ WF_running(part = "Run" /\ R!RunStep)
    /\ WF_broker(part = "Broker" /\ B!BrokerStep)
    /\ WF_workers(part = "Ipc" /\ I!IpcStep)

AllParts == {"Crawl", "Collections", "Full", "Live", "Server", "Run", "Broker", "Ipc"}
CrawlPart == {"Crawl"}
LivePart == {"Live"}
RunPart == {"Run"}

-----------------------------------------------------------------------------
(* Properties *)

\* Each part's variables keep their types.
TypesOK ==
    CASE part = "Crawl" -> TypeOK
      [] part = "Collections" -> K(2)!TypeOK
      [] part = "Full" -> K(1)!TypeOK
      [] part = "Live" -> L!LiveTypeOK
      [] part = "Server" -> S!ServerTypeOK
      [] part = "Run" -> R!RunTypeOK
      [] part = "Broker" -> B!BootstrapTypeOK
      [] part = "Ipc" -> I!IpcTypeOK

\* How a collection ended is never rewritten: not by the interruption of a shutdown that
\* waited for it, not by the recovery of the next start, not by a runner that reconciles.
ClientsEndsAreKept == \A i \in Begun : cOutcome[i] \in C!Ends => cOutcome'[i] = cOutcome[i]
OutcomeIsFinal == [][EndsAreKept /\ ClientsEndsAreKept]_daemonVars

\* What each service holds to, and next to it a client's process.  Collections that clients
\* begin: a receipt is only there with what it vouches for, and a shutdown that is through
\* leaves none of them open (persist_collection_result(), shutdown()).  Live sessions: no
\* reader or lease is of a session that is in no table, and no event is missing that the
\* count of dropped events does not tell (LiveCaptureManager::begin(), push_event()).  The
\* server: no service is shut down under a connection, nor the station under a session
\* (run_windows_server()).  The run: no browser is left when the filters go or the
\* emergency shutdown returns, and a proxy that reports has accounted for its tunnels.  The
\* broker: its capability is kept, and nobody is terminated but that broker, or an elevated
\* process that had its id when it was first looked at.  The process that keeps workers: no more of them than it may, none that failed, and none at
\* its end (run_worker_server()).
ServicesHold ==
    CASE part = "Crawl" -> C!ShutdownSettles
      [] part = "Collections" -> K(2)!ReceiptsAreBacked /\ K(2)!ShutdownSettles
      [] part = "Full" -> K(1)!ReceiptsAreBacked /\ K(1)!ShutdownSettles
      [] part = "Live" -> L!ReadersAreOwned /\ L!LossIsCounted
      [] part = "Server" -> S!ReadersAreOwned /\ S!ServicesOutliveTheirUsers
      [] part = "Run" -> R!FiltersOutliveBrowsers /\ R!EmergencyIsThorough /\ R!TunnelsAddUp
      [] part = "Broker" -> B!CapabilityIsKept /\ B!OnlyTheBrokerIsTerminated /\ B!ExitsAreReal
      [] part = "Ipc" -> /\ I!WorkersAreBounded /\ I!FailedAreForgotten /\ I!LastServedStays
                         /\ I!NothingIsLeft

\* While the daemon serves, the job of the crawl service gets to its end; and the server
\* ends when it is told to, whatever its connections and sessions do.  The daemon ends when
\* it is told to or has lost its containment, unless it locks itself out of the station; and
\* a broker ends with who started it, the worker process with its client.
WorkIsDue ==
    CASE part = "Crawl" -> TRUE [] part = "Server" -> S!Told [] part = "Run" -> R!MustEnd
      [] part = "Broker" -> launcher = "Gone" [] part = "Ipc" -> I!MustDrain [] OTHER -> FALSE
WorkIsDone ==
    CASE part = "Crawl" -> JobAtEnd [] part = "Server" -> server \in S!Over
      [] part = "Run" -> main = "Over" \/ R!Locked [] part = "Broker" -> ~ B!Running
      [] part = "Ipc" -> ipc.at = "Done" [] OTHER -> TRUE
WorkEnds == WorkIsDue ~> WorkIsDone

\* DaemonRun: a daemon that loses its containment ends (run(), emergency_shutdown()).
LossEndsDaemon == part = "Run" => R!LossEndsDaemon

\* BrokerBootstrap: nobody is terminated but the broker, however early its id is given away.
NobodyElseIsTerminated == part = "Broker" => B!NobodyElseIsTerminated

\* LiveSessions: what a client is due can be sent to it as one page.
PagesAreReadable == part = "Live" => L!PagesAreReadable
=============================================================================
