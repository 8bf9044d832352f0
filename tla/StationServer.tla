--------------------------- MODULE StationServer ---------------------------
(***************************************************************************)
(* The pipe server of the station daemon                                   *)
(* (crates/dig2browser-station/src/ipc.rs): an accept loop with a bounded  *)
(* set of connections, each of which serves one request after another,     *)
(* and the end: connections drain or are aborted, and the services are     *)
(* shut down one after the other, the live sessions before the station     *)
(* that lends them their browsers.                                         *)
(*                                                                         *)
(* The live sessions are LiveSessions; other requests are a handler that   *)
(* takes any time.  The crawl service, the collections and the station are *)
(* the outcomes of their shutdowns here; monitors are not shut down.       *)
(***************************************************************************)
EXTENDS LiveSessions

CONSTANT MaxConnections     \* config.max_connections

VARIABLES
    server,       \* where run_windows_server() is
    conn,         \* each connection's task
    joinSet,      \* the connections that were not joined yet
    asked,        \* the shutdown channel
    inbox,        \* requests in the remote_shutdown channel, which holds one
    remoteStop,
    drainTimedOut,
    kept          \* whether the collections' shutdown failed

serverVars == <<server, conn, joinSet, asked, inbox, remoteStop, drainTimedOut, kept>>

Accepting == {"Looping", "Waiting"}
Over == {"Reported", "Failed"}

ServerTypeOK ==
    /\ LiveTypeOK
    /\ server \in Accepting \cup Over \cup
                  {"Draining", "Crawls", "Collections", "Live", "LiveDrains", "Station"}
    /\ conn \in [Connections -> {"None", "Reading", "Handling", "Beginning", "Writing",
                                 "Farewell", "Sending", "Done"}]
    /\ joinSet \subseteq Connections
    /\ asked \in BOOLEAN /\ remoteStop \in BOOLEAN
    /\ inbox \in 0..1
    /\ drainTimedOut \in BOOLEAN /\ kept \in BOOLEAN

AcceptInit ==
    /\ server = "Looping"
    /\ conn = [c \in Connections |-> "None"]
    /\ joinSet = {}
    /\ asked = FALSE /\ inbox = 0 /\ remoteStop = FALSE
    /\ drainTimedOut = FALSE /\ kept = FALSE

ServerInit == LiveInit /\ AcceptInit

ConnectionGoes(c, at) == conn' = [conn EXCEPT ![c] = at]

\* The futures of connections are dropped wherever they are, in begin() too.
Aborted(gone) ==
    /\ conn' = [c \in Connections |-> IF c \in gone THEN "Done" ELSE conn[c]]
    /\ opening' = [c \in Connections |->
                     IF c \in gone /\ opening[c].at \in Awaits
                     THEN [opening[c] EXCEPT !.at = "Gone"] ELSE opening[c]]
    /\ UNCHANGED <<liveAccepting, sessions, liveReader, stopped, idle, log, closing, departing,
                   refused, lastRead>>

-----------------------------------------------------------------------------
(* The accept loop *)

\* The top of the loop: shut down, join when full, or wait for a client.
Full == Cardinality(joinSet) >= MaxConnections

Loop ==
    /\ server = "Looping"
    /\ \/ (asked \/ remoteStop) /\ server' = "Draining"
       \/ ~ asked /\ ~ remoteStop /\ ~ Full /\ server' = "Waiting"
    /\ UNCHANGED <<liveVars, conn, joinSet, asked, inbox, remoteStop, drainTimedOut, kept>>

Join(c) ==
    /\ \/ server = "Looping" /\ Full
       \/ server = "Draining"
    /\ c \in joinSet /\ conn[c] = "Done"
    /\ joinSet' = joinSet \ {c}
    /\ UNCHANGED <<liveVars, server, conn, asked, inbox, remoteStop, drainTimedOut, kept>>

Receive ==
    /\ \/ server = "Looping" /\ Full
       \/ server = "Waiting"
    /\ inbox > 0
    /\ inbox' = inbox - 1 /\ remoteStop' = TRUE
    /\ server' = "Draining"
    /\ UNCHANGED <<liveVars, conn, joinSet, asked, drainTimedOut, kept>>

SeesShutdown ==
    /\ server = "Waiting" /\ asked
    /\ server' = "Draining"
    /\ UNCHANGED <<liveVars, conn, joinSet, asked, inbox, remoteStop, drainTimedOut, kept>>

\* A client, whether or not the channel was closed meanwhile: select! takes either.
Connect(c) ==
    /\ server = "Waiting" /\ conn[c] = "None"
    /\ ConnectionGoes(c, "Reading")
    /\ joinSet' = joinSet \cup {c}
    /\ server' = "Looping"
    /\ UNCHANGED <<liveVars, asked, inbox, remoteStop, drainTimedOut, kept>>

\* The pipe cannot be created or connected: everything is dropped, nothing is shut down.
PipeFails ==
    /\ server = "Waiting"
    /\ server' = "Failed"
    /\ Aborted(joinSet) /\ joinSet' = {}
    /\ UNCHANGED <<asked, inbox, remoteStop, drainTimedOut, kept>>

AskShutdown ==
    /\ ~ asked /\ server \in Accepting
    /\ asked' = TRUE
    /\ UNCHANGED <<liveVars, server, conn, joinSet, inbox, remoteStop, drainTimedOut, kept>>

-----------------------------------------------------------------------------
(* serve_connection *)

ConnectionStays == UNCHANGED <<server, joinSet, asked, remoteStop, drainTimedOut, kept>>

\* A request is read.  A shutdown request is answered before it is passed on.
Requests(c) ==
    /\ conn[c] = "Reading"
    /\ \/ ConnectionGoes(c, "Handling") /\ UNCHANGED liveVars
       \/ ConnectionGoes(c, "Farewell") /\ UNCHANGED liveVars
       \/ ConnectionGoes(c, "Beginning") /\ \E id \in LiveIds : BeginChecks(c, id)
       \/ ConnectionGoes(c, "Writing") /\ \E i \in LiveIds : StopsLive(i) \/ Read(i, 1)
    /\ UNCHANGED inbox /\ ConnectionStays

\* The client is gone, or the connection sees the end between two requests.
Leaves(c) ==
    /\ conn[c] = "Reading"
    /\ ConnectionGoes(c, "Done")
    /\ UNCHANGED <<liveVars, inbox>> /\ ConnectionStays

Begins(c) ==
    /\ conn[c] = "Beginning"
    /\ IF opening[c].at \in Awaits
       THEN BeginStep(c) /\ UNCHANGED conn
       ELSE ConnectionGoes(c, "Writing") /\ UNCHANGED liveVars
    /\ UNCHANGED inbox /\ ConnectionStays

Handled(c) ==
    /\ conn[c] = "Handling"
    /\ ConnectionGoes(c, "Writing")
    /\ UNCHANGED <<liveVars, inbox>> /\ ConnectionStays

Writes(c) ==
    /\ conn[c] \in {"Writing", "Farewell"}
    /\ \/ ConnectionGoes(c, IF conn[c] = "Writing" THEN "Reading" ELSE "Sending")
       \/ ConnectionGoes(c, "Done")
    /\ UNCHANGED <<liveVars, inbox>> /\ ConnectionStays

\* The channel holds one request, and nobody receives after the loop.
Sends(c) ==
    /\ conn[c] = "Sending" /\ inbox = 0
    /\ inbox' = 1
    /\ ConnectionGoes(c, "Done")
    /\ UNCHANGED liveVars /\ ConnectionStays

ConnectionStep(c) ==
    Requests(c) \/ Leaves(c) \/ Begins(c) \/ Handled(c) \/ Writes(c) \/ Sends(c)

-----------------------------------------------------------------------------
(* The end *)

ServerGoes(at) ==
    server' = at /\ UNCHANGED <<conn, asked, inbox, remoteStop>>

\* Mutant: the services do not wait for the connections.
AllJoinedAnyway == TRUE
AllJoined == joinSet = {}

DrainEnds ==
    /\ server = "Draining" /\ AllJoined
    /\ ServerGoes("Crawls")
    /\ UNCHANGED <<liveVars, joinSet, drainTimedOut, kept>>

\* abort_all() and the end of those it aborts.
DrainTimesOut ==
    /\ server = "Draining" /\ joinSet # {}
    /\ server' = "Crawls" /\ drainTimedOut' = TRUE
    /\ Aborted(joinSet) /\ joinSet' = {}
    /\ UNCHANGED <<asked, inbox, remoteStop, kept>>

\* An error of the crawl service ends the server before the live sessions and the station
\* are shut down.
CrawlsShutDown ==
    /\ server = "Crawls"
    /\ \/ ServerGoes("Collections") \/ ServerGoes("Failed")
    /\ drainTimedOut' \in {drainTimedOut, TRUE}
    /\ UNCHANGED <<liveVars, joinSet, kept>>

\* One of the collections is kept until the station is down.
CollectionsShutDown ==
    /\ server = "Collections"
    /\ ServerGoes("Live")
    /\ kept' \in BOOLEAN
    /\ UNCHANGED <<liveVars, joinSet, drainTimedOut>>

LiveShutsDown ==
    \/ /\ server = "Live" /\ ServerGoes("LiveDrains") /\ CloseLive
       /\ UNCHANGED <<joinSet, drainTimedOut, kept>>
    \/ /\ server = "LiveDrains" /\ ServerGoes("Station")
       /\ \E timedOut \in BOOLEAN :
              LiveClosed(timedOut) /\ drainTimedOut' = (drainTimedOut \/ timedOut)
       /\ UNCHANGED <<joinSet, kept>>

StationShutsDown ==
    /\ server = "Station"
    /\ \/ ServerGoes(IF kept THEN "Failed" ELSE "Reported") \/ ServerGoes("Failed")
    /\ UNCHANGED <<liveVars, joinSet, drainTimedOut, kept>>

LiveStep(c) == (Event(c) \/ ReaderEnds(c) \/ TimePasses(c)) /\ UNCHANGED serverVars

ServerStep ==
    \/ Loop \/ Receive \/ SeesShutdown
    \/ DrainEnds \/ DrainTimesOut
    \/ CrawlsShutDown \/ CollectionsShutDown \/ LiveShutsDown \/ StationShutsDown

ServerNext ==
    \/ ServerStep \/ PipeFails \/ AskShutdown
    \/ \E c \in Connections : Connect(c) \/ Join(c) \/ ConnectionStep(c) \/ LiveStep(c)

ServerSpec == ServerInit /\ [][ServerNext]_<<liveVars, serverVars>>

-----------------------------------------------------------------------------
(* Properties *)

\* The services go down one after the other, each when nobody uses it any more: no
\* connection is served once the first is asked, and no session holds a browser when the
\* station is, but for one whose reader has yet to notice its abort ("Release every held
\* live-capture lease before the station's own shutdown", run_windows_server()).
ServicesOutliveTheirUsers ==
    /\ server \notin Accepting \cup {"Draining", "Failed"} =>
           \A c \in Connections : conn[c] \in {"None", "Done"}
    /\ server \in {"Station", "Reported"} =>
           \A c \in Connections : Held(c) => liveReader[c] = "Aborted"

\* The server ends when it is told to, whatever its connections and sessions do.
Told == asked \/ inbox > 0
ServerEnds == Told ~> (server \in Over)
=============================================================================
