-------------------------- MODULE StationRequests --------------------------
(***************************************************************************)
(* A request and its answer, from the client's call to the handler of the  *)
(* station and back: crates/dig2browser-client/src/lib.rs,                 *)
(* crates/dig2browser-protocol/src/lib.rs and the handlers of              *)
(* crates/dig2browser-station/src/ipc.rs.  The caller asks for one thing,  *)
(* and asks again when it got no answer or another one: on the same        *)
(* connection, or on a new one while the handler of the first still runs.  *)
(*                                                                         *)
(* StationClient is how several callers share the pipe, StationServer how  *)
(* the server ends its services, TaskContract what a task passes; here are *)
(* the kinds of requests, what each is refused for, what it changes, and   *)
(* what the server counts.                                                 *)
(***************************************************************************)
EXTENDS Naturals, FiniteSets

CONSTANTS
    MaxTries,    \* how often the caller asks
    Limit        \* max_connections

VARIABLES
    op,          \* what is asked: kind of request, and verb of the families
    flaw,        \* what is wrong with its arguments
    gates,       \* whether the operator allows it
    services,    \* whether the operator configured what it needs
    contents,    \* what each try asks for under the one id
    caller,      \* where the call is, its try, its connection
    answer,      \* what each try ended with
    conn,        \* each connection, seen from both ends
    target,      \* what the id names in the station
    changed,     \* the tries that changed it
    tally,       \* ServerTelemetry
    accept,      \* the accept loop
    remote       \* remote_shutdown holds a request

requestVars == <<op, flaw, gates, services, contents, caller, answer, conn, target, changed, tally,
                 accept, remote>>

Tries == 1..MaxTries
Families == {"Collection", "Crawl", "LiveEvents", "DurableMonitor"}
Controls == {"Health", "Status", "Shutdown"}
Profiled == {"Capture", "Task", "IdentityStatus", "UpdateIdentityState", "BeginAuthSession",
             "FinishAuthSession", "CheckAuthSession", "ImportSession"}
Op(kind, verb) == [kind |-> kind, verb |-> verb]
Ops == [kind : Controls \cup Profiled, verb : {"Only"}]
       \cup [kind : Families, verb : {"Begin", "Read", "End"}]

Counted == op.kind \in {"Capture", "Task"}

\* What TaskPermissions and the configuration may withhold.
Gated == op.kind \notin {"Health", "Status", "Capture", "Task"}
Rooted == op.kind \in {"Collection", "Crawl", "DurableMonitor"}

\* WorkerRequest::validate() and MAX_REQUEST_BYTES.  The constructors of the families validate
\* what they make ("Own"); encode() is the first to refuse the other kinds, and what is too
\* large ("Wire").
CanBeFlawed(how) ==
    CASE how = "Own" -> op.kind \in Families
      [] how = "Wire" -> op.kind \in Profiled \/ op \in {Op("Collection", "Begin"), Op("Crawl", "Begin")}
      [] OTHER -> TRUE

Unborn == [at |-> "None", try |-> 0, reply |-> "None", peer |-> FALSE, written |-> FALSE, ok |-> FALSE]
Live == {"Reading", "Handling", "Leasing", "Working", "Recovering", "Writing", "Stopping"}
\* A "Conflict" goes over the wire as "Invalid": here is told apart what is refused for the id.
Replies == {"Ok", "Invalid", "Conflict", "Unavailable", "CaptureFailed", "TooLarge", "Unsupported"}
NoTally == [accepted |-> 0, active |-> 0, completed |-> 0, aborted |-> 0,
            started |-> 0, in_flight |-> 0, succeeded |-> 0, failed |-> 0]

RequestTypeOK ==
    /\ op \in Ops /\ flaw \in {"None", "Own", "Wire"} /\ gates \in BOOLEAN /\ services \in BOOLEAN
    /\ contents \in [Tries -> {"None", "this", "other"}]
    /\ caller.at \in {"Idle", "Connecting", "Sending", "Waiting"}
    /\ caller.try \in 0..MaxTries /\ caller.conn \in 0..MaxTries
    /\ answer \in [Tries -> Replies \cup {"None", "Refused", "NoStation", "Frame", "Timeout"}]
    /\ \A n \in Tries :
          /\ conn[n].at \in Live \cup {"None", "Over", "Joined"}
          /\ conn[n].try \in 0..MaxTries /\ conn[n].reply \in Replies \cup {"None"}
          /\ conn[n].peer \in BOOLEAN /\ conn[n].written \in BOOLEAN /\ conn[n].ok \in BOOLEAN
    /\ target.state \in {"Absent", "Left", "Reserved", "There", "Taken", "Over", "Cancelled"}
    /\ target.content \in {"None", "this", "other"}
    /\ changed \subseteq Tries
    /\ DOMAIN tally = DOMAIN NoTally /\ \A f \in DOMAIN tally : tally[f] \in 0..MaxTries
    /\ accept \in {"Accepting", "Draining", "Ended"} /\ remote \in BOOLEAN

\* One thing may be wrong with a request that is allowed.
RequestInit ==
    /\ op \in Ops /\ flaw \in {"None", "Own", "Wire"} /\ CanBeFlawed(flaw)
    /\ gates \in BOOLEAN /\ services \in BOOLEAN
    /\ (Gated \/ gates) /\ (Rooted \/ services)
    /\ flaw # "None" => gates /\ services
    /\ contents = [n \in Tries |-> "None"]
    /\ caller = [at |-> "Idle", try |-> 0, conn |-> 0]
    /\ answer = [n \in Tries |-> "None"]
    /\ conn = [n \in Tries |-> Unborn]
    /\ target \in {[state |-> "Absent", content |-> "None"], [state |-> "There", content |-> "this"]}
    /\ target.state = "There" =>
          op.verb \in {"Read", "End"} \/ op.kind = "FinishAuthSession"
    /\ changed = {}
    /\ tally = NoTally
    /\ accept = "Accepting" /\ remote = FALSE

-----------------------------------------------------------------------------
(* The client: one call at a time *)

Returns(result) ==
    /\ answer' = [answer EXCEPT ![caller.try] = result]
    /\ caller' = [caller EXCEPT !.at = "Idle"]

\* The client gives its end of the connection up.
Disconnects(result) ==
    /\ answer' = [answer EXCEPT ![caller.try] = result]
    /\ caller' = [caller EXCEPT !.at = "Idle", !.conn = 0]
    /\ conn' = [conn EXCEPT ![caller.conn].peer = FALSE,
                   ![caller.conn].reply = IF conn[caller.conn].at = "Writing" THEN @ ELSE "None"]

\* The first try asks for "this"; another may ask for something else under the same id.  What
\* is refused for what it is would be refused again, and is asked for once.
Asks(content) ==
    /\ caller.at = "Idle"
    /\ caller.try < IF flaw = "None" /\ gates /\ services THEN MaxTries ELSE 1
    /\ content = "other" => caller.try > 0 /\ op.verb = "Begin"
    /\ contents' = [contents EXCEPT ![caller.try + 1] = content]
    /\ IF flaw = "Own"
       THEN /\ answer' = [answer EXCEPT ![caller.try + 1] = "Refused"]
            /\ caller' = [caller EXCEPT !.try = @ + 1]
       ELSE /\ caller' = [caller EXCEPT !.try = @ + 1,
                              !.at = IF caller.conn = 0 THEN "Connecting" ELSE "Sending"]
            /\ UNCHANGED answer
    /\ UNCHANGED <<op, flaw, gates, services, conn, target, changed, tally, accept, remote>>

Unjoined == {n \in Tries : conn[n].at \in Live \cup {"Over"}}

\* run_windows_server() makes the next instance of the pipe when it has room.
Connects ==
    /\ caller.at = "Connecting"
    /\ accept = "Accepting" /\ Cardinality(Unjoined) < Limit
    /\ conn' = [conn EXCEPT ![caller.try] = [Unborn EXCEPT !.at = "Reading", !.peer = TRUE]]
    /\ caller' = [caller EXCEPT !.at = "Sending", !.conn = caller.try]
    /\ tally' = [tally EXCEPT !.accepted = @ + 1, !.active = @ + 1]
    /\ UNCHANGED <<op, flaw, gates, services, contents, answer, target, changed, accept, remote>>

CannotConnect ==
    /\ caller.at = "Connecting"
    /\ Returns("NoStation")
    /\ UNCHANGED <<op, flaw, gates, services, contents, conn, target, changed, tally, accept, remote>>

\* write_worker_request(): what encode() refuses costs the connection as well.
Sends ==
    /\ caller.at = "Sending" /\ flaw = "None" /\ conn[caller.conn].at \in Live
    /\ conn' = [conn EXCEPT ![caller.conn].written = TRUE, ![caller.conn].try = caller.try]
    /\ caller' = [caller EXCEPT !.at = "Waiting"]
    /\ UNCHANGED <<op, flaw, gates, services, contents, answer, target, changed, tally, accept, remote>>

CannotSend ==
    /\ caller.at = "Sending"
    /\ flaw # "None" \/ conn[caller.conn].at \notin Live
    /\ Disconnects("Frame")
    /\ UNCHANGED <<op, flaw, gates, services, contents, target, changed, tally, accept, remote>>

Receives ==
    /\ caller.at = "Waiting" /\ conn[caller.conn].reply # "None" /\ conn[caller.conn].at # "Writing"
    /\ Returns(conn[caller.conn].reply)
    /\ conn' = [conn EXCEPT ![caller.conn].reply = "None"]
    /\ UNCHANGED <<op, flaw, gates, services, contents, target, changed, tally, accept, remote>>

\* request_timeout, or the other end closed the pipe.
GivesUp ==
    /\ caller.at = "Waiting"
    /\ Disconnects(IF conn[caller.conn].at \in Live THEN "Timeout" ELSE "Frame")
    /\ UNCHANGED <<op, flaw, gates, services, contents, target, changed, tally, accept, remote>>

-----------------------------------------------------------------------------
(* serve_connection() *)

Leaves(n, ok) == conn' = [conn EXCEPT ![n].at = "Over", ![n].ok = ok, ![n].written = FALSE]
Closed == [tally EXCEPT !.active = @ - 1]

\* read_worker_request(), and the observation of a capture or task begins.
Takes(n) ==
    /\ conn[n].at = "Reading" /\ conn[n].written
    /\ conn' = [conn EXCEPT ![n].at = "Handling", ![n].written = FALSE]
    /\ tally' = IF Counted THEN [tally EXCEPT !.started = @ + 1, !.in_flight = @ + 1] ELSE tally
    /\ UNCHANGED <<op, flaw, gates, services, contents, caller, answer, target, changed, accept, remote>>

\* The client closed its end, or the server shuts down: what was written may be left unread.
StopsReading(n) ==
    /\ conn[n].at = "Reading"
    /\ accept = "Draining" \/ (~ conn[n].peer /\ ~ conn[n].written)
    /\ Leaves(n, TRUE)
    /\ tally' = Closed
    /\ UNCHANGED <<op, flaw, gates, services, contents, caller, answer, target, changed, accept, remote>>

Result(n, status) == conn' = [conn EXCEPT ![n].at = "Writing", ![n].reply = status]
Goes(n, at) == conn' = [conn EXCEPT ![n].at = at]
\* Mutant: the end of a request is counted whether its start was or not.
ObservedAlways(status) ==
    IF status = "Ok" THEN [tally EXCEPT !.succeeded = @ + 1, !.in_flight = @ - 1]
    ELSE [tally EXCEPT !.failed = @ + 1, !.in_flight = @ - 1]

Observed(status) ==
    IF ~ Counted THEN tally
    ELSE IF status = "Ok" THEN [tally EXCEPT !.succeeded = @ + 1, !.in_flight = @ - 1]
    ELSE [tally EXCEPT !.failed = @ + 1, !.in_flight = @ - 1]
Ends(n, status) == Result(n, status) /\ tally' = Observed(status)

SameStation == UNCHANGED <<op, flaw, gates, services, contents, caller, answer, accept, remote>>
Keeps == UNCHANGED <<target, changed>>
Becomes(n, state, content) ==
    /\ target' = [state |-> state, content |-> content]
    /\ changed' = changed \cup {n}

\* A service that was not configured is missed before anything is looked at.
Missing(n) ==
    /\ conn[n].at = "Handling" /\ ~ services
    /\ Ends(n, IF op.kind = "DurableMonitor" THEN "Unavailable" ELSE "Unsupported")
    /\ Keeps /\ SameStation

Ungated(n) ==
    /\ conn[n].at = "Handling" /\ services /\ ~ gates
    /\ Ends(n, "Invalid")
    /\ Keeps /\ SameStation

Admitted(n) == conn[n].at = "Handling" /\ services /\ gates
Content(n) == contents[conn[n].try]

\* Health, Status and Shutdown.
Answers(n) ==
    /\ Admitted(n) /\ op.kind \in Controls
    /\ Ends(n, "Ok")
    /\ Keeps /\ SameStation

\* identity_status() reads the session record.  An answer that cannot be made ("Protocol") ends
\* a request as a service that is not available does, here and below.
ReportsIdentity(n) ==
    /\ Admitted(n) /\ op.kind = "IdentityStatus"
    /\ \E status \in {"Ok", "Invalid", "Unavailable"} : Ends(n, status)
    /\ Keeps /\ SameStation

\* update_identity_state() appends to the session record, and an append that is said to have
\* failed may have been made.
UpdatesIdentity(n) ==
    /\ Admitted(n) /\ op.kind = "UpdateIdentityState"
    /\ \/ Ends(n, "Ok") /\ Becomes(conn[n].try, "There", Content(n))
       \/ Ends(n, "Invalid") /\ Keeps
       \/ Ends(n, "Unavailable") /\ (Keeps \/ Becomes(conn[n].try, "There", Content(n)))
    /\ SameStation

\* A lease, work on the page or the store of cookies, and last an append to the record: what
\* fails on the way may have changed some of it.
UsesSession(n) ==
    /\ \/ /\ Admitted(n) /\ Keeps
          /\ \/ \E status \in {"Invalid", "Unavailable"} : Ends(n, status)
             \/ Goes(n, "Working") /\ UNCHANGED tally
       \/ /\ conn[n].at = "Working"
          /\ \/ Ends(n, "Ok") /\ Becomes(conn[n].try, "There", Content(n))
             \/ Ends(n, "Invalid") /\ Keeps
             \/ Ends(n, "Unavailable") /\ (Keeps \/ Becomes(conn[n].try, "There", Content(n)))
    /\ SameStation

ChecksSession(n) == op.kind = "CheckAuthSession" /\ UsesSession(n)
ImportsSession(n) == op.kind = "ImportSession" /\ UsesSession(n)

\* capture() and run_task() refuse what the policy or the gates forbid, or ask for a lease.
Captures(n) ==
    /\ Admitted(n) /\ Counted
    /\ Ends(n, "Invalid") \/ (Goes(n, "Leasing") /\ UNCHANGED tally)
    /\ Keeps /\ SameStation

\* acquire_lease() asks again while a lease may still come.
Leases(n) ==
    /\ conn[n].at = "Leasing"
    /\ Ends(n, "Unavailable") \/ (Goes(n, "Working") /\ UNCHANGED tally)
    /\ Keeps /\ SameStation

\* A capture whose navigation failed restarts the browser and is tried once more.
Works(n) ==
    /\ Counted
    /\ \/ /\ conn[n].at \in {"Working", "Recovering"}
          /\ \E status \in {"Ok", "CaptureFailed", "TooLarge"} : Ends(n, status)
       \/ /\ conn[n].at = "Working" /\ op.kind = "Capture"
          /\ Goes(n, "Recovering") /\ UNCHANGED tally
    /\ Keeps /\ SameStation

\* CrawlManager::begin(), under the lock of the jobs.  When the journal is written and that is
\* not known, it is left without a job, and the id is taken.
BeginsCrawl(n) ==
    /\ Admitted(n) /\ op = Op("Crawl", "Begin")
    /\ \/ Ends(n, "Unavailable") /\ Keeps
       \/ /\ target.state = "Absent"
          /\ \/ Ends(n, "Ok") /\ Becomes(conn[n].try, "There", Content(n))
             \/ Ends(n, "Unavailable") /\ Becomes(conn[n].try, "Left", Content(n))
             \/ Ends(n, "Invalid") /\ Keeps
       \/ /\ target.state # "Absent" /\ Keeps
          /\ Ends(n, IF target.state # "Left" /\ target.content = Content(n) THEN "Ok" ELSE "Conflict")
    /\ SameStation

\* CollectionManager::begin(), which waits for the admission lock and holds it over the lease.
\* A trace that was begun, and that is not known, is left without a runner; the id names it.
BeginsCollection(n) ==
    /\ op = Op("Collection", "Begin")
    /\ \/ /\ Admitted(n) /\ \A m \in Tries : conn[m].at # "Working"
          /\ \/ Ends(n, "Unavailable")
             \/ target.state = "Absent" /\ Goes(n, "Working") /\ UNCHANGED tally
             \/ target.state # "Absent" /\ Ends(n, IF target.content = Content(n) THEN "Ok" ELSE "Conflict")
          /\ Keeps
       \/ /\ conn[n].at = "Working"
          /\ \/ Ends(n, "Ok") /\ Becomes(conn[n].try, "There", Content(n))
             \/ Ends(n, "Unavailable") /\ Becomes(conn[n].try, "Left", Content(n))
             \/ \E status \in {"Invalid", "Unavailable", "Unsupported"} : Ends(n, status) /\ Keeps
    /\ SameStation

\* LiveCaptureManager::begin(): the id is looked up before and after the lease.
BeginsLive(n) ==
    /\ op = Op("LiveEvents", "Begin")
    /\ \/ /\ Admitted(n)
          /\ IF target.state # "Absent" THEN Ends(n, "Conflict")
             ELSE Goes(n, "Working") /\ UNCHANGED tally
          /\ Keeps
       \/ /\ conn[n].at = "Working"
          /\ \/ target.state = "Absent" /\ Ends(n, "Ok") /\ Becomes(conn[n].try, "There", Content(n))
             \/ target.state # "Absent" /\ Ends(n, "Conflict") /\ Keeps
             \/ \E status \in {"Invalid", "Unavailable"} : Ends(n, status) /\ Keeps
    /\ SameStation

\* DurableMonitorManager::begin() mints an id each time; when it fails after it made the journal,
\* that stays.
BeginsMonitor(n) ==
    /\ op = Op("DurableMonitor", "Begin")
    /\ \/ Admitted(n) /\ Goes(n, "Working") /\ UNCHANGED tally /\ Keeps
       \/ /\ conn[n].at = "Working"
          /\ \/ Ends(n, "Ok") /\ Becomes(conn[n].try, "There", Content(n))
             \/ Ends(n, "Unavailable") /\ Becomes(conn[n].try, "There", Content(n))
             \/ \E status \in {"Invalid", "Unavailable"} : Ends(n, status) /\ Keeps
    /\ SameStation

\* begin_auth_session() reserves the profile, opens a browser, and gives the reservation back
\* when that fails.
BeginsAuth(n) ==
    /\ op.kind = "BeginAuthSession"
    /\ \/ /\ Admitted(n)
          /\ \/ target.state # "Absent" /\ Ends(n, "Unavailable") /\ Keeps
             \/ Ends(n, "Invalid") /\ Keeps
             \/ /\ target.state = "Absent" /\ Goes(n, "Working") /\ UNCHANGED <<tally, changed>>
                /\ target' = [state |-> "Reserved", content |-> Content(n)]
       \/ /\ conn[n].at = "Working"
          /\ \/ Ends(n, "Ok") /\ Becomes(conn[n].try, "There", Content(n))
             \/ /\ \E status \in {"Invalid", "Unavailable"} : Ends(n, status)
                /\ target' = [state |-> "Absent", content |-> "None"] /\ UNCHANGED changed
    /\ SameStation

\* finish_auth_session() takes the browser out and closes it; the reservation goes whatever
\* the close says.
FinishesAuth(n) ==
    /\ op.kind = "FinishAuthSession"
    /\ \/ /\ Admitted(n)
          /\ \/ target.state = "Absent" /\ Ends(n, "Invalid") /\ Keeps
             \/ target.state = "Taken" /\ Ends(n, "Unavailable") /\ Keeps
             \/ /\ target.state = "There" /\ Goes(n, "Working") /\ UNCHANGED tally
                /\ Becomes(conn[n].try, "Taken", target.content)
       \/ /\ conn[n].at = "Working"
          /\ \E status \in {"Ok", "Unavailable"} : Ends(n, status)
          /\ target' = [state |-> "Absent", content |-> "None"] /\ UNCHANGED changed
    /\ SameStation

\* Cancelling a collection or a crawl may be repeated, a crawl that is over cannot be
\* cancelled, and one whose journal failed may have been; stopping what is live removes it.
EndsTarget(n) ==
    /\ Admitted(n) /\ op.verb = "End"
    /\ \/ target.state = "Absent" /\ Ends(n, "Invalid") /\ Keeps
       \/ op.kind = "Crawl" /\ target.state = "Over" /\ Ends(n, "Invalid") /\ Keeps
       \/ op.kind = "Collection" /\ target.state = "Over" /\ Ends(n, "Ok") /\ Keeps
       \/ target.state = "Cancelled" /\ Ends(n, "Ok") /\ Keeps
       \/ /\ op.kind = "Crawl" /\ target.state = "There" /\ Ends(n, "Unavailable")
          /\ Keeps \/ Becomes(conn[n].try, "There", target.content)
       \/ /\ target.state = "There" /\ Ends(n, "Ok")
          /\ IF op.kind \in {"Collection", "Crawl"}
             THEN Becomes(conn[n].try, "Cancelled", target.content)
             ELSE Becomes(conn[n].try, "Absent", "None")
    /\ SameStation

\* Events, receipts, artifacts, frames and rows of what was begun.
ReadsTarget(n) ==
    /\ Admitted(n) /\ op.verb = "Read"
    /\ IF target.state = "Absent" THEN Ends(n, "Invalid")
       ELSE \E status \in {"Ok", "Invalid", "Unavailable"} : Ends(n, status)
    /\ Keeps /\ SameStation

\* write_worker_response() fails when the client has closed its end, and the connection ends.
Writes(n) ==
    /\ conn[n].at = "Writing"
    /\ IF conn[n].peer
       THEN /\ Goes(n, IF op.kind = "Shutdown" /\ gates THEN "Stopping" ELSE "Reading")
            /\ UNCHANGED tally
       ELSE /\ conn' = [conn EXCEPT ![n].at = "Over", ![n].ok = FALSE, ![n].reply = "None"]
            /\ tally' = Closed
    /\ UNCHANGED <<op, flaw, gates, services, contents, caller, answer, target, changed, accept, remote>>

\* remote_shutdown.send(): the channel holds one.
AsksToStop(n) ==
    /\ conn[n].at = "Stopping" /\ ~ remote
    /\ remote' = TRUE
    /\ Leaves(n, TRUE)
    /\ tally' = Closed
    /\ UNCHANGED <<op, flaw, gates, services, contents, caller, answer, target, changed, accept>>

-----------------------------------------------------------------------------
(* run_windows_server() *)

\* A collection or a crawl comes to its end by itself.
Finishes ==
    /\ op.kind \in {"Collection", "Crawl"} /\ target.state = "There"
    /\ target' = [target EXCEPT !.state = "Over"]
    /\ UNCHANGED <<op, flaw, gates, services, contents, caller, answer, conn, changed, tally, accept,
                   remote>>

Joined(n) == IF conn[n].ok THEN [tally EXCEPT !.completed = @ + 1] ELSE [tally EXCEPT !.aborted = @ + 1]

\* While it accepts, the server joins only when it has no room.
Joins(n) ==
    /\ conn[n].at = "Over"
    /\ accept = "Draining" \/ (accept = "Accepting" /\ Cardinality(Unjoined) >= Limit)
    /\ conn' = [conn EXCEPT ![n].at = "Joined"]
    /\ tally' = Joined(n)
    /\ UNCHANGED <<op, flaw, gates, services, contents, caller, answer, target, changed, accept, remote>>

StopsAccepting ==
    /\ accept = "Accepting"
    /\ accept' = "Draining"
    /\ remote' = FALSE
    /\ UNCHANGED <<op, flaw, gates, services, contents, caller, answer, conn, target, changed, tally>>

Drained ==
    /\ accept = "Draining" /\ Unjoined = {}
    /\ accept' = "Ended"
    /\ UNCHANGED <<op, flaw, gates, services, contents, caller, answer, conn, target, changed, tally,
                   remote>>

\* drain_timeout: whoever is not joined counts as aborted; dropping a handler drops its
\* observation and its ActiveConnection.
DrainTimesOut ==
    /\ accept = "Draining" /\ Unjoined # {}
    /\ LET working == {n \in Unjoined : Counted /\ conn[n].at \in {"Handling", "Leasing", "Working",
                                                                  "Recovering"}}
           alive == {n \in Unjoined : conn[n].at \in Live}
       IN tally' = [tally EXCEPT !.aborted = @ + Cardinality(Unjoined),
                                 !.active = @ - Cardinality(alive),
                                 !.failed = @ + Cardinality(working),
                                 !.in_flight = @ - Cardinality(working)]
    /\ conn' = [n \in Tries |-> IF n \in Unjoined
                                THEN [conn[n] EXCEPT !.at = "Joined", !.written = FALSE,
                                          !.reply = IF conn[n].at = "Writing" THEN "None" ELSE @]
                                ELSE conn[n]]
    /\ accept' = "Ended"
    /\ UNCHANGED <<op, flaw, gates, services, contents, caller, answer, target, changed, remote>>

RequestNext ==
    \/ \E content \in {"this", "other"} : Asks(content)
    \/ Connects \/ CannotConnect \/ Sends \/ CannotSend \/ Receives \/ GivesUp
    \/ \E n \in Tries :
          \/ Takes(n) \/ StopsReading(n) \/ Missing(n) \/ Ungated(n) \/ Answers(n)
          \/ ReportsIdentity(n) \/ UpdatesIdentity(n) \/ ChecksSession(n) \/ ImportsSession(n)
          \/ Captures(n) \/ Leases(n) \/ Works(n) \/ BeginsCrawl(n) \/ BeginsCollection(n)
          \/ BeginsLive(n) \/ BeginsMonitor(n) \/ BeginsAuth(n) \/ FinishesAuth(n) \/ EndsTarget(n)
          \/ ReadsTarget(n) \/ Writes(n) \/ AsksToStop(n) \/ Joins(n)
    \/ Finishes \/ StopsAccepting \/ Drained \/ DrainTimesOut

RequestSpec == RequestInit /\ [][RequestNext]_requestVars

-----------------------------------------------------------------------------
(* Properties *)

\* A request that was refused changed nothing, whichever of the two ends refused it
\* (WorkerRequest::validate(), the handlers of ipc.rs).
RefusalsChangeNothing ==
    \A n \in changed :
       answer[n] \notin {"Invalid", "Conflict", "Unsupported", "Refused", "NoStation"}

\* A collection or a crawl that is begun again under its id, because the first answer was lost
\* or late, is answered as the first was, and refused only when something else is asked, or when
\* its journal was left without a job (the digest of collection_request(), encode_binding()).
RetriesAgree ==
    \A n \in Tries :
       op.verb = "Begin" /\ op.kind \in {"Collection", "Crawl"} =>
          /\ answer[n] = "Conflict" =>
                contents[n] # target.content \/ (op.kind = "Crawl" /\ target.state = "Left")
          /\ answer[n] = "Ok" => contents[n] = target.content
          /\ Cardinality(changed) <= 1

\* An id of a live session is begun once, by whoever asks (LiveCaptureManager::begin()).
SessionsBeginOnce ==
    op \in {Op("LiveEvents", "Begin"), Op("BeginAuthSession", "Only")} => Cardinality(changed) <= 1

\* What the server counts is what happened: every capture ends once, however its connection
\* ends, and nothing is at work when the server has ended (ServerTelemetry,
\* CaptureObservation, ActiveConnection).
BooksBalance ==
    /\ tally.started = tally.in_flight + tally.succeeded + tally.failed
    /\ tally.in_flight =
          IF Counted THEN Cardinality({n \in Tries : conn[n].at \in {"Handling", "Leasing", "Working",
                                                                    "Recovering"}}) ELSE 0
    /\ tally.active = Cardinality({n \in Tries : conn[n].at \in Live})
    /\ tally.accepted = Cardinality(Unjoined) + tally.completed + tally.aborted
    /\ accept = "Ended" => tally.active = 0 /\ tally.in_flight = 0

\* Whoever begins a monitor learns its name, or the monitor is not there.
NoMonitorIsOrphaned ==
    op = Op("DurableMonitor", "Begin") => \A n \in changed : answer[n] \in {"None", "Ok"}

\* A begin that is repeated as it was is not refused for what it began itself.
NotRefusedForItself == \A n \in Tries : answer[n] = "Conflict" => contents[n] # target.content
LiveRetriesAgree == op = Op("LiveEvents", "Begin") => NotRefusedForItself
CrawlRetriesAgree == op = Op("Crawl", "Begin") => NotRefusedForItself
=============================================================================
