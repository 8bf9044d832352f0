----------------------------- MODULE MCSharing -----------------------------
(***************************************************************************)
(* Work that several callers share: the pages of a crawl job, the          *)
(* connection of a CDP and of a BiDi client, the pipe of a station client, *)
(* what one collection task passes through from the client to a worker,    *)
(* the requests of a guarded browser, those of a station, the events of a  *)
(* page that a session and monitors read, and the page a node streams.     *)
(* They share nothing, so a behaviour is one of any of them: "part" is     *)
(* chosen at first and only that part moves.                               *)
(***************************************************************************)
EXTENDS CrawlEngine, TaskContract, Integers, TLC

CONSTANTS
    a, b, c, x, w1, w2, c1, c2, c3, o1, o2,
    Callers, Nobody,
    Capacity, Room,
    Sharers, PlainDrops, MaxPipes, MaxRequests,
    Backlog, MaxGuarded,
    MaxTries, Limit,
    m1, m2, Replaces, ChannelRoom, CacheRoom, RingRoom, MostEvents,
    ExpectClicks, SocketRoom, MaxFrames

VARIABLES
    part,
    call, queue, pending, answered, terminal, writer, cdpReader, sent, lost,
    calls, commands, entries, settled, accepting_commands, ended, sender, receiver, closer, asked,
    lock, stream, pipe, nextRequest, nextPipe, sharer, abandoned,
    kind, life, request, armed, supervising, connected, tree, leaked, events, handler, guarded,
    shutdown, healthy, closing, owner, tab, page,
    op, flaw, gates, services, contents, caller, answer, conn, target, changed, tally, accept, remote,
    script, emitted, wanted, place, urls, ring, made, dropped, recorder, records, blobs, heard,
    copied,
    mode, step, browser, form, files, link, inbox, outbox, input, told, seen, decoded, taken,
    reader, writing, frames, streamed, done, lines, clicks, late, tail, pushes, proof, result

D == INSTANCE CdpTransport WITH Calls <- Callers
B == INSTANCE BidiTransport WITH BidiCalls <- Callers
C == INSTANCE StationClient
R == INSTANCE StationRequests

\* Every kind of step, the waits on either side of a millisecond and of the bound, a step that
\* leaves its element or key empty; each alone and after a navigation.
Step(name) == [kind |-> name, units |-> 0, policy |-> "None", empty |-> FALSE]
Steps ==
    {Step(name) : name \in {"Navigate", "Wheel", "KeyPress", "ClickSelector", "TypeSelector",
                            "SelectOption", "UploadFile", "ReadSelectorText", "Evaluate",
                            "ReadInteractiveElements", "ListTabs", "SwitchToTab"}}
    \cup {[Step(name) EXCEPT !.units = n] :
             name \in {"Wait", "WaitForSelector", "WaitForLoadState", "WaitForDownload"},
             n \in {0, 1, 2, MaxWait, MaxWait + 1}}
    \cup {[Step("Capture") EXCEPT !.policy = p] : p \in {"StateOnly", "HtmlOnly", "Evidence"}}
    \cup {[Step(name) EXCEPT !.empty = TRUE] : name \in {"ClickSelector", "KeyPress", "SwitchToTab"}}
StepLists ==
    {<<s>> : s \in Steps} \cup {<<Step("Navigate"), s>> : s \in Steps}
    \cup {<<[Step("Wait") EXCEPT !.units = 2], Step("ListTabs"),
            [Step("WaitForSelector") EXCEPT !.units = n]>> : n \in {1, 2, 3}}

NoContract == [selector |-> "Auto", requires |-> [features |-> {}, partial |-> FALSE]]
Asking(steps, contract) == [steps |-> steps] @@ contract
MCTasks ==
    {Asking(steps, NoContract) : steps \in StepLists}
    \cup {Asking(<<Step("Navigate"), Step(name)>>, contract) :
             name \in {"Wheel", "Evaluate", "ReadSelectorText"},
             contract \in
                {[NoContract EXCEPT !.requires = [features |-> {"ScrollInput"}, partial |-> TRUE]],
                 [NoContract EXCEPT !.requires = [features |-> {"ScrollInput"}, partial |-> FALSE]],
                 [NoContract EXCEPT !.selector = "Firefox"],
                 [NoContract EXCEPT !.selector = "Lightweight"]}}

Persona(preset) == [preset |-> preset, mobile |-> FALSE, authenticated |-> FALSE]
MCPersonas ==
    {Persona(preset) : preset \in {"None", "Cohort", "Firefox"}}
    \cup {[Persona("None") EXCEPT !.mobile = TRUE], [Persona("None") EXCEPT !.authenticated = TRUE],
          [Persona("Pixel") EXCEPT !.mobile = TRUE]}

\* Reading only, or everything; any runtime, one by configuration, or contained ones only.
Reading == {"Lifecycle", "Navigate", "Capture", "Inspect"}
AllCapabilities == Reading \cup {"Pointer", "Keyboard", "Scroll", "Interact", "Evaluate"}
Gates == {"Interaction", "Script", "Upload", "Download"}
MCStations ==
    [gates : {{}, Gates}, capabilities : {Reading, AllCapabilities}, selector : {"Auto"},
     exact : BOOLEAN]
    \cup {[gates |-> Gates, capabilities |-> AllCapabilities, selector |-> name, exact |-> FALSE] :
             name \in {"Chrome", "Firefox", "Lightweight"}}

cdp == <<call, queue, pending, answered, terminal, writer, cdpReader, sent, lost>>
bidi == <<calls, commands, entries, settled, accepting_commands, ended, sender, receiver,
          closer, asked>>
client == <<lock, stream, pipe, nextRequest, nextPipe, sharer, abandoned>>
\* The page the browser starts with, a window it opens, a frame or worker of that window; or the
\* window is the tab the page is in.
MCTargets == {"main", "popup", "frame"}
MCOpener == [t \in MCTargets |-> IF t = "frame" THEN "popup" ELSE "main"]
MCKinds ==
    {[t \in MCTargets |-> IF t = "frame" THEN inner ELSE "page"] : inner \in {"iframe", "worker"}}
    \cup {[t \in MCTargets |-> IF t = "popup" THEN "tab" ELSE "page"]}

G == INSTANCE PageGuard
        WITH Targets <- MCTargets, Main <- "main", Kinds <- MCKinds, Opener <- MCOpener

\* What a page may send: any one event there are bounds for, and a few after one another.
NoUrl == [page |-> "None", form |-> "None"]
Url(name) == [page |-> name, form |-> "Plain"]
Event(method) ==
    [method |-> method, request |-> "None", url |-> NoUrl, status |-> -1, opcode |-> "None",
     payload |-> "Plain", name |-> "None"]
Request(name, url) ==
    [Event("requestWillBeSent") EXCEPT !.request = name, !.url = Url(url)]
Opened(name, url) == [Request(name, url) EXCEPT !.method = "webSocketCreated"]
Response(status) == [Event("responseReceived") EXCEPT !.request = "q1", !.status = status]
Got(name, opcode, payload) ==
    [Event("webSocketFrameReceived") EXCEPT !.request = name, !.opcode = opcode, !.payload = payload]
Sent(opcode, payload) == [Got("q1", opcode, payload) EXCEPT !.method = "webSocketFrameSent"]
Message(name, as, payload) ==
    [Event("eventSourceMessageReceived") EXCEPT !.request = name, !.name = as, !.payload = payload]
Logged(level, text) == [Event("Console") EXCEPT !.name = level, !.payload = text]

MCEvents ==
    {Got("q1", opcode, payload) :
        opcode \in {"Text", "Binary", "Odd"},
        payload \in {"Empty", "Plain", "Base64", "Full", "Large", "Huge", "Missing"}}
    \cup {Sent(opcode, "Base64") : opcode \in {"Ping", "Pong", "Close", "Continuation"}}
    \cup {Message("q1", as, payload) :
             as \in {"Empty", "Plain", "Long", "Nul", "OnlyNul"}, payload \in {"Plain", "Huge", "Missing"}}
    \cup {Logged(level, text) :
             level \in {"Plain", "Empty", "OnlyNul", "Long"}, text \in {"Plain", "Long", "Nul"}}
    \cup {Response(status) : status \in {200, 0, 999}}
    \cup {[Request("q1", "u1") EXCEPT !.url.form = as] : as \in {"Long", "Nul"}}
MCScripts ==
    {<<e>> : e \in MCEvents} \cup
    {<<Request("q1", "u1"), Opened("q2", "u2"), Got("q2", "Text", "Plain")>>,
     <<Request("q1", "u1"), Request("q1", "u2"), Message("q1", "Plain", "Plain")>>,
     <<Request("q1", "u1"), Opened("q2", "u2"), Message("q1", "Empty", "Plain")>>,
     <<Logged("Plain", "Plain"), Response(999), Message("q1", "Empty", "Plain")>>,
     <<Got("q1", "Text", "Plain"), Sent("Text", "Huge")>>}
MCFilters ==
    {[network |-> n, websocket_only |-> w, console |-> ~ w \/ ~ n] :
        <<n, w>> \in {<<TRUE, FALSE>>, <<TRUE, TRUE>>, <<FALSE, TRUE>>}}

V == INSTANCE EventReading
        WITH Scripts <- MCScripts, Filters <- MCFilters, Watchers <- {m1, m2}, lost <- dropped,
             Audiences <- {{"Live", m1}, {m1, m2}}

\* What a peer may send to a node: what has no mapping, what does not survive the wire, clicks.
Input(name, action, value) ==
    [kind |-> name, action |-> action, button |-> "None", value |-> value]
Mouse(action, button) ==
    [kind |-> "Mouse", action |-> action, button |-> button, value |-> "Plain"]
MCInputs ==
    {<<Mouse("Click", "Right"), Input("Key", "Down", "Plain")>>,
     <<Input("Scroll", "None", "Fine"), Mouse("Click", "Middle")>>,
     <<Input("Text", "None", "TooLong"), Mouse("Click", "Left")>>,
     <<Mouse("Click", "Left"), Mouse("Click", "Left")>>}

W == INSTANCE BrowserStream WITH Scripts <- MCInputs, script <- input, sent <- streamed

guard == <<kind, life, request, armed, supervising, connected, tree, leaked, events, handler,
           guarded, shutdown, healthy, closing, owner, tab, page>>
requests == <<op, flaw, gates, services, contents, caller, answer, conn, target, changed, tally,
              accept, remote>>
reading == <<script, emitted, wanted, place, urls, ring, made, dropped, recorder, records, blobs,
             heard, copied>>
node == <<mode, step, browser, form, files, link, inbox, outbox, input, told, seen, decoded, taken,
          reader, writing, frames, streamed, done, lines, clicks, late, tail, pushes, proof, result>>
sharingVars == <<part, vars, cdp, bidi, client, contractVars, guard, requests, reading, node>>

\* The other parts.
Rest(name) ==
    /\ name # "Crawl" => UNCHANGED vars
    /\ name # "Cdp" => UNCHANGED cdp
    /\ name # "Bidi" => UNCHANGED bidi
    /\ name # "Client" => UNCHANGED client
    /\ name # "Contract" => UNCHANGED contractVars
    /\ name # "Guard" => UNCHANGED guard
    /\ name # "Requests" => UNCHANGED requests
    /\ name # "Events" => UNCHANGED reading
    /\ name # "Stream" => UNCHANGED node

SharingInit ==
    /\ part \in {"Crawl", "Cdp", "Bidi", "Client", "Contract", "Guard", "Requests", "Events",
                "Stream"}
    /\ Init /\ D!CdpInit /\ B!BidiInit /\ C!ClientInit
    /\ IF part = "Contract" THEN TRUE
       ELSE /\ task = CHOOSE t \in MCTasks : TRUE
            /\ persona = Persona("None")
            /\ station = CHOOSE s \in MCStations : TRUE
    /\ ContractInit
    /\ IF part = "Guard" THEN TRUE ELSE kind = CHOOSE k \in MCKinds : TRUE
    /\ G!GuardInit
    /\ IF part = "Requests" THEN TRUE ELSE op = R!Op("Health", "Only") /\ flaw = "None"
    /\ R!RequestInit
    \* What the client of a session asked for matters where there is a session.
    /\ IF part = "Events"
       THEN V!ReadingInit /\ (records[m2] # <<>> => wanted.network /\ ~ wanted.websocket_only)
       ELSE script = <<>> /\ wanted = (CHOOSE f \in MCFilters : TRUE) /\ V!Begin({})
    /\ IF part = "Stream" THEN W!StreamInit ELSE W!Begin("First", <<>>, "None")

SharingNext ==
    /\ UNCHANGED part
    /\ \/ part = "Crawl" /\ Next /\ Rest("Crawl")
       \/ part = "Cdp" /\ D!CdpNext /\ Rest("Cdp")
       \/ part = "Bidi" /\ B!BidiNext /\ Rest("Bidi")
       \/ part = "Client" /\ C!ClientNext /\ Rest("Client")
       \/ part = "Contract" /\ ContractNext /\ Rest("Contract")
       \/ part = "Guard" /\ G!GuardNext /\ Rest("Guard")
       \/ part = "Requests" /\ R!RequestNext /\ Rest("Requests")
       \/ part = "Events" /\ V!ReadingNext /\ Rest("Events")
       \/ part = "Stream" /\ W!StreamNext /\ Rest("Stream")

SharingSpec == SharingInit /\ [][SharingNext]_sharingVars

\* The client alone.
ClientSpec == SharingSpec /\ part = "Client"

\* A guarded browser alone.
GuardSpec == SharingSpec /\ part = "Guard"

\* The requests of a station alone.
RequestSpec == SharingSpec /\ part = "Requests"

\* The events of a page alone.
EventSpec == SharingSpec /\ part = "Events"

\* A node and its peer alone.
StreamSpec == SharingSpec /\ part = "Stream"

MCLinks == {{}, {b, c, x}, {a}}

-----------------------------------------------------------------------------
(* Properties *)

\* Each part's variables keep their types.
TypesOK ==
    CASE part = "Crawl" -> TypeOK [] part = "Cdp" -> D!CdpTypeOK [] part = "Bidi" -> B!BidiTypeOK
      [] part = "Client" -> C!ClientTypeOK [] part = "Contract" -> ContractTypeOK
      [] part = "Guard" -> G!GuardTypeOK [] part = "Requests" -> R!RequestTypeOK
      [] part = "Events" -> V!ReadingTypeOK [] part = "Stream" -> W!StreamTypeOK

\* CdpTransport and BidiTransport: no reply misses its call, and nobody waits for an answer
\* that cannot come any more, however the connection ends (send(), call(), mark_terminal(),
\* close_transport()).  StationClient: a call that failed or timed out leaves nothing on the pipe
\* for the next, which meets the answer of another only after one was dropped (call()).
\* PageGuard: whatever the targets of a guarded browser do, nothing the policy does not allow
\* is sent, nobody is left paused by a task that has nothing to do, and who loses the
\* connection ends the browser (install_page_request_policy()).
\* StationRequests: what was refused changed nothing, and what is asked again is done once
\* (begin(), validate()).  EventReading: what a client of a session or a monitor reads is what
\* the page sent, in its order (translate_event(), record_frame()).  BrowserStream: a node does
\* to its page what its peer sent, in its order, and what it proves is what it did (run_node(),
\* run_login_node()).
ConnectionsHold ==
    CASE part = "Cdp" -> D!NoCallIsForgotten
      [] part = "Bidi" -> B!NoCallWaitsForNobody
      [] part = "Client" -> C!PipeIsInStep /\ C!OnlyDropsDesync
      [] part = "Guard" -> G!NothingForbiddenIsSent /\ G!NobodyIsLeftWaiting /\ G!LossIsAnswered
      [] part = "Requests" -> /\ R!RefusalsChangeNothing /\ R!RetriesAgree
                              /\ R!SessionsBeginOnce /\ R!BooksBalance
      [] part = "Events" -> V!LiveIsTrue /\ V!UrlsAreOwn /\ V!FramesAgree /\ V!RecordsAreTrue
      [] part = "Stream" -> /\ W!PageIsAsTold /\ W!EvidenceIsTrue
                            /\ W!FramesArePaired /\ W!NothingIsLeftRunning
      [] OTHER -> TRUE

\* PageGuard: a page that says its policy is healthy has a task that processes events, and who
\* loses the connection ends the browser whatever page the runtime has.
HealthyIsHandled == G!HealthyIsHandled
SomebodyAnswersLoss == G!SomebodyAnswersLoss

\* StationRequests: whoever begins a monitor learns its name; a live session that is begun again
\* as it was is not refused, nor is a crawl.
NoMonitorIsOrphaned == R!NoMonitorIsOrphaned
CrawlRetriesAgree == R!CrawlRetriesAgree
LiveRetriesAgree == R!LiveRetriesAgree

\* StationClient: no call meets the late answer of a call with progress that was aborted
\* (capture_with_progress()).
NeverDesynced == C!NeverDesynced

\* EventReading: an event the session's client asked for is in its ring or counted as dropped
\* (translate_event()).
NothingIsSwallowed == part = "Events" => V!NothingIsSwallowed

\* EventReading: a client that sees a gap between two cursors was told of drops
\* (LiveEventPage::validate_after()).
GapsAreDrops == part = "Events" => V!GapsAreDrops

\* EventReading: an event of a request names the address it has now (RequestUrlCache).
UrlIsCurrent == part = "Events" => V!UrlIsCurrent

\* EventReading: every frame of the page that a monitor heard is in its journal
\* (commit_orphan_artifact()).
FramesAreRecorded == part = "Events" => V!FramesAreRecorded

\* EventReading: a client that read past the end of a monitor was told of the end (read_events()).
EndIsTold == part = "Events" => V!EndIsTold

\* BrowserStream: a node waits for the peer of this run, shows it what the input did, ends in its
\* time and leaves no task behind.
ReadyIsFresh == part = "Stream" => W!ReadyIsFresh
EffectIsShown == part = "Stream" => W!EffectIsShown
DeadlineHolds == part = "Stream" => W!DeadlineHolds
TasksEndWithNode == part = "Stream" => W!TasksEndWithNode
=============================================================================
