----------------------------- MODULE PageGuard -----------------------------
(***************************************************************************)
(* The exact page request policy of a Chromium browser                     *)
(* (src/browser/backend/cdp.rs: install_page_request_policy(), its handler *)
(* task, clear_page_request_policy(), attach_to_existing_page(), close())  *)
(* and the runtime that owns the page (src/agentic/runtime.rs).            *)
(*                                                                         *)
(* Every target of the browser is to be attached before it runs, its       *)
(* requests are to be paused, and one task decides about all of them; when *)
(* the task cannot go on it ends the browser.  Targets open, ask, cancel   *)
(* and close at any moment, the task may fall behind the broadcast channel *)
(* of events, the connection may be lost, and the runtime may switch to    *)
(* another page or let the page go.                                        *)
(*                                                                         *)
(* A target has one session by automatic attachment; the page opened first *)
(* also has "Own", and the page switched to "Other".  A URL is one the     *)
(* policy allows ("In") or not ("Out").                                    *)
(***************************************************************************)
EXTENDS Naturals, FiniteSets, SequencesExt

CONSTANTS
    Targets,       \* of the browser
    Main,          \* the page the policy is installed on
    Kinds,         \* what the targets may be: [Targets -> {"page", "tab", "iframe", "worker"}]
    Opener,        \* [Targets -> Targets]: which target opens it
    Backlog,       \* events the channel keeps for the task
    MaxGuarded     \* sessions the task looks after

VARIABLES
    kind,          \* of each target
    life,          \* of each target
    request,       \* of each target: what it asks for and the sessions that hold it
    armed,         \* sessions with Fetch on
    supervising,   \* sessions, or "Root", with automatic attachment on
    connected, tree,
    leaked,        \* history: a request that is not allowed was sent
    events,        \* that the task has not received
    handler,       \* the task
    guarded,       \* the sessions it knows
    shutdown,      \* it was told to end
    healthy,       \* what the page of the runtime says of its policy
    closing,       \* browser_closing
    owner,         \* what the runtime does
    tab,           \* the target of "Other", or "None"
    page           \* the page of the runtime: that of the policy, or the one it switched to

browserVars == <<kind, life, request, armed, supervising, connected, tree, leaked>>
taskVars == <<events, handler, guarded, shutdown>>
ownerVars == <<healthy, closing, owner, tab, page>>
guardVars == <<browserVars, taskVars, ownerVars>>

RequestUrls == {"In", "Out"}
Sessions == Targets \cup {"Own", "Other"}
TargetOf(s) == CASE s = "Own" -> Main [] s = "Other" -> tab [] OTHER -> s
NoRequest == [url |-> "None", at |-> {}]

Attached(s, parent, waiting) ==
    [kind |-> "Attached", session |-> s, parent |-> parent, waiting |-> waiting]
Detached(s) == [kind |-> "Detached", session |-> s]
Paused(s) == [kind |-> "Paused", session |-> s]
Lagged == [kind |-> "Lagged"]
GuardEvents ==
    [kind : {"Attached"}, session : Sessions, parent : Sessions \cup {"Root"}, waiting : BOOLEAN]
    \cup [kind : {"Detached", "Paused"}, session : Sessions] \cup {Lagged}
Task(pc) == [at |-> pc]
Doing(pc, s, todo) == [at |-> pc, session |-> s, todo |-> todo]

Installing == {"Fetch", "OwnTree", "RootTree", "Check"}

GuardTypeOK ==
    /\ kind \in Kinds
    /\ life \in [Targets -> {"None", "Waiting", "Running", "Closed"}]
    /\ request \in [Targets -> [url : RequestUrls \cup {"None"}, at : SUBSET Sessions]]
    /\ armed \subseteq Sessions /\ supervising \subseteq Sessions \cup {"Root"}
    /\ connected \in BOOLEAN /\ tree \in {"Up", "Gone"} /\ leaked \in BOOLEAN
    /\ events \in Seq(GuardEvents) /\ Len(events) <= Backlog
    /\ handler \in [at : {"None", "Receiving", "Losing", "Terminating", "Ended", "Aborted"}]
                  \cup [at : {"Arming", "Answering"}, session : Sessions,
                        todo : Seq({"Fetch", "Supervise", "Resume"})]
    /\ guarded \subseteq Sessions /\ shutdown \in BOOLEAN
    /\ healthy \in BOOLEAN /\ closing \in BOOLEAN /\ tab \in Targets \cup {"None"}
    /\ page \in {"Policy", "Switched"}
    /\ owner \in {"Blank", "Using", "Switching", "Clearing", "Degraded", "Closing", "Over"} \cup Installing

\* open_page(None), before the policy is installed.
GuardInit ==
    /\ kind \in Kinds
    /\ life = [t \in Targets |-> IF t = Main THEN "Running" ELSE "None"]
    /\ request = [t \in Targets |-> NoRequest]
    /\ armed = {} /\ supervising = {} /\ connected = TRUE /\ tree = "Up" /\ leaked = FALSE
    /\ events = <<>> /\ handler = Task("None") /\ guarded = {} /\ shutdown = FALSE
    /\ healthy = TRUE /\ closing = FALSE /\ owner = "Blank" /\ tab = "None"
    /\ page = "Policy"

-----------------------------------------------------------------------------
(* The browser *)

\* Who has subscribed receives what comes, as far as the channel reaches back.
Subscribed == owner \in Installing \/ handler.at \notin {"None", "Ended", "Aborted"}
Told(new) ==
    events' = IF ~ Subscribed \/ new = <<>> THEN events
              ELSE IF Len(events) + Len(new) > Backlog THEN <<Lagged>> ELSE events \o new

\* A worker has no Fetch domain: its requests are paused in the session of who opened it.
Asker(t) == IF kind[t] = "worker" THEN Opener[t] ELSE t
Holders(t) == {s \in armed : TargetOf(s) = Asker(t)}

Asks(t, url) ==
    /\ tree = "Up" /\ life[t] = "Running" /\ kind[t] # "tab" /\ request[t] = NoRequest
    /\ t = Main => owner \notin {"Blank"} \cup Installing
    /\ request' = [request EXCEPT ![t] = IF Holders(t) = {} THEN @ ELSE [url |-> url, at |-> Holders(t)]]
    /\ leaked' = (leaked \/ (Holders(t) = {} /\ url = "Out" /\ connected))
    /\ Told(SetToSeq({Paused(s) : s \in Holders(t)}))
    /\ UNCHANGED <<kind, life, armed, supervising, connected, tree, handler, guarded, shutdown, ownerVars>>

\* The page goes on without the answer.
Cancels(t) ==
    /\ tree = "Up" /\ request[t] # NoRequest
    /\ request' = [request EXCEPT ![t] = NoRequest]
    /\ UNCHANGED <<kind, life, armed, supervising, connected, tree, leaked, taskVars, ownerVars>>

\* A target waits if a session of its opener, or the root, is told of it; the page of a tab is
\* the tab's affair.
Supervisors(t) ==
    {s \in supervising :
        IF kind[t] \in {"page", "tab"} /\ kind[Opener[t]] # "tab" THEN s = "Root"
        ELSE s # "Root" /\ TargetOf(s) = Opener[t]}

Opens(t) ==
    /\ tree = "Up" /\ life[t] = "None" /\ life[Opener[t]] = "Running"
    /\ owner \notin {"Blank"} \cup Installing
    /\ IF Supervisors(t) = {}
       THEN life' = [life EXCEPT ![t] = "Running"] /\ UNCHANGED events
       ELSE /\ life' = [life EXCEPT ![t] = "Waiting"]
            /\ \E s \in Supervisors(t) : Told(<<Attached(t, s, TRUE)>>)
    /\ UNCHANGED <<kind, request, armed, supervising, connected, tree, leaked, handler, guarded,
                   shutdown, ownerVars>>

\* What it opened inside itself goes first.
Closes(t) ==
    /\ tree = "Up" /\ life[t] \in {"Waiting", "Running"}
    /\ \A u \in Targets \ {t} :
          Opener[u] = t /\ (kind[u] \in {"iframe", "worker"} \/ kind[t] = "tab") => life[u] \in {"None", "Closed"}
    /\ life' = [life EXCEPT ![t] = "Closed"]
    /\ request' = [request EXCEPT ![t] = NoRequest]
    /\ LET gone == {s \in Sessions : TargetOf(s) = t} IN
       /\ armed' = armed \ gone /\ supervising' = supervising \ gone
       /\ IF connected THEN Told(SetToSeq({Detached(s) : s \in gone})) ELSE UNCHANGED events
    /\ UNCHANGED <<kind, connected, tree, leaked, handler, guarded, shutdown, ownerVars>>

\* The browser lets go of what its client held.
ConnectionLost ==
    /\ tree = "Up" /\ connected /\ connected' = FALSE
    /\ armed' = {} /\ supervising' = {}
    /\ request' = [t \in Targets |-> NoRequest]
    /\ life' = [t \in Targets |-> IF life[t] = "Waiting" THEN "Running" ELSE life[t]]
    /\ UNCHANGED <<kind, tree, leaked, taskVars, ownerVars>>

\* The broadcast channel carries every other event as well.
Crowds ==
    /\ Subscribed /\ connected /\ events # <<Lagged>> /\ events' = <<Lagged>>
    /\ UNCHANGED <<browserVars, handler, guarded, shutdown, ownerVars>>

BrowserStep ==
    \/ \E t \in Targets : Opens(t) \/ Closes(t) \/ Cancels(t) \/ \E url \in RequestUrls : Asks(t, url)
    \/ ConnectionLost \/ Crowds

\* What a command on a session can do: it needs the connection and the target.
Answers(s) == tree = "Up" /\ connected /\ life[TargetOf(s)] \in {"Waiting", "Running"}

-----------------------------------------------------------------------------
(* install_page_request_policy *)

\* The events are subscribed to before the first command.
Begins ==
    /\ owner = "Blank" /\ owner' = "Fetch" /\ healthy' = FALSE
    /\ UNCHANGED <<browserVars, taskVars, closing, tab, page>>

Following(pc) == CASE pc = "Fetch" -> "OwnTree" [] pc = "OwnTree" -> "RootTree" [] OTHER -> "Check"

\* enable_fetch_request_policy(), enable_target_tree_auto_attach(): the root is told of the
\* page that is there already.
Installs ==
    /\ owner \in Installing \ {"Check"} /\ Answers("Own")
    /\ owner' = Following(owner)
    /\ armed' = IF owner = "Fetch" THEN armed \cup {"Own"} ELSE armed
    /\ supervising' = CASE owner = "OwnTree" -> supervising \cup {"Own"}
                        [] owner = "RootTree" -> supervising \cup {"Root"}
                        [] OTHER -> supervising
    /\ IF owner = "RootTree" THEN Told(<<Attached(Main, "Root", FALSE)>>) ELSE UNCHANGED events
    /\ UNCHANGED <<kind, life, request, connected, tree, leaked, handler, guarded, shutdown, healthy,
                   closing, tab, page>>

Spawns ==
    /\ owner = "Check" /\ connected
    /\ owner' = "Using" /\ healthy' = TRUE
    /\ handler' = Task("Receiving") /\ guarded' = {"Own"}
    /\ UNCHANGED <<browserVars, events, shutdown, closing, tab, page>>

\* start_inner() closes the browser.
InstallFails ==
    /\ owner \in Installing /\ ~ connected
    /\ owner' = "Closing" /\ closing' = TRUE
    /\ UNCHANGED <<browserVars, taskVars, healthy, tab, page>>

-----------------------------------------------------------------------------
(* The handler task *)

\* The select is biased: the end of the connection, the order to end, an event.
Receiving == handler = Task("Receiving") /\ connected /\ ~ shutdown
Turns(state) == handler' = state

NoticesLoss ==
    /\ handler = Task("Receiving") /\ ~ connected
    /\ Turns(Task("Losing"))
    /\ UNCHANGED <<browserVars, events, guarded, shutdown, ownerVars>>

Obeys ==
    /\ handler = Task("Receiving") /\ connected /\ shutdown
    /\ Turns(Task("Ended"))
    /\ UNCHANGED <<browserVars, events, guarded, shutdown, ownerVars>>

\* arm_guarded_target().
Todo(event) ==
    (CASE kind[TargetOf(event.session)] = "tab" -> <<"Supervise">>
       [] kind[TargetOf(event.session)] = "worker" -> <<>>
       [] OTHER -> <<"Fetch", "Supervise">>)
    \o (IF event.waiting THEN <<"Resume">> ELSE <<>>)

Knows(parent) == parent = "Root" \/ parent \in guarded

Takes(event) ==
    CASE event.kind = "Lagged" -> Turns(Task("Losing")) /\ UNCHANGED guarded
      [] event.kind = "Detached" -> guarded' = guarded \ {event.session} /\ UNCHANGED handler
      [] event.kind = "Paused" ->
            /\ IF event.session \in guarded THEN Turns(Doing("Answering", event.session, <<>>))
               ELSE UNCHANGED handler
            /\ UNCHANGED guarded
      [] OTHER ->
            IF ~ Knows(event.parent) \/ event.session \in guarded THEN UNCHANGED <<handler, guarded>>
            ELSE IF Cardinality(guarded) >= MaxGuarded
            THEN Turns(Task("Losing")) /\ UNCHANGED guarded
            ELSE /\ guarded' = guarded \cup {event.session}
                 /\ Turns(Doing("Arming", event.session, Todo(event)))

Receives ==
    /\ Receiving /\ events # <<>>
    /\ events' = Tail(events) /\ Takes(Head(events))
    /\ UNCHANGED <<browserVars, shutdown, ownerVars>>

Arms ==
    /\ handler.at = "Arming"
    /\ LET s == handler.session
           step == Head(handler.todo) IN
       CASE handler.todo = <<>> ->
               Turns(Task("Receiving")) /\ UNCHANGED <<armed, supervising, life>>
         [] handler.todo # <<>> /\ ~ Answers(s) ->
               Turns(Task("Losing")) /\ UNCHANGED <<armed, supervising, life>>
         [] OTHER ->
               /\ Turns([handler EXCEPT !.todo = Tail(@)])
               /\ armed' = IF step = "Fetch" THEN armed \cup {s} ELSE armed
               /\ supervising' = IF step = "Supervise" THEN supervising \cup {s} ELSE supervising
               /\ life' = IF step = "Resume" THEN [life EXCEPT ![TargetOf(s)] = "Running"] ELSE life
    /\ UNCHANGED <<kind, request, connected, tree, leaked, events, guarded, shutdown, ownerVars>>

\* continue_request() or fail_request(); a request that is not there any more is an error.
\* The request is sent when nobody holds it.
Held(s) == {t \in Targets : Asker(t) = TargetOf(s) /\ s \in request[t].at}
Decides ==
    /\ handler.at = "Answering"
    /\ LET s == handler.session IN
       IF Answers(s) /\ Held(s) # {}
       THEN \E t \in Held(s) :
               LET allowed == request[t].url = "In"
                   rest == request[t].at \ {s} IN
               /\ request' = [request EXCEPT ![t] = IF allowed /\ rest # {} THEN [@ EXCEPT !.at = rest]
                                                    ELSE NoRequest]
               /\ leaked' = (leaked \/ (allowed /\ rest = {} /\ request[t].url = "Out"))
               /\ Turns(Task("Receiving"))
       ELSE Turns(Task("Losing")) /\ UNCHANGED <<request, leaked>>
    /\ UNCHANGED <<kind, life, armed, supervising, connected, tree, events, guarded, shutdown, ownerVars>>

\* A browser that is being closed is left to who closes it.
Loses ==
    /\ handler = Task("Losing")
    /\ healthy' = FALSE
    /\ Turns(Task(IF closing THEN "Ended" ELSE "Terminating"))
    /\ UNCHANGED <<browserVars, events, guarded, shutdown, closing, owner, tab, page>>

Gone == tree' = "Gone" /\ request' = [t \in Targets |-> NoRequest]
        /\ UNCHANGED <<kind, life, armed, supervising, leaked>> /\ connected' = FALSE

\* terminate_and_wait().
Terminates ==
    /\ handler = Task("Terminating")
    /\ Gone /\ Turns(Task("Ended"))
    /\ UNCHANGED <<events, guarded, shutdown, ownerVars>>

HandlerStep == NoticesLoss \/ Obeys \/ Receives \/ Arms \/ Decides \/ Loses \/ Terminates

-----------------------------------------------------------------------------
(* The runtime *)

\* attach_to_existing_page(): the root is told of the new session.
Attaches(t) ==
    /\ owner = "Using" /\ tab = "None" /\ connected /\ tree = "Up"
    /\ kind[t] = "page" /\ life[t] = "Running"
    /\ owner' = "Switching" /\ tab' = t
    /\ IF "Root" \in supervising THEN Told(<<Attached("Other", "Root", FALSE)>>) ELSE UNCHANGED events
    /\ UNCHANGED <<browserVars, handler, guarded, shutdown, healthy, closing, page>>

AttachFails ==
    /\ owner = "Switching" /\ ~ Answers("Other")
    /\ owner' = "Degraded"
    /\ UNCHANGED <<browserVars, taskVars, healthy, closing, tab, page>>

\* switch_to_tab(): the page it had is dropped and the policy with it; the new one has none.
Switches ==
    /\ owner = "Switching" /\ Answers("Other")
    /\ owner' = "Using" /\ healthy' = TRUE
    /\ shutdown' = TRUE /\ page' = "Switched"
    /\ Turns(IF handler.at = "Ended" THEN handler ELSE Task("Aborted"))
    /\ UNCHANGED <<browserVars, events, guarded, closing, tab>>

Holding == handler.at # "None" /\ page = "Policy"

\* release_current_browser(): clear_page_request_policy() first.
Releases ==
    /\ owner \in {"Using", "Degraded"}
    /\ IF Holding /\ ~ shutdown
       THEN owner' = "Clearing" /\ shutdown' = TRUE /\ UNCHANGED closing
       ELSE owner' = "Closing" /\ closing' = TRUE /\ UNCHANGED shutdown
    /\ UNCHANGED <<browserVars, events, handler, guarded, healthy, tab, page>>

\* The task is waited for, or aborted.
Clears ==
    /\ owner = "Clearing"
    /\ Turns(IF handler.at = "Ended" THEN handler ELSE Task("Aborted"))
    /\ healthy' = FALSE /\ owner' = "Closing" /\ closing' = TRUE
    /\ UNCHANGED <<browserVars, events, guarded, shutdown, tab, page>>

\* The command that released the browser ran into its time limit.
ClearDropped ==
    /\ owner = "Clearing" /\ owner' = "Degraded"
    /\ Turns(IF handler.at = "Ended" THEN handler ELSE Task("Aborted"))
    /\ UNCHANGED <<browserVars, events, guarded, shutdown, healthy, closing, tab, page>>

\* close(), or the drop of a browser whose close was given up.
Closed ==
    /\ owner = "Closing" /\ owner' = "Over"
    /\ Gone
    /\ UNCHANGED <<taskVars, healthy, closing, tab, page>>

OwnerStep ==
    \/ Begins \/ Installs \/ Spawns \/ InstallFails
    \/ \E t \in Targets : Attaches(t)
    \/ AttachFails \/ Switches \/ Releases \/ Clears \/ ClearDropped \/ Closed

GuardNext == BrowserStep \/ HandlerStep \/ OwnerStep

GuardSpec == GuardInit /\ [][GuardNext]_guardVars

-----------------------------------------------------------------------------
(* Properties *)

\* As long as the browser has its client, no target of it sends a request the policy does not
\* allow: not one that opened before the task knew it, not after the task has ended, not while
\* the page is switched or let go ("With no handler, any late request remains paused rather
\* than creating a shutdown-time egress window").
NothingForbiddenIsSent == ~ leaked

\* When the task has nothing left to do, nobody waits for it: no target that was held before it
\* started, no request that was paused.
NobodyIsLeftWaiting ==
    Receiving /\ events = <<>> =>
        \A t \in Targets : life[t] # "Waiting" /\ request[t] = NoRequest

\* A browser that lost its client is ended by the task or by who closes it ("terminates owned
\* chromium before scheduled egress"), unless the page of the policy was given up before.
LossIsAnswered ==
    ~ connected /\ tree = "Up" =>
        \/ handler.at \in {"Receiving", "Arming", "Answering", "Losing", "Terminating"}
        \/ owner \in Installing \cup {"Blank", "Clearing", "Closing"}
        \/ owner \in {"Using", "Degraded"} /\ shutdown

\* Without that exception: somebody ends it, whatever page the runtime has.
SomebodyAnswersLoss ==
    ~ connected /\ tree = "Up" /\ handler.at \in {"Ended", "Aborted"} => owner \in {"Clearing", "Closing"}

\* A page that says its policy is healthy has a task that is still processing events
\* ("Whether the page-session policy handler is still processing events").
HealthyIsHandled ==
    owner = "Using" /\ healthy => handler.at \notin {"None", "Ended", "Aborted"}
=============================================================================
