---------------------------- MODULE TaskContract ----------------------------
(***************************************************************************)
(* What a collection task passes through between a client and a worker,    *)
(* and the tables that decide about it, each written down in a place of    *)
(* its own: the protocol's validation and encoding                         *)
(* (crates/dig2browser-protocol/src/task.rs), the server's gates and the   *)
(* capabilities it asks for (crates/dig2browser-station/src/ipc.rs), the   *)
(* station's own task and the runtime it chooses (lib.rs, runtime.rs,      *)
(* crates/dig2browser-core), the commands of a step and what each demands  *)
(* (src/agentic/contract.rs), and the surface a runtime really has         *)
(* (src/agentic/runtime.rs, the backends, the lightweight runtime).        *)
(*                                                                         *)
(* A step that names an element, a key, a script, a value or a tab names   *)
(* it or leaves it empty; durations are counted in half milliseconds.      *)
(* Retries of a step and cancellation are in SessionTask.                  *)
(***************************************************************************)
EXTENDS Naturals, Sequences, FiniteSets

CONSTANTS
    MaxWait,     \* MAX_TASK_WAIT
    TaskInputs,  \* what clients ask for: steps, and a contract for the runtime
    Personas,    \* the preset, or "None", the device and the class of an identity
    Stations     \* configurations: gates, capabilities, runtime, exact policy

VARIABLES
    at,          \* how far the request has come
    task, persona, station,
    runtime,     \* of the lease
    asked_for,   \* capabilities of the lease
    carried,     \* commands the worker carried out, with the step of each
    replies,     \* the worker's replies: kind, and size against its bound
    refusal      \* why the request was refused

contractVars == <<at, task, persona, station, runtime, asked_for, carried, replies, refusal>>

Kinds == {"Chrome", "Edge", "Firefox", "Lightweight"}
Capabilities == {"Pointer", "Keyboard", "Scroll", "Inspect", "Interact", "Evaluate", "Navigate",
                 "Capture", "Lifecycle"}
Timed == {"Wait", "WaitForSelector", "WaitForLoadState", "WaitForDownload"}
OnElement == {"ClickSelector", "TypeSelector", "SelectOption", "UploadFile"}
Looking == {"ReadSelectorText", "WaitForSelector", "WaitForLoadState", "ReadInteractiveElements",
            "ListTabs"}
Replies == {"Acknowledged", "Text", "Script", "Elements", "Capture", "Download", "Tabs"}
Sizes == {"Small", "Bound", "Over"}
AgentCommands ==
    {"Navigate", "Restart", "ResolveElement", "ReadElementText", "ClickElement", "TypeElement",
     "SelectOption", "UploadFile", "Evaluate", "ObserveDocument", "ReadInteractiveElements",
     "Wheel", "KeyPress", "Capture", "WaitForDownload", "ListTabs", "SwitchToTab"}

ContractTypeOK ==
    /\ at \in {"Drafted", "Received", "Admitted", "Leased", "Ran", "Answered", "Refused"}
    /\ runtime \in Kinds \cup {"None"} /\ asked_for \subseteq Capabilities
    /\ carried \subseteq (DOMAIN task.steps) \X AgentCommands
    /\ Len(replies) <= Len(task.steps)
    /\ \A i \in DOMAIN replies : replies[i].kind \in Replies /\ replies[i].size \in Sizes
    /\ (at = "Refused") <=> (refusal # "None")

-----------------------------------------------------------------------------
(* The protocol: CollectionTask *)

Waited(steps, n) ==
    LET total[i \in 0..n] ==
            IF i = 0 THEN 0
            ELSE total[i - 1] + IF steps[i].kind \in Timed THEN steps[i].units ELSE 0
    IN  total[n]

ValidTask(steps) ==
    /\ steps # <<>>
    /\ \A i \in DOMAIN steps :
          /\ ~ steps[i].empty
          /\ steps[i].kind \in Timed => steps[i].units > 0 /\ Waited(steps, i) <= MaxWait
          /\ steps[i].kind = "Capture" => \E j \in 1..(i - 1) : steps[j].kind = "Navigate"

\* encode_payload() and decode_payload(): durations travel as whole milliseconds.
OnTheWire(steps) == [i \in DOMAIN steps |-> [steps[i] EXCEPT !.units = 2 * (@ \div 2)]]

\* requires_interaction() and its companions.
Gate(kind) ==
    CASE kind \in {"KeyPress", "ClickSelector", "TypeSelector", "SelectOption"} -> {"Interaction"}
      [] kind = "Evaluate" -> {"Script"}
      [] kind = "UploadFile" -> {"Upload"}
      [] kind = "WaitForDownload" -> {"Download"}
      [] OTHER -> {}

-----------------------------------------------------------------------------
(* The station *)

\* BrowserTask::new().
StationAccepts(steps) ==
    /\ steps # <<>>
    /\ \A i \in DOMAIN steps :
          /\ steps[i].kind \in Timed => steps[i].units > 0 /\ Waited(steps, i) <= MaxWait
          /\ steps[i].kind \in OnElement \cup {"ReadSelectorText", "WaitForSelector", "SwitchToTab"}
                => ~ steps[i].empty

\* Of a step, task_capabilities() of the server.
Asks(kind) ==
    CASE kind = "Navigate" -> {"Navigate"}
      [] kind = "Wheel" -> {"Scroll"}
      [] kind = "KeyPress" -> {"Keyboard"}
      [] kind \in OnElement -> {"Inspect", "Interact"}
      [] kind \in Looking -> {"Inspect"}
      [] kind = "Evaluate" -> {"Evaluate"}
      [] kind \in {"Capture", "WaitForDownload"} -> {"Capture"}
      [] kind = "SwitchToTab" -> {"Lifecycle"}
      [] OTHER -> {}

TaskCapabilities(steps) == {"Lifecycle"} \cup UNION {Asks(steps[i].kind) : i \in DOMAIN steps}

\* validate_task_capabilities() of the lease: for each capability, the steps that need it.
NeededFor == [Navigate |-> {"Navigate"}, Scroll |-> {"Wheel"}, Keyboard |-> {"KeyPress"},
              Inspect |-> OnElement \cup Looking, Interact |-> OnElement,
              Evaluate |-> {"Evaluate"}, Capture |-> {"Capture", "WaitForDownload"},
              Lifecycle |-> {"SwitchToTab"}]
Needed(steps) ==
    {c \in DOMAIN NeededFor : \E i \in DOMAIN steps : steps[i].kind \in NeededFor[c]}

\* Of a step, task_runtime_requirements().
Features(step) ==
    CASE step.kind = "Navigate" -> {"Navigate"}
      [] step.kind = "Wheel" -> {"ScrollInput"}
      [] step.kind = "KeyPress" -> {"KeyboardInput"}
      [] step.kind \in OnElement -> {"DomInspect", "DomInteract"}
      [] step.kind \in Looking -> {"DomInspect"}
      [] step.kind = "Evaluate" -> {"ScriptEvaluate"}
      [] step.kind = "WaitForDownload" -> {"CaptureState"}
      [] step.kind = "Capture" ->
            {"CaptureState"} \cup (IF step.policy = "StateOnly" THEN {} ELSE {"CaptureHtml"})
                             \cup (IF step.policy = "Evidence" THEN {"CaptureViewportPng"} ELSE {})
      [] OTHER -> {}

\* task_runtime_requirements(), persona_runtime_requirements(),
\* authenticated_identity_runtime_requirements() and the client's own.
RequirementSets(t, p) ==
    {[features |-> {"Lifecycle"} \cup UNION {Features(t.steps[i]) : i \in DOMAIN t.steps},
      partial |-> FALSE],
     IF p.mobile THEN [features |-> {"MobileWebEmulation"}, partial |-> FALSE]
                 ELSE [features |-> {"DesktopWeb"}, partial |-> TRUE],
     t.requires}
    \cup (IF p.authenticated THEN {[features |-> {"PersistentProfile"}, partial |-> FALSE]} ELSE {})

Pages == {"DomInspect", "Navigate", "CaptureState", "CaptureHtml", "Lifecycle"}
Browsers == Pages \cup {"DomInteract", "ScriptEvaluate", "CaptureViewportPng", "PersistentProfile",
                        "HeadfulAuthentication", "DesktopWeb"}
Inputs == {"PointerInput", "KeyboardInput", "ScrollInput"}

\* The descriptors the runtimes register.
Full(kind) ==
    CASE kind \in {"Chrome", "Edge"} -> Browsers \cup Inputs \cup {"MobileWebEmulation"}
      [] kind = "Firefox" -> Browsers
      [] OTHER -> Pages
Partial(kind) ==
    CASE kind = "Firefox" -> Inputs
      [] kind = "Lightweight" -> {"DesktopWeb"}
      [] OTHER -> {}

\* RuntimeDescriptor::negotiate_all(): no set weakens another.
\* Mutant: what one set accepts in part, all do.
NegotiateTogether(kind, sets) ==
    UNION {s.features : s \in sets} \subseteq
        Full(kind) \cup (IF \E s \in sets : s.partial THEN Partial(kind) ELSE {})
Negotiate(kind, sets) ==
    \A s \in sets : s.features \subseteq Full(kind) \cup (IF s.partial THEN Partial(kind) ELSE {})

\* PersonaPreset::required_runtime() and supports_runtime().
Presets == [Cohort |-> {"Chrome", "Edge"}, Chrome |-> {"Chrome"}, Edge |-> {"Edge"},
            Firefox |-> {"Firefox"}, Pixel |-> {"Chrome"}]
Required(preset) == IF preset \in {"None", "Cohort"} THEN {} ELSE Presets[preset]
Supports(preset, kind) == preset = "None" \/ kind \in Presets[preset]

\* constrained_runtime_selector(): what was configured, asked for for and required must agree.
Selectors(s, t, p) == ({s.selector, t.selector} \ {"Auto"}) \cup Required(p.preset)

\* RuntimeRegistry::prepare_all(), over the browsers found on the host.
AutoOrder == <<"Chrome", "Edge", "Firefox">>
Prepared(selectors, sets, found) ==
    LET fits == {k \in found : Negotiate(k, sets)} IN
    IF selectors # {} THEN fits \cap selectors
    ELSE {AutoOrder[i] : i \in {j \in DOMAIN AutoOrder :
             AutoOrder[j] \in fits /\ \A h \in 1..(j - 1) : AutoOrder[h] \notin fits}}

-----------------------------------------------------------------------------
(* The worker *)

\* AgentCommand::required_capability().
Demands(command) ==
    CASE command = "Wheel" -> "Scroll"
      [] command = "KeyPress" -> "Keyboard"
      [] command \in {"ResolveElement", "ReadElementText", "ObserveDocument",
                      "ReadInteractiveElements", "ListTabs"} -> "Inspect"
      [] command \in {"ClickElement", "TypeElement", "SelectOption", "UploadFile"} -> "Interact"
      [] command = "Evaluate" -> "Evaluate"
      [] command = "Navigate" -> "Navigate"
      [] command \in {"Capture", "WaitForDownload"} -> "Capture"
      [] OTHER -> "Lifecycle"

\* execute_task_step(), and the restart a first navigation may need.
Commands(steps, i) ==
    LET kind == steps[i].kind IN
    CASE kind = "ClickSelector" -> {"ResolveElement", "ClickElement"}
      [] kind = "TypeSelector" -> {"ResolveElement", "TypeElement"}
      [] kind \in {"SelectOption", "UploadFile"} -> {"ResolveElement", kind}
      [] kind = "ReadSelectorText" -> {"ResolveElement", "ReadElementText"}
      [] kind = "WaitForSelector" -> {"ResolveElement"}
      [] kind = "WaitForLoadState" -> {"ObserveDocument"}
      [] kind = "Wait" -> {}
      [] kind = "Navigate" /\ i = 1 -> {"Navigate", "Restart"}
      [] OTHER -> {kind}

\* What a runtime implements: the rest fails with a default of the trait, of the page or of the
\* browser.
Surface(kind) ==
    CASE kind = "Lightweight" -> {"Navigate", "ResolveElement", "ReadElementText", "Capture", "Restart"}
      [] kind = "Firefox" -> {"Navigate", "ResolveElement", "ReadElementText", "Capture", "Restart",
                              "ClickElement", "TypeElement", "SelectOption", "Evaluate",
                              "ObserveDocument", "ReadInteractiveElements"}
      [] OTHER -> {"Navigate", "ResolveElement", "ReadElementText", "Capture", "Restart",
                   "ClickElement", "TypeElement", "SelectOption", "Evaluate", "ObserveDocument",
                   "ReadInteractiveElements", "Wheel", "KeyPress", "UploadFile", "WaitForDownload",
                   "ListTabs", "SwitchToTab"}

ReplyOf(kind) ==
    CASE kind = "ReadSelectorText" -> "Text"
      [] kind = "Evaluate" -> "Script"
      [] kind = "ReadInteractiveElements" -> "Elements"
      [] kind = "Capture" -> "Capture"
      [] kind = "WaitForDownload" -> "Download"
      [] kind = "ListTabs" -> "Tabs"
      [] OTHER -> "Acknowledged"

\* The worker bounds what a script returns, and nothing else.
SizesOf(reply) ==
    CASE reply = "Acknowledged" -> {"Small"}
      [] reply = "Script" -> {"Small", "Bound"}
      [] OTHER -> Sizes

-----------------------------------------------------------------------------
(* A request *)

\* What the types of the protocol, the identities and the configuration allow.
StepKinds ==
    Timed \cup OnElement \cup Looking
    \cup {"Navigate", "Wheel", "KeyPress", "Evaluate", "Capture", "SwitchToTab"}
TaskSteps ==
    [kind : StepKinds, units : Nat, policy : {"None", "StateOnly", "HtmlOnly", "Evidence"},
     empty : BOOLEAN]
ASSUME InputsAreTasks ==
    /\ \A t \in TaskInputs :
          t \in [steps : Seq(TaskSteps), selector : Kinds \cup {"Auto"},
                 requires : [features : SUBSET STRING, partial : BOOLEAN]]
    /\ \A p \in Personas :
          p \in [preset : {"None"} \cup DOMAIN Presets, mobile : BOOLEAN, authenticated : BOOLEAN]
    /\ \A s \in Stations :
          s \in [gates : SUBSET STRING, capabilities : SUBSET Capabilities,
                 selector : Kinds \cup {"Auto"}, exact : BOOLEAN]

ContractInit ==
    /\ at = "Drafted"
    /\ task \in TaskInputs /\ persona \in Personas /\ station \in Stations
    /\ runtime = "None" /\ asked_for = {} /\ carried = {} /\ replies = <<>> /\ refusal = "None"

Refuse(why) ==
    /\ at' = "Refused" /\ refusal' = why
    /\ UNCHANGED <<task, persona, station, runtime, asked_for, carried, replies>>

\* The client validates and encodes, the server decodes and validates.
SendsTask ==
    /\ at = "Drafted" /\ ValidTask(task.steps)
    /\ LET steps == OnTheWire(task.steps) IN
       IF ValidTask(steps)
       THEN /\ at' = "Received" /\ task' = [task EXCEPT !.steps = steps]
            /\ UNCHANGED <<persona, station, runtime, asked_for, carried, replies, refusal>>
       ELSE Refuse("Undecodable")

\* The gates, the station's own task, the navigation policy's word on the targets.
Admits ==
    /\ at = "Received"
    /\ IF \E i \in DOMAIN task.steps : ~ Gate(task.steps[i].kind) \subseteq station.gates
       THEN Refuse("Gate")
       ELSE IF ~ StationAccepts(task.steps) THEN Refuse("InvalidTask")
       ELSE   \/ /\ \E i \in DOMAIN task.steps : task.steps[i].kind = "Navigate"
                 /\ Refuse("Target")
              \/ /\ at' = "Admitted" /\ asked_for' = TaskCapabilities(task.steps)
                 /\ UNCHANGED <<task, persona, station, runtime, carried, replies, refusal>>

\* lease_for_task(), with the browsers that are found on the host; the profile, its binding, the
\* route or the start of the browser may still fail.
Leases ==
    /\ at = "Admitted"
    /\ LET selectors == Selectors(station, task, persona) IN
       IF ~ asked_for \subseteq station.capabilities THEN Refuse("CapabilityDenied")
       ELSE IF Cardinality(selectors) > 1 THEN Refuse("SelectionDenied")
       ELSE \E found \in SUBSET Kinds :
               /\ "Lightweight" \in found
               /\ LET kinds == Prepared(selectors, RequirementSets(task, persona), found) IN
                  IF kinds = {} THEN Refuse("NoRuntime")
                  ELSE \E kind \in kinds :
                       IF station.exact /\ kind = "Firefox" THEN Refuse("NotContained")
                       ELSE IF ~ Supports(persona.preset, kind) THEN Refuse("PersonaMismatch")
                       ELSE \/ Refuse("Unavailable")
                            \/ /\ at' = "Leased" /\ runtime' = kind
                               /\ UNCHANGED <<task, persona, station, asked_for, carried, replies,
                                              refusal>>

\* run_task_controlled(): the capabilities of the whole task, then the next step.
Runs ==
    /\ at = "Leased"
    /\ LET i == Len(replies) + 1
           kind == task.steps[i].kind
           commands == Commands(task.steps, i)
       IN
       IF ~ Needed(task.steps) \subseteq asked_for THEN Refuse("LateCapability")
       ELSE IF \E command \in commands : Demands(command) \notin asked_for
       THEN Refuse("LateCapability")
       ELSE IF ~ commands \subseteq Surface(runtime) THEN Refuse("NoSurface")
       ELSE   \/ Refuse("StepFailed")
              \/ \E size \in SizesOf(ReplyOf(kind)) :
                    /\ replies' = Append(replies, [kind |-> ReplyOf(kind), size |-> size])
                    /\ carried' = carried \cup {<<i, command>> : command \in commands}
                    /\ at' = IF i = Len(task.steps) THEN "Ran" ELSE "Leased"
                    /\ UNCHANGED <<task, persona, station, runtime, asked_for, refusal>>

\* to_protocol_result() refuses a reply beyond its bound; WorkerResponse::task_result() a result
\* whose one capture or download uses the whole of it.
Answers ==
    /\ at = "Ran"
    /\ IF \E i \in DOMAIN replies : replies[i].size = "Over" THEN Refuse("InvalidResult")
       ELSE IF \E i \in DOMAIN replies :
                  replies[i].size = "Bound" /\ replies[i].kind \in {"Capture", "Download"}
       THEN Refuse("TooLarge")
       ELSE   /\ at' = "Answered"
              /\ UNCHANGED <<task, persona, station, runtime, asked_for, carried, replies, refusal>>

ContractNext == SendsTask \/ Admits \/ Leases \/ Runs \/ Answers

ContractSpec == ContractInit /\ [][ContractNext]_contractVars

-----------------------------------------------------------------------------
(* Properties *)

\* A task the server could decode is not refused later by another of the tables: by the
\* station's own validation, by the lease, or by the worker for a capability the server did not
\* ask for, when earlier steps have taken effect.
NoLateRefusal == refusal \notin {"InvalidTask", "LateCapability"}

\* No command is carried out that the operator's configuration does not allow: the gate of its
\* step is open and the station grants what the command demands.
NothingUngated ==
    \A c \in carried :
        /\ Gate(task.steps[c[1]].kind) \subseteq station.gates
        /\ Demands(c[2]) \in station.capabilities

\* The runtime is the one that was configured, asked for for and required, it has in full what the
\* steps need, whatever the client or the persona accept in part, it keeps the profile of an
\* authenticated identity, and under an exact policy it is one the station contains.
RuntimeIsGranted ==
    runtime # "None" =>
        /\ {station.selector, task.selector} \subseteq {"Auto", runtime}
        /\ Supports(persona.preset, runtime)
        /\ \A i \in DOMAIN task.steps : Features(task.steps[i]) \subseteq Full(runtime)
        /\ persona.authenticated => runtime # "Lightweight"
        /\ station.exact => runtime # "Firefox"

\* The three of them: the tables a collection task passes agree with each other.
TasksAgree == NoLateRefusal /\ NothingUngated /\ RuntimeIsGranted

\* A runtime that was granted implements every command of the task ("A runtime's
\* version-independent declaration of actual support").
SurfaceIsCovered == refusal # "NoSurface"

\* A task the client accepts is one the server can decode.
TasksSurviveEncoding == refusal # "Undecodable"

\* What was carried out to its end is answered.
WorkIsAnswered == refusal \notin {"InvalidResult", "TooLarge"}
=============================================================================
