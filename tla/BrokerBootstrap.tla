-------------------------- MODULE BrokerBootstrap --------------------------
(***************************************************************************)
(* How an elevated broker comes to serve one client                        *)
(* (crates/dig2browser-station/src/windows_wfp_broker.rs):                 *)
(* launch_elevated_windows_wfp_broker() starts it, finds out over a        *)
(* bootstrap pipe that it is the process it started, and hands it a        *)
(* capability; the client that holds the other copy presents it on a       *)
(* second pipe.  Each side may fail, stop or die between any two steps,    *)
(* other processes of the user may connect to either pipe, and the process *)
(* id of a broker that ended may be given to another process.  What the    *)
(* broker does with its lease is in Containment.                           *)
(*                                                                         *)
(* Time limits are steps that may be taken at any moment.                  *)
(***************************************************************************)
EXTENDS Naturals, Sequences

VARIABLES
    launcher,    \* who starts the broker, and owns it afterwards
    elevated,    \* the broker process
    peer,        \* the client of the bootstrap pipe
    records,     \* frames to the launcher that it has not read
    heard,       \* whether the one answer was delivered to the owner
    orders,      \* frames to the broker
    reused,      \* whether another process has the process id of the broker, and which kind
    seen,        \* whom a launcher without a handle found at the pipe
    terminated,  \* processes the launcher has terminated
    secret,      \* whether the broker has its copy of the capability, and has spent it
    holders,     \* who has seen the capability
    visitor,     \* the client of the broker's own pipe
    caller       \* the client the capability is meant for

bootstrapPipe == <<peer, records, heard, orders>>
processes == <<reused, seen, terminated>>
capability == <<secret, holders, visitor, caller>>
bootstrapVars == <<launcher, elevated, bootstrapPipe, processes, capability>>

Recovering == {"Recovering", "Inspecting", "Listening", "Opening"}
Pending == {"Pending", "Checking", "Trusting"}
Owning == {"Owning", "Crashing", "Waiting", "Reaping"}
Told == {"Diagnostic", "LauncherAuthenticated", "Failed", "CrashAcknowledged", "Outcome"}

BootstrapTypeOK ==
    /\ launcher \in {"Starting", "Done", "Gone"} \cup Recovering \cup Pending \cup Owning
    /\ elevated \in {"Unborn", "Connecting", "Verifying", "Awaiting", "Offering", "Granting",
                     "Leasing", "Reporting", "Ended"}
    /\ peer \in {"None", "Broker", "Other"}
    /\ records \in Seq(Told) /\ heard \in BOOLEAN /\ orders \in Seq({"Start", "Crash"})
    /\ reused \in {"No", "Plain", "Elevated"} /\ seen \in {"None", "Broker", "Reuser", "Other"}
    /\ terminated \subseteq {"Broker", "Reuser", "Other"}
    /\ secret \in {"None", "Present", "Spent"}
    /\ holders \subseteq {"Launcher", "Broker", "Client", "Other"}
    /\ visitor \in {"None", "Client", "Other"}
    /\ caller \in {"Idle", "Connected", "Presented", "Granted", "Over"}

BootstrapInit ==
    /\ launcher = "Starting" /\ elevated = "Unborn" /\ peer = "None"
    /\ records = <<>> /\ heard = FALSE /\ orders = <<>>
    /\ reused = "No" /\ seen = "None" /\ terminated = {}
    /\ secret = "None" /\ holders = {"Launcher", "Client"} /\ visitor = "None" /\ caller = "Idle"

Running == elevated \notin {"Unborn", "Ended"}
PipeIsUp == launcher \notin {"Starting", "Done", "Gone"}
BrokerHears == PipeIsUp /\ peer = "Broker"

Launcher(pc) == launcher' = pc
Broker(pc) == elevated' = pc

\* A frame to the launcher; one that cannot be written is lost.
Reports(frames) == records' = IF BrokerHears THEN records \o frames ELSE records

\* A process that ends closes what it holds.
Ends == Broker("Ended") /\ visitor' = "None"

-----------------------------------------------------------------------------
(* launch_elevated_windows_wfp_broker *)

\* ShellExecuteExW(): refused, or with a process and its handle, or without the handle.
Launches ==
    /\ launcher = "Starting"
    /\ \/ Launcher("Gone") /\ UNCHANGED elevated
       \/ Broker("Connecting") /\ \E pc \in {"Pending", "Recovering"} : Launcher(pc)
    /\ UNCHANGED <<bootstrapPipe, processes, capability>>

\* Drop of PendingElevatedWindowsWfpBroker and of ElevatedWindowsWfpBroker: what the handle
\* stands for is terminated, if it can be.
DropsBroker ==
    /\ Launcher("Gone")
    /\ \/ Running /\ Ends /\ terminated' = terminated \cup {"Broker"}
       \/ UNCHANGED <<elevated, visitor, terminated>>
    /\ UNCHANGED <<bootstrapPipe, reused, seen, secret, holders, caller>>

\* The wait for a connection: its time limit, or the end of the process.
Connected ==
    /\ launcher = "Pending" /\ peer # "None"
    /\ Launcher("Checking")
    /\ UNCHANGED <<elevated, bootstrapPipe, processes, capability>>

\* The client of the pipe is the process that was started, by id and creation time.
Exact == peer = "Broker" /\ Running

Checks ==
    /\ launcher = "Checking" /\ Exact
    /\ Launcher("Trusting")
    /\ UNCHANGED <<elevated, bootstrapPipe, processes, capability>>

Transfers ==
    /\ launcher = "Trusting" /\ (peer = "Broker" => Running)
    /\ Launcher("Owning") /\ orders' = Append(orders, "Start")
    /\ holders' = holders \cup {peer}
    /\ UNCHANGED <<elevated, peer, records, heard, processes, secret, visitor, caller>>

LaunchFails == launcher \in Pending /\ DropsBroker

-----------------------------------------------------------------------------
(* recover_handleless_elevated_broker *)

GivesUp ==
    /\ launcher \in Recovering /\ Launcher("Gone")
    /\ UNCHANGED <<elevated, bootstrapPipe, processes, capability>>

RecoveryConnects ==
    /\ launcher = "Recovering" /\ peer # "None"
    /\ Launcher("Inspecting")
    /\ UNCHANGED <<elevated, bootstrapPipe, processes, capability>>

\* PeerProcess::from_pipe(): the process that has the client's id now, which must be alive, of
\* the same user and elevated.
Found == IF peer = "Other" THEN "Other"
         ELSE IF Running THEN "Broker" ELSE IF reused # "No" THEN "Reuser" ELSE "None"
IsElevated(process) == process \in {"Broker", "Other"} \/ (process = "Reuser" /\ reused = "Elevated")

Inspects ==
    /\ launcher = "Inspecting" /\ IsElevated(Found)
    /\ Launcher("Listening") /\ seen' = Found
    /\ UNCHANGED <<elevated, bootstrapPipe, reused, terminated, capability>>

\* await_handleless_broker_authentication()
Listens ==
    /\ launcher = "Listening" /\ records # <<>> /\ records' = Tail(records)
    /\ CASE Head(records) = "Diagnostic" -> UNCHANGED launcher
         [] Head(records) = "LauncherAuthenticated" -> Launcher("Opening")
         [] OTHER -> Launcher("Gone")
    /\ UNCHANGED <<elevated, peer, heard, orders, processes, capability>>

\* The process is opened by its id and looked at again, its creation time too, before it is
\* terminated.
Terminates ==
    /\ launcher = "Opening" /\ IsElevated(Found) /\ Found = seen
    /\ Launcher("Gone")
    /\ \/ terminated' = terminated \cup {Found} /\ Ends
       \/ UNCHANGED <<terminated, elevated, visitor>>
    /\ UNCHANGED <<bootstrapPipe, reused, seen, secret, holders, caller>>

-----------------------------------------------------------------------------
(* ElevatedWindowsWfpBroker *)

RequestsCrash ==
    /\ launcher = "Owning" /\ Len(orders) < 2
    /\ IF BrokerHears /\ Running
       THEN Launcher("Crashing") /\ orders' = Append(orders, "Crash")
       ELSE UNCHANGED <<launcher, orders>>
    /\ UNCHANGED <<elevated, peer, records, heard, processes, capability>>

WaitsForOutcome ==
    /\ launcher = "Owning" /\ Launcher("Waiting")
    /\ UNCHANGED <<elevated, bootstrapPipe, processes, capability>>

\* read_live_bootstrap_broker_frame(): diagnostics are skipped, the first other frame is the
\* answer; the end of the broker is the answer when it sent none.  It is delivered once.
Answer == SelectSeq(records, LAMBDA r : r \notin {"Diagnostic", "LauncherAuthenticated"})
Expected(frame) == CASE launcher = "Crashing" -> frame = "CrashAcknowledged"
                     [] OTHER -> frame \in {"Outcome", "None"}

Hears ==
    /\ launcher \in {"Crashing", "Waiting"} /\ (heard \/ Answer # <<>> \/ ~ Running)
    /\ LET frame == IF Answer = <<>> THEN "None" ELSE Head(Answer) IN
       Launcher(IF ~ heard /\ Expected(frame) THEN "Reaping" ELSE "Owning")
    /\ records' = <<>> /\ heard' = TRUE
    /\ UNCHANGED <<elevated, peer, orders, processes, capability>>

\* CLOSE_TIMEOUT, ACQUIRE_TIMEOUT: the owner may ask again, or drop it.
TimesOut ==
    /\ launcher \in {"Crashing", "Waiting", "Reaping"} /\ Launcher("Owning")
    /\ UNCHANGED <<elevated, bootstrapPipe, processes, capability>>

\* wait_for_process_exit()
Reaps ==
    /\ launcher = "Reaping" /\ ~ Running /\ Launcher("Done")
    /\ UNCHANGED <<elevated, bootstrapPipe, processes, capability>>

OwnerDrops == launcher \in Owning /\ DropsBroker

LauncherDies ==
    /\ launcher \notin {"Starting", "Done", "Gone"} /\ Launcher("Gone")
    /\ UNCHANGED <<elevated, bootstrapPipe, processes, capability>>

LauncherStep ==
    \/ Launches \/ Connected \/ Checks \/ Transfers \/ LaunchFails
    \/ GivesUp \/ RecoveryConnects \/ Inspects \/ Listens \/ Terminates
    \/ RequestsCrash \/ WaitsForOutcome \/ Hears \/ TimesOut \/ Reaps \/ OwnerDrops
    \/ LauncherDies

-----------------------------------------------------------------------------
(* run_bootstrapped_windows_wfp_broker *)

\* connect_client(), or its time limit.
Connects ==
    /\ elevated = "Connecting"
    /\ IF PipeIsUp /\ peer = "None"
       THEN Broker("Verifying") /\ peer' = "Broker" /\ records' = Append(records, "Diagnostic")
       ELSE Ends /\ UNCHANGED <<peer, records>>
    /\ UNCHANGED <<launcher, heard, orders, processes, capability>>

\* verify_bootstrap_launcher(): the server of the pipe is the process that was named.
Verifies ==
    /\ elevated = "Verifying"
    /\ IF PipeIsUp
       THEN Broker("Awaiting") /\ Reports(<<"LauncherAuthenticated">>) /\ UNCHANGED visitor
       ELSE Ends /\ UNCHANGED records
    /\ UNCHANGED <<launcher, peer, heard, orders, processes, secret, holders, caller>>

\* The first frame has to be Start.
Starts ==
    /\ elevated = "Awaiting" /\ orders # <<>> /\ Head(orders) = "Start"
    /\ Broker("Offering") /\ secret' = "Present" /\ orders' = Tail(orders)
    /\ Reports(<<"Diagnostic">>)
    /\ UNCHANGED <<launcher, peer, heard, processes, holders, visitor, caller>>

\* The time limit before Start, or the end of the launcher.
StartFails ==
    /\ elevated = "Awaiting" /\ Ends /\ Reports(<<"Failed">>)
    /\ UNCHANGED <<launcher, peer, heard, orders, processes, secret, holders, caller>>

\* run_authenticated_windows_wfp_broker(): while the lease is offered or held the launcher may
\* ask for a crash or go away.
Serving == {"Offering", "Granting", "Leasing"}

Crashes ==
    /\ elevated \in Serving /\ orders # <<>>
    /\ Ends /\ Reports(<<"CrashAcknowledged">>) /\ orders' = Tail(orders)
    /\ UNCHANGED <<launcher, peer, heard, processes, secret, holders, caller>>

LauncherLost ==
    /\ elevated \in Serving /\ ~ PipeIsUp /\ orders = <<>>
    /\ Ends
    /\ UNCHANGED <<launcher, bootstrapPipe, processes, secret, holders, caller>>

\* The outcome of the lease.
ReportsOutcome ==
    /\ elevated = "Reporting" /\ Ends /\ Reports(<<"Diagnostic", "Outcome">>)
    /\ UNCHANGED <<launcher, peer, heard, orders, processes, secret, holders, caller>>

BrokerFails ==
    /\ Running /\ Ends
    /\ UNCHANGED <<launcher, bootstrapPipe, processes, secret, holders, caller>>

-----------------------------------------------------------------------------
(* run_windows_wfp_broker: whom the lease is for *)

\* OneTimeBrokerCapability::authorize(), after verify_claimed_identity().
Authorizes(who, presents) == presents = "Right" /\ secret = "Present"

Visits(who) ==
    /\ elevated = "Offering" /\ visitor = "None" /\ visitor' = who
    /\ who = "Client" => caller = "Idle"
    /\ caller' = IF who = "Client" THEN "Connected" ELSE caller
    /\ UNCHANGED <<launcher, elevated, bootstrapPipe, processes, secret, holders>>

\* Only who has seen the capability can present it.
Presents(who, what) ==
    /\ elevated = "Offering" /\ visitor = who
    /\ what = "Right" => who \in holders
    /\ who = "Client" => what = "Right" /\ caller = "Connected"
    /\ IF Authorizes(who, what)
       THEN Broker("Granting") /\ secret' = "Spent" /\ UNCHANGED visitor
       ELSE visitor' = "None" /\ UNCHANGED <<elevated, secret>>
    /\ caller' = IF who = "Client" THEN "Presented" ELSE caller
    /\ UNCHANGED <<launcher, bootstrapPipe, processes, holders>>

\* A visitor that leaves, or is silent until PREAUTH_FRAME_TIMEOUT: the pipe is offered anew.
Rearms ==
    /\ elevated = "Offering" /\ visitor # "None" /\ visitor' = "None"
    /\ caller' = IF visitor = "Client" THEN "Over" ELSE caller
    /\ UNCHANGED <<launcher, elevated, bootstrapPipe, processes, secret, holders>>

\* ACQUIRE_TIMEOUT, or a refusal after the client is known.
OfferEnds ==
    /\ elevated \in {"Offering", "Granting"} /\ Broker("Reporting") /\ visitor' = "None"
    /\ UNCHANGED <<launcher, bootstrapPipe, processes, secret, holders, caller>>

Grants ==
    /\ elevated = "Granting" /\ Broker("Leasing")
    /\ caller' = IF visitor = "Client" /\ caller = "Presented" THEN "Granted" ELSE caller
    /\ UNCHANGED <<launcher, bootstrapPipe, processes, secret, holders, visitor>>

\* The client closes the lease, gives up or dies; hold_broker_lease() ends.
CallerLeaves ==
    /\ caller \in {"Connected", "Presented", "Granted"} /\ caller' = "Over"
    /\ UNCHANGED <<launcher, elevated, bootstrapPipe, processes, secret, holders, visitor>>

LeaseEnds ==
    /\ elevated = "Leasing" /\ (visitor = "Client" => caller = "Over")
    /\ Broker("Reporting") /\ visitor' = "None"
    /\ UNCHANGED <<launcher, bootstrapPipe, processes, secret, holders, caller>>

BrokerStep ==
    \/ Connects \/ Verifies \/ Starts \/ StartFails \/ Crashes \/ LauncherLost \/ ReportsOutcome
    \/ OfferEnds \/ Grants \/ LeaseEnds

-----------------------------------------------------------------------------
(* Others *)

OtherConnects ==
    /\ PipeIsUp /\ peer = "None" /\ peer' = "Other"
    /\ UNCHANGED <<launcher, elevated, records, heard, orders, processes, capability>>

IdIsReused ==
    /\ elevated = "Ended" /\ reused = "No" /\ reused' \in {"Plain", "Elevated"}
    /\ UNCHANGED <<launcher, elevated, bootstrapPipe, seen, terminated, capability>>

VisitorStep ==
    \/ \E who \in {"Client", "Other"} :
          Visits(who) \/ \E what \in {"Right", "Wrong", "Missing"} : Presents(who, what)
    \/ CallerLeaves

BootstrapNext ==
    \/ LauncherStep \/ BrokerStep \/ Rearms \/ BrokerFails
    \/ VisitorStep \/ OtherConnects \/ IdIsReused

BootstrapSpec == BootstrapInit /\ [][BootstrapNext]_bootstrapVars

-----------------------------------------------------------------------------
(* Properties *)

\* The capability is seen by the launcher, the exact process it started and the client only
\* ("transferred only after the exact runas process has authenticated"), and a lease is held
\* for that client only, at most once.
CapabilityIsKept ==
    /\ holders \subseteq {"Launcher", "Broker", "Client"}
    /\ elevated \in {"Granting", "Leasing"} => visitor = "Client" /\ secret = "Spent"

\* No process but the broker is terminated, whoever connects to the pipe and whoever gets its
\* process id, unless an elevated process of the user had that id already when a launcher
\* without a handle looked who is at the pipe (recover_handleless_elevated_broker(), the drops).
OnlyTheBrokerIsTerminated ==
    /\ terminated \subseteq {"Broker", "Reuser"}
    /\ "Reuser" \in terminated => reused = "Elevated" /\ seen = "Reuser"

\* No process but the broker is terminated, however early its id is given away.
NobodyElseIsTerminated == terminated \subseteq {"Broker"}

\* An exit that was reported is one that happened (request_crash(), wait()).
ExitsAreReal == launcher = "Done" => elevated = "Ended"

\* A broker does not outlive who started it, even if it could not be terminated.
BrokerEnds == (launcher = "Gone") ~> ~ Running
=============================================================================
