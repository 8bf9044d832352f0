----------------------------- MODULE DaemonRun -----------------------------
(***************************************************************************)
(* How the station daemon runs and ends                                    *)
(* (bin/dig2browser-stationd.rs, egress.rs, the shutdowns of the station). *)
(* One task polls the server and the egress proxy, joined by a select!,    *)
(* and around them a second select! waits for the loss of the network      *)
(* containment.  What that task does not poll stands still: the server     *)
(* and the proxy while the emergency shutdown runs.  Connections, workers  *)
(* and the proxy's tunnels are tasks of their own.                         *)
(*                                                                         *)
(* The server is its drain and its end here (StationServer has the rest),  *)
(* the station its gate, the registry and the flag (Station has the rest). *)
(* A tunnel is what its end is counted as.                                 *)
(***************************************************************************)
EXTENDS FiniteSets, Sequences, Naturals

CONSTANTS
    Ops,         \* operations on the station, each of which may launch a browser
    Tunnels,     \* connections that browsers make to the proxy
    MaxTunnels   \* MAX_CONNECTIONS

VARIABLES
    main,        \* where the task of the daemon is
    inner,       \* what run_station_and_egress() awaits: both, one of them, or nothing
    verdict,     \* its result
    stopping,    \* the shutdown channel
    lost,        \* the broker is gone
    lease,       \* the containment: held, given back with its filters, or dropped
    serving,     \* where the server is, and its result
    shuttingDown,
    gate,        \* writers of the operation gate in their order, the holder first
    entered,     \* whether the first of them was let in
    op,          \* each operation
    up, ending,  \* browsers that run, and those among them that were told to end
    proxy, tunnel, accepted, counted, expected

runVars == <<main, inner, verdict, stopping, lost, lease, serving, shuttingDown, gate, entered,
             op, up, ending, proxy, tunnel, accepted, counted, expected>>
station == <<shuttingDown, gate, entered, op, up, ending>>
egress == <<proxy, tunnel, accepted, counted>>

RunTypeOK ==
    /\ main \in {"Selecting", "Aborting", "EmergencyGate", "Reaping", "AwaitsService", "Closing",
                 "Over"}
    /\ inner \in {"Both", "Proxy", "Server", "None"}
    /\ {verdict, serving.result, proxy.result} \subseteq {"None", "Ok", "Err"}
    /\ serving.at \in {"Serving", "Draining", "Gate", "Stopping", "Ended"}
    /\ proxy.at \in {"Accepting", "Draining", "Ended"}
    /\ {stopping, lost, shuttingDown, entered, expected} \subseteq BOOLEAN
    /\ lease \in {"Held", "Closed", "Dropped"}
    /\ gate \in {<<>>, <<"server">>, <<"emergency">>, <<"server", "emergency">>}
    /\ op \in [Ops -> {"None", "Inside", "Launched", "Over"}]
    /\ ending \subseteq up /\ up \subseteq Ops
    /\ tunnel \in [Tunnels -> {"None", "Open", "Done", "Joined", "Dropped"}]
    /\ accepted \in 0..Cardinality(Tunnels) /\ counted \in 0..Cardinality(Tunnels)

RunInit ==
    /\ main = "Selecting" /\ inner = "Both" /\ verdict = "None"
    /\ stopping = FALSE /\ lost = FALSE /\ lease = "Held" /\ expected = FALSE
    /\ serving = [at |-> "Serving", result |-> "None"]
    /\ shuttingDown = FALSE /\ gate = <<>> /\ entered = FALSE
    /\ op = [o \in Ops |-> "None"] /\ up = {} /\ ending = {}
    /\ proxy = [at |-> "Accepting", result |-> "None"]
    /\ tunnel = [t \in Tunnels |-> "None"] /\ accepted = 0 /\ counted = 0

\* The task of the daemon is in its select!, or awaits the service after an emergency.
Polled == main \in {"Selecting", "AwaitsService"}
ServerPolled == Polled /\ inner \in {"Both", "Server"}
ProxyPolled == Polled /\ inner \in {"Both", "Proxy"}

-----------------------------------------------------------------------------
(* The station: operations under the read side of the gate, browsers *)

\* The gate is fair: it is not entered past a writer.
Enters(o) ==
    /\ op[o] = "None" /\ gate = <<>> /\ ~ shuttingDown
    /\ op' = [op EXCEPT ![o] = "Inside"]
    /\ UNCHANGED <<main, inner, verdict, stopping, lost, lease, serving, shuttingDown, gate,
                   entered, up, ending, egress, expected>>

\* register_emergency_worker: a worker that comes too late is aborted by itself.
Launches(o) ==
    /\ op[o] = "Inside"
    /\ op' = [op EXCEPT ![o] = "Launched"]
    /\ up' = up \cup {o} /\ ending' = IF shuttingDown THEN ending \cup {o} ELSE ending
    /\ UNCHANGED <<main, inner, verdict, stopping, lost, lease, serving, shuttingDown, gate,
                   entered, egress, expected>>

\* It returns, or its future is dropped.
Returns(o) ==
    /\ op[o] \in {"Inside", "Launched"}
    /\ op' = [op EXCEPT ![o] = "Over"]
    /\ UNCHANGED <<main, inner, verdict, stopping, lost, lease, serving, shuttingDown, gate,
                   entered, up, ending, egress, expected>>

BrowserEnds(o) ==
    /\ o \in ending
    /\ up' = up \ {o} /\ ending' = ending \ {o}
    /\ UNCHANGED <<main, inner, verdict, stopping, lost, lease, serving, shuttingDown, gate,
                   entered, op, egress, expected>>

\* The last operation has left: the first writer has the gate, polled or not.
GateOpens ==
    /\ gate # <<>> /\ ~ entered
    /\ \A o \in Ops : op[o] \notin {"Inside", "Launched"}
    /\ entered' = TRUE
    /\ UNCHANGED <<main, inner, verdict, stopping, lost, lease, serving, shuttingDown, gate,
                   op, up, ending, egress, expected>>

HasGate(w) == entered /\ gate # <<>> /\ Head(gate) = w
LeavesGate == gate' = Tail(gate) /\ entered' = FALSE

-----------------------------------------------------------------------------
(* The server, up to BrowserStation::shutdown() *)

ServerStays == UNCHANGED <<main, inner, verdict, stopping, lost, lease, egress, expected>>

\* Told by the channel, or by a client.
ServerHears ==
    /\ ServerPolled /\ serving.at = "Serving"
    /\ serving' = [serving EXCEPT !.at = "Draining"]
    /\ UNCHANGED station /\ ServerStays

\* Drained or aborted; other work may still be inside.  A service that fails ends it early.
ServerDrained ==
    /\ ServerPolled /\ serving.at = "Draining"
    /\ \/ /\ ~ shuttingDown
          /\ serving' = [serving EXCEPT !.at = "Gate"]
          /\ shuttingDown' = TRUE /\ gate' = Append(gate, "server")
       \/ /\ serving' = [at |-> "Ended", result |-> "Err"]
          /\ UNCHANGED <<shuttingDown, gate>>
    /\ UNCHANGED <<entered, op, up, ending>> /\ ServerStays

StationStops ==
    /\ ServerPolled /\ serving.at = "Gate" /\ HasGate("server")
    /\ serving' = [serving EXCEPT !.at = "Stopping"]
    /\ ending' = up
    /\ UNCHANGED <<shuttingDown, gate, entered, op, up>> /\ ServerStays

\* Every worker was asked; a browser that failed to close is an error.
StationStopped ==
    /\ ServerPolled /\ serving.at = "Stopping"
    /\ \/ up = {} /\ serving' = [at |-> "Ended", result |-> "Ok"]
       \/ serving' = [at |-> "Ended", result |-> "Err"]
    /\ LeavesGate
    /\ UNCHANGED <<shuttingDown, op, up, ending>> /\ ServerStays

-----------------------------------------------------------------------------
(* EgressProxy::run() *)

ProxyStays ==
    UNCHANGED <<main, inner, verdict, stopping, lost, lease, serving, station, expected>>
Unjoined == {t \in Tunnels : tunnel[t] \in {"Open", "Done"}}
Dropped(gone) == tunnel' = [t \in Tunnels |-> IF t \in gone THEN "Dropped" ELSE tunnel[t]]

Accepts(t) ==
    /\ ProxyPolled /\ proxy.at = "Accepting" /\ tunnel[t] = "None"
    /\ Cardinality(Unjoined) < MaxTunnels
    /\ tunnel' = [tunnel EXCEPT ![t] = "Open"] /\ accepted' = accepted + 1
    /\ UNCHANGED <<proxy, counted>> /\ ProxyStays

\* Completed, refused, timed out, or aborted by the proxy's own channel.
TunnelEnds(t) ==
    /\ tunnel[t] = "Open"
    /\ tunnel' = [tunnel EXCEPT ![t] = "Done"]
    /\ UNCHANGED <<proxy, accepted, counted>> /\ ProxyStays

Joins(t) ==
    /\ ProxyPolled /\ proxy.at # "Ended" /\ tunnel[t] = "Done"
    /\ tunnel' = [tunnel EXCEPT ![t] = "Joined"] /\ counted' = counted + 1
    /\ UNCHANGED <<proxy, accepted>> /\ ProxyStays

\* The listener fails; the set of tunnels is dropped with the future.
AcceptFails ==
    /\ ProxyPolled /\ proxy.at = "Accepting" /\ Cardinality(Unjoined) < MaxTunnels
    /\ proxy' = [at |-> "Ended", result |-> "Err"]
    /\ Dropped(Unjoined)
    /\ UNCHANGED <<accepted, counted>> /\ ProxyStays

ProxyHears ==
    /\ ProxyPolled /\ proxy.at = "Accepting" /\ stopping
    /\ proxy' = [proxy EXCEPT !.at = "Draining"]
    /\ UNCHANGED <<tunnel, accepted, counted>> /\ ProxyStays

\* All joined; or not in time, then the rest counts as aborted.
ProxyDrained ==
    /\ ProxyPolled /\ proxy.at = "Draining"
    /\ proxy' = [at |-> "Ended", result |-> "Ok"]
    /\ Dropped(Unjoined) /\ counted' = counted + Cardinality(Unjoined)
    /\ UNCHANGED accepted /\ ProxyStays

-----------------------------------------------------------------------------
(* run_station_and_egress() *)

InnerStays == UNCHANGED <<main, lost, lease, serving, station, egress>>

ServerFirst ==
    /\ Polled /\ inner = "Both" /\ serving.at = "Ended"
    /\ inner' = "Proxy" /\ stopping' = TRUE
    /\ UNCHANGED <<verdict, expected>> /\ InnerStays

ProxyFirst ==
    /\ Polled /\ inner = "Both" /\ proxy.at = "Ended"
    /\ inner' = "Server" /\ expected' = stopping /\ stopping' = TRUE
    /\ UNCHANGED verdict /\ InnerStays

\* The server's result counts only when the proxy ended well, and not by itself.
ServiceEnds ==
    /\ Polled
    /\ \/ inner = "Proxy" /\ proxy.at = "Ended"
       \/ inner = "Server" /\ serving.at = "Ended"
    /\ verdict' = IF proxy.result = "Ok" /\ (inner = "Server" => expected)
                 THEN serving.result ELSE "Err"
    /\ inner' = "None"
    /\ UNCHANGED <<stopping, expected>> /\ InnerStays

-----------------------------------------------------------------------------
(* run() *)

MainStays == UNCHANGED <<inner, verdict, serving, op, up, egress, expected>>

\* An interrupt, and the broker's death.
Interrupt ==
    /\ ~ stopping /\ main # "Over"
    /\ stopping' = TRUE
    /\ UNCHANGED <<main, lost, lease, shuttingDown, gate, entered, ending>> /\ MainStays

BrokerDies ==
    /\ ~ lost /\ lease = "Held"
    /\ lost' = TRUE
    /\ UNCHANGED <<main, stopping, lease, shuttingDown, gate, entered, ending>> /\ MainStays

\* emergency_shutdown(): the flag, every worker that is known, then the gate.
LossSeen ==
    /\ main = "Selecting" /\ lost
    /\ main' = "EmergencyGate"
    /\ shuttingDown' = TRUE /\ ending' = up
    /\ gate' = Append(gate, "emergency")
    /\ UNCHANGED <<stopping, lost, lease, entered>> /\ MainStays

\* Those that registered meanwhile, then the end of all of them, which has a limit.
Reaps ==
    /\ main = "EmergencyGate" /\ HasGate("emergency")
    /\ main' = "Reaping" /\ ending' = up
    /\ UNCHANGED <<stopping, lost, lease, shuttingDown, gate, entered>> /\ MainStays

AllReaped ==
    /\ main = "Reaping" /\ up = {}
    /\ main' = "AwaitsService" /\ stopping' = TRUE
    /\ LeavesGate
    /\ UNCHANGED <<lost, lease, shuttingDown, ending>> /\ MainStays

\* The containment is closed only after a good end; otherwise its filters stay.
MainEnds ==
    /\ inner = "None"
    /\ IF main = "Selecting" /\ verdict = "Ok"
       THEN main' = "Closing" /\ UNCHANGED lease
       ELSE Polled /\ main' = "Over" /\ lease' = "Dropped"
    /\ UNCHANGED <<stopping, lost, shuttingDown, gate, entered, ending>> /\ MainStays

LeaseCloses ==
    /\ main = "Closing"
    /\ main' = "Over" /\ lease' = IF lost THEN "Dropped" ELSE "Closed"
    /\ UNCHANGED <<stopping, lost, shuttingDown, gate, entered, ending>> /\ MainStays

\* What the scheduler and the limits of the code bring about.
RunStep ==
    \/ GateOpens \/ ServerDrained \/ StationStops \/ StationStopped
    \/ serving.at = "Serving" /\ stopping /\ ServerHears
    \/ ProxyHears \/ ProxyDrained \/ ServerFirst \/ ProxyFirst \/ ServiceEnds
    \/ LossSeen \/ Reaps \/ AllReaped \/ MainEnds \/ LeaseCloses
    \/ \E o \in Ops : Returns(o) \/ BrowserEnds(o)

RunNext ==
    \/ RunStep \/ ServerHears \/ AcceptFails \/ Interrupt \/ BrokerDies
    \/ \E o \in Ops : Enters(o) \/ Launches(o)
    \/ \E t \in Tunnels : Accepts(t) \/ TunnelEnds(t) \/ Joins(t)

RunSpec == RunInit /\ [][RunNext]_runVars

-----------------------------------------------------------------------------
(* Properties *)

\* The filters are taken away only when no browser is left that they confine (run(): "A failed
\* station shutdown does not prove that every contained process has exited").
FiltersOutliveBrowsers == lease = "Closed" => up = {} /\ verdict = "Ok"

\* When the emergency shutdown has returned, no browser is left, the one of a lease included
\* that registered behind its back (emergency_shutdown()).
EmergencyIsThorough == lost /\ main = "AwaitsService" => up = {}

\* A proxy that reports has counted every connection once and left none open (run(),
\* record_join()).
TunnelsAddUp ==
    proxy.result = "Ok" => counted = accepted /\ \A t \in Tunnels : tunnel[t] # "Open"

\* The emergency shutdown waits for a gate that the server holds or is next to hold, and the
\* server, which nobody polls, does not go on.
Locked == main = "EmergencyGate" /\ gate # <<>> /\ Head(gate) = "server"

\* Told to stop, or without its containment, the daemon ends, unless it locks itself out.
MustEnd == stopping \/ (lost /\ main = "Selecting")
RunEnds == MustEnd ~> (main = "Over" \/ Locked)

\* Without its containment the daemon ends ("containment-lost station exit timeout").
LossEndsDaemon == (lost /\ main = "Selecting") ~> (main = "Over")
=============================================================================
