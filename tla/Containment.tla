---------------------------- MODULE Containment ----------------------------
(***************************************************************************)
(* Network containment of the browsers of a station daemon                 *)
(* (windows_wfp_broker.rs, windows_containment.rs and the daemon's         *)
(* windows_wfp_provider.rs): for each daemon an elevated broker prepares   *)
(* the runtime mirror its browsers run from and installs filters on the    *)
(* executables of that mirror, the lease.  Filters are durable: only an    *)
(* acknowledged close, or a later broker that finds their owner dead and   *)
(* no process running from the mirror, takes them away.                    *)
(*                                                                         *)
(* A daemon is one process incarnation and serves one profiles root, whose *)
(* mirror and executables are its scope.  Changes of the filters are       *)
(* transactions of the filtering platform, one at a time.                  *)
(***************************************************************************)
EXTENDS FiniteSets

CONSTANTS
    Daemons,
    Scopes,
    ScopeOf      \* the scope of each daemon's profiles root

ASSUME ContainmentAssumption == ScopeOf \in [Daemons -> Scopes]

VARIABLES
    client,      \* the daemon process of each incarnation
    broker,      \* its broker
    request,     \* whether the daemon has asked its broker to close the lease
    reply,       \* the last frame of its broker
    leases,      \* the daemons whose filters are installed
    trees,       \* the scopes whose mirror exists
    browsing     \* the daemons with a living browser, which may outlive them

containmentVars == <<client, broker, request, reply, leases, trees, browsing>>

ContainmentTypeOK ==
    /\ client \in [Daemons -> {"New", "Asking", "Serving", "Failing", "Leaving", "Closing",
                               "Dead"}]
    /\ broker \in [Daemons -> {"None", "Asked", "Reconciled", "Prepared", "Verified",
                               "Installed", "Holding", "Ended"}]
    /\ request \in [Daemons -> BOOLEAN]
    /\ reply \in [Daemons -> {"None", "Granted", "Closed", "Rejected"}]
    /\ leases \subseteq Daemons /\ browsing \subseteq Daemons
    /\ trees \subseteq Scopes

ContainmentInit ==
    /\ client = [d \in Daemons |-> "New"]
    /\ broker = [d \in Daemons |-> "None"]
    /\ request = [d \in Daemons |-> FALSE]
    /\ reply = [d \in Daemons |-> "None"]
    /\ leases = {} /\ trees = {} /\ browsing = {}

Alive(d) == client[d] \notin {"New", "Dead"}
Of(s) == {d \in Daemons : ScopeOf[d] = s}
Peers(d) == Of(ScopeOf[d])

ClientGoes(d, pc) == client' = [client EXCEPT ![d] = pc]
BrokerGoes(d, pc) == broker' = [broker EXCEPT ![d] = pc]
Replies(d, frame) == reply' = [reply EXCEPT ![d] = frame]

\* Who has the mirror of a scope open; no one deletes it then, nor while a browser runs
\* from it.
Holding(d) == \/ broker[d] \in {"Prepared", "Verified", "Installed"}
              \/ client[d] \in {"Serving", "Failing", "Leaving"}
Removable(s, by) == /\ \A d \in Of(s) \ {by} : ~ Holding(d)
                    /\ Of(s) \cap browsing = {}

\* mirror.remove(): it may fail, and a broker acts as its client, if it still can.
MayRemove(d) ==
    \/ UNCHANGED trees
    \/ Removable(ScopeOf[d], d) /\ trees' = trees \ {ScopeOf[d]}

-----------------------------------------------------------------------------
(* reconcile_overlaps *)

\* query_peer_state() and matching_app_process_state(): the process of the owner, by
\* process id and creation time, and the processes that run from its executables.
NoProcess(d) == Peers(d) \cap browsing = {}

\* reconciliation_decision().  Mutant: what runs from the mirror is not looked at.
StaleWhenOwnerDead(d) == ~ Alive(d)
Stale(d) == ~ Alive(d) /\ NoProcess(d)

\* Whose filters may go; a state that cannot be determined keeps them.
Removals == SUBSET {l \in leases : Stale(l)}

-----------------------------------------------------------------------------
(* run_windows_wfp_broker *)

\* The daemon owns its profiles root (ProfilesRootOwnership) when it asks.
Start(d) ==
    /\ client[d] = "New" /\ \A p \in Peers(d) : ~ Alive(p)
    /\ ClientGoes(d, "Asking") /\ BrokerGoes(d, "Asked")
    /\ UNCHANGED <<request, reply, leases, trees, browsing>>

\* The request is refused, or a step before the filters fails.
Refuse(d) ==
    /\ \/ broker[d] \in {"Asked", "Reconciled"} /\ UNCHANGED trees
       \/ broker[d] \in {"Prepared", "Verified"} /\ MayRemove(d)
    /\ BrokerGoes(d, "Ended") /\ Replies(d, "Rejected")
    /\ UNCHANGED <<client, request, leases, browsing>>

\* reconcile_stale_leases()
Reconcile(d) ==
    /\ broker[d] = "Asked"
    /\ \E gone \in Removals : leases' = leases \ gone
    /\ BrokerGoes(d, "Reconciled")
    /\ UNCHANGED <<client, request, reply, trees, browsing>>

\* prepare_mirror_as_peer()
Prepare(d) ==
    /\ broker[d] = "Reconciled"
    /\ trees' = trees \cup {ScopeOf[d]}
    /\ BrokerGoes(d, "Prepared")
    /\ UNCHANGED <<client, request, reply, leases, browsing>>

\* cleanup_stale_mirrors_as_peer(): another mirror, under guard_stale_mirror_cleanup().
CleanUp(d, s) ==
    /\ broker[d] = "Prepared" /\ s \in trees \ {ScopeOf[d]}
    /\ Of(s) \cap leases = {} /\ Removable(s, d)
    /\ trees' = trees \ {s}
    /\ UNCHANGED <<client, broker, request, reply, leases, browsing>>

\* The second look at the daemon: one that is gone is refused.
Verify(d) ==
    /\ broker[d] = "Prepared" /\ Alive(d)
    /\ BrokerGoes(d, "Verified")
    /\ UNCHANGED <<client, request, reply, leases, trees, browsing>>

\* install_paths_for_peer(): filters on the same executables conflict unless they are
\* stale; a conflict ends in Refuse.
Install(d) ==
    /\ broker[d] = "Verified"
    /\ \E gone \in Removals :
          /\ Peers(d) \cap leases \subseteq gone
          /\ leases' = (leases \ gone) \cup {d}
    /\ BrokerGoes(d, "Installed")
    /\ UNCHANGED <<client, request, reply, trees, browsing>>

Grant(d) ==
    /\ broker[d] = "Installed"
    /\ Replies(d, "Granted") /\ BrokerGoes(d, "Holding")
    /\ UNCHANGED <<client, request, leases, trees, browsing>>

\* The grant cannot be written: the filters go first, if they are still there, then the
\* mirror; if they cannot go the mirror stays.
GrantFails(d) ==
    /\ broker[d] = "Installed" /\ ~ Alive(d)
    /\ \/ d \in leases /\ leases' = leases \ {d} /\ MayRemove(d)
       \/ UNCHANGED <<leases, trees>>
    /\ BrokerGoes(d, "Ended")
    /\ UNCHANGED <<client, request, reply, browsing>>

\* hold_broker_lease(): an orderly close.  Filters that cannot be deleted stay.
BrokerCloses(d) ==
    /\ broker[d] = "Holding" /\ request[d]
    /\ \/ d \in leases /\ leases' = leases \ {d} /\ Replies(d, "Closed")
       \/ UNCHANGED leases /\ Replies(d, "Rejected")
    /\ BrokerGoes(d, "Ended")
    /\ UNCHANGED <<client, request, trees, browsing>>

\* The client is gone without a close: its filters stay.
Disconnected(d) ==
    /\ broker[d] = "Holding" /\ ~ request[d] /\ ~ Alive(d)
    /\ BrokerGoes(d, "Ended")
    /\ UNCHANGED <<client, request, reply, leases, trees, browsing>>

BrokerDies(d) ==
    /\ broker[d] \notin {"None", "Ended"}
    /\ BrokerGoes(d, "Ended")
    /\ UNCHANGED <<client, request, reply, leases, trees, browsing>>

-----------------------------------------------------------------------------
(* The daemon: acquire_windows_wfp_lease, run, WindowsWfpContainment *)

\* The mirror is opened and looked at before anything runs from it.
Accept(d) ==
    /\ client[d] = "Asking" /\ reply[d] = "Granted"
    /\ ScopeOf[d] \in trees
    /\ ClientGoes(d, "Serving")
    /\ UNCHANGED <<broker, request, reply, leases, trees, browsing>>

\* A mirror that is gone or not as it should be: the lease is given back.
Decline(d) ==
    /\ client[d] = "Asking" /\ reply[d] = "Granted"
    /\ ClientGoes(d, "Closing") /\ request' = [request EXCEPT ![d] = TRUE]
    /\ UNCHANGED <<broker, reply, leases, trees, browsing>>

Launch(d) ==
    /\ client[d] = "Serving" /\ browsing' = browsing \cup {d}
    /\ UNCHANGED <<client, broker, request, reply, leases, trees>>

\* Browsers of a dead daemon end with its job object, but not at once.
BrowserEnds(d) ==
    /\ d \in browsing /\ browsing' = browsing \ {d}
    /\ UNCHANGED <<client, broker, request, reply, leases, trees>>

\* The lease is lost, or the service failed: no browser is launched any more, and the
\* daemon ends without a close.
Fail(d) ==
    /\ client[d] = "Serving"
    /\ ClientGoes(d, "Failing")
    /\ UNCHANGED <<broker, request, reply, leases, trees, browsing>>

\* The station was shut down.
Finish(d) ==
    /\ client[d] = "Serving"
    /\ ClientGoes(d, "Leaving")
    /\ UNCHANGED <<broker, request, reply, leases, trees, browsing>>

\* close(): the mirror is removed, so no process holds it, before the close is asked for.
Close(d) ==
    /\ client[d] = "Leaving"
    /\ Removable(ScopeOf[d], d) /\ trees' = trees \ {ScopeOf[d]}
    /\ ClientGoes(d, "Closing") /\ request' = [request EXCEPT ![d] = TRUE]
    /\ UNCHANGED <<broker, reply, leases, browsing>>

\* The process ends, for whatever reason: it is done, it was rejected, it has waited long
\* enough, it crashed.
Die(d) ==
    /\ Alive(d)
    /\ ClientGoes(d, "Dead")
    /\ UNCHANGED <<broker, request, reply, leases, trees, browsing>>

DaemonStep(d) ==
    \/ Accept(d) \/ Decline(d) \/ Launch(d) \/ BrowserEnds(d)
    \/ Fail(d) \/ Finish(d) \/ Close(d) \/ Die(d)

BrokerStep(d) ==
    \/ Start(d) \/ Refuse(d) \/ Reconcile(d) \/ Prepare(d)
    \/ (\E s \in Scopes : CleanUp(d, s))
    \/ Verify(d) \/ Install(d) \/ Grant(d) \/ GrantFails(d)
    \/ BrokerCloses(d) \/ Disconnected(d) \/ BrokerDies(d)

ContainmentNext == \E d \in Daemons : DaemonStep(d) \/ BrokerStep(d)

ContainmentSpec == ContainmentInit /\ [][ContainmentNext]_containmentVars

-----------------------------------------------------------------------------
(* Properties *)

\* A browser runs only while filters are installed on its executables, whichever of its
\* daemon and the brokers died ("fail-closed", WindowsContainmentGuard; "Keep WFP active
\* until no process can still hold the exact AppID runtime tree", close()); there is one
\* lease of an executable at a time; and no other broker's clean-up takes the mirror of a
\* serving daemon away.
BrowsersAreConfined ==
    /\ \A d \in browsing : Peers(d) \cap leases # {}
    /\ \A l, m \in leases : ScopeOf[l] = ScopeOf[m] => l = m
    /\ \A d \in Daemons : client[d] = "Serving" => ScopeOf[d] \in trees
=============================================================================
