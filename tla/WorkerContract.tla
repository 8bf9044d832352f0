--------------------------- MODULE WorkerContract ---------------------------
(***************************************************************************)
(* What a browser worker promises to the code that owns it, as that code   *)
(* sees it through the published snapshot and the stopped watch.           *)
(***************************************************************************)
EXTENDS WorkerStates

VARIABLE worker

Init == worker = Spawned

Settle ==
    worker' \in Started(worker) \cup Restarted(worker) \cup Stopped(worker) \cup Released(worker)

Next ==
    \/ Settle
    \/ worker' \in Degraded(worker) \cup Restarting(worker) \cup Closing(worker)

\* A worker that starts, restarts or closes does not stay so forever.
Spec == Init /\ [][Next]_worker
FairSpec == Spec /\ WF_worker(Settle)
=============================================================================
