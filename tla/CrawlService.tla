---------------------------- MODULE CrawlService ----------------------------
(***************************************************************************)
(* The crawl service of the station daemon with one job, its runner, and   *)
(* the collections it executes pages with                                  *)
(* (crates/dig2browser-station/src/crawl.rs over Collection and CrawlJob). *)
(* The runner claims a page, executes it as a collection named after job,  *)
(* page and attempt, and completes or fails the page; an operator cancels, *)
(* the daemon shuts down, crashes and starts again, and writes fail.       *)
(*                                                                         *)
(* One capture is out of the crawl's scope or not (a page that redirects); *)
(* the expiry of the runner's lease is a choice at each use of its token,  *)
(* since nobody else claims pages of the job.                              *)
(***************************************************************************)
EXTENDS CrawlJob

CONSTANTS
    NoTask,
    Links,        \* the links a page may turn out to have
    Redirects,    \* whether a page may lead out of the scope
    MaxFaults,    \* bound: writes that fail
    MaxStarts     \* bound: starts of the daemon

ASSUME ServiceAssumption == NoTask \notin Urls /\ MaxFaults \in Nat /\ MaxStarts \in Nat

VARIABLES
    \* The collections
    begun, outcome, artifact, blob, receipt, phase, accepting, admission, executed, active,
    failures, leaving, pc, faults, starts, stray,
    \* The job
    job,          \* the engine's snapshot, in memory and on disk
    stored,
    \* Its runner
    runner,       \* where the runner is, and with which page
    stop,         \* job.stop and job.execution_cancel, which are set together
    cancelling,   \* "No", "Flags" while cancel() has yet to set the flags, "Done"
    unavailable,
    daemon,       \* "Opening", "Recovering", "Serving", "Stopping", "Settling", "Closing", "Dead"
    \* What the captures turned out to be, and history
    result,       \* of the task of each collection
    outside,      \* captures whose final address is out of scope
    toldComplete  \* the length of the event log a reader was told is complete, or 0

Ids == Urls \X (1..MaxAttempts)

\* execution_cancel is the cancellation flag of every collection the runner executes.
C == INSTANCE Collection WITH
        Tasks <- Urls, MaxActive <- 1, cancelled <- IF stop THEN Ids ELSE {}

collections == <<begun, outcome, artifact, blob, receipt, phase, accepting, admission, executed,
                 active, failures, leaving, pc, starts, stray>>
crawl == <<job, stored>>
control == <<runner, stop, cancelling, unavailable, daemon>>
data == <<result, outside, toldComplete>>
vars == <<collections, faults, crawl, control, data>>

Off == [at |-> "Off"]
Results == {"None", "Captured", "NoCapture", "Cancelled", "Failed"}

TypeOK ==
    /\ C!TypeOK
    /\ job \in Jobs /\ stored \in Jobs
    /\ runner \in {Off, [at |-> "Loop"], [at |-> "Dying"]} \cup
                  [at : {"Call", "Wait", "Complete", "Retry", "GiveUp"}, url : Urls]
    /\ stop \in BOOLEAN /\ unavailable \in BOOLEAN
    /\ cancelling \in {"No", "Flags", "Done"}
    /\ daemon \in {"Opening", "Recovering", "Serving", "Stopping", "Settling", "Closing", "Dead"}
    /\ result \in [Ids -> Results] /\ outside \subseteq Ids
    /\ toldComplete \in Nat

Init ==
    /\ stop = FALSE /\ cancelling = "No" /\ unavailable = FALSE
    /\ C!Init
    /\ job = Created /\ stored = Created
    /\ runner = Off
    /\ daemon = "Opening"
    /\ result = [i \in Ids |-> "None"] /\ outside = {} /\ toldComplete = 0

-----------------------------------------------------------------------------
Alive == daemon # "Dead"
This(u) == <<u, job.attempts[u]>>
Running == Phase(job) = "Running"

Saved(next) == LogFits(next) /\ job' = next /\ stored' = next /\ UNCHANGED faults
\* A save is refused when the log is full, or fails with or without effect.
SaveFails(next) ==
    /\ UNCHANGED job
    /\ \/ ~ LogFits(next) /\ UNCHANGED <<stored, faults>>
       \/ /\ faults < MaxFaults /\ faults' = faults + 1
          /\ stored' \in {stored, next}

Go(at, u) == runner' = [at |-> at, url |-> u]

\* A runner that sees a flag ends and leaves its page in flight.
Continue(at, u) == IF stop THEN runner' = Off ELSE Go(at, u)

RunnerOnly == UNCHANGED <<stop, cancelling, unavailable, daemon, data>>
Elsewhere == UNCHANGED <<collections, faults, crawl>>

-----------------------------------------------------------------------------
(* run_job *)

Claim(u) ==
    /\ Alive /\ runner.at = "Loop" /\ ~ stop /\ Running /\ u \in Claimable(job)
    /\ \/ Saved(Claimed(job, u, 0)) /\ Go("Call", u)
       \/ SaveFails(Claimed(job, u, 0)) /\ runner' = [at |-> "Dying"]
    /\ RunnerOnly /\ UNCHANGED collections

RunnerEnds ==
    /\ Alive /\ runner.at = "Loop"
    /\ stop \/ ~ Running \/ Claimable(job) = {}
    /\ runner' = Off
    /\ RunnerOnly /\ Elsewhere

\* execute_page(): earlier attempts may have left a capture behind.
\* Mutant: the attempt right before is not looked at.
EarlierButLast(u) == {<<u, k>> : k \in 1 .. (job.attempts[u] - 2)}
Earlier(u) == {<<u, k>> : k \in 1 .. (job.attempts[u] - 1)}

\* What reconcile_completed() and captured_page_from_receipt() make of a collection:
\* nothing, a page, or an error.
Reconciled(i) ==
    IF i \in failures THEN "Retry"
    ELSE IF outcome[i] = "Unused" \/ receipt[i] = NoTask THEN "Nothing"
    ELSE IF outcome[i] \notin {"Open", "Succeeded"} \/ ~ C!Backed(i) THEN "Retry"
    ELSE IF i \in outside THEN "GiveUp" ELSE "Complete"

FirstFound(u) ==
    LET found == {i \in Earlier(u) : Reconciled(i) # "Nothing"}
    IN  IF found = {} THEN "Nothing"
        ELSE Reconciled(CHOOSE i \in found : \A j \in found : i[2] <= j[2])

\* (The ledger has the ending of whatever is found, unless that failed to be written.)
CallPrior ==
    /\ Alive /\ runner.at = "Call" /\ FirstFound(runner.url) # "Nothing"
    /\ Continue(FirstFound(runner.url), runner.url)
    /\ RunnerOnly /\ Elsewhere

\* The collection of this attempt cannot be executed.
CallRefused ==
    /\ Alive /\ runner.at = "Call" /\ FirstFound(runner.url) = "Nothing"
    /\ ~ accepting \/ outcome[This(runner.url)] # "Unused"
    /\ Continue("Retry", runner.url)
    /\ RunnerOnly /\ Elsewhere

Call ==
    /\ Alive /\ runner.at = "Call" /\ FirstFound(runner.url) = "Nothing"
    /\ Go("Wait", runner.url) /\ RunnerOnly
    /\ C!Admit(This(runner.url), runner.url, TRUE)
    /\ UNCHANGED crawl

\* The collection ends as it does when nobody is there to be told.
NoLease ==
    /\ Alive /\ runner.at = "Wait"
    /\ Continue("Retry", runner.url) /\ RunnerOnly
    /\ C!Refuse \/ C!StartFails
    /\ UNCHANGED crawl

\* execute() returns.  A result is returned even when the ledger says Failed, as long as
\* that could be written.
Judged(i) ==
    IF i \in failures THEN "Retry"
    ELSE CASE result[i] = "Captured" -> IF i \in outside THEN "GiveUp" ELSE "Complete"
           [] result[i] = "NoCapture" -> "GiveUp"
           [] OTHER -> "Retry"

Return ==
    /\ Alive /\ runner.at = "Wait" /\ This(runner.url) \in executed
    /\ pc[This(runner.url)] = "Ended"
    /\ Continue(Judged(This(runner.url)), runner.url)
    /\ RunnerOnly /\ Elsewhere

\* complete(), or complete_recovered() when the lease has expired.
CompletePage ==
    /\ Alive /\ runner.at = "Complete"
    /\ \E links \in Links : \E new \in Discoveries(job, runner.url, links) :
          LET next == Completed(job, runner.url, new)
          IN  IF ~ Mutable(job) THEN runner' = [at |-> "Dying"] /\ UNCHANGED <<faults, crawl>>
              ELSE \/ Saved(next) /\ runner' = [at |-> "Loop"]
                   \/ SaveFails(next) /\ runner' = [at |-> "Dying"]
    /\ RunnerOnly /\ UNCHANGED collections

\* fail(), or recover_leases() when the lease has expired.
FailPage ==
    /\ Alive /\ runner.at \in {"Retry", "GiveUp"}
    /\ \E next \in {Failed(job, runner.url, runner.at = "Retry"), Recovered(job, {runner.url})} :
          IF ~ Mutable(job) THEN runner' = [at |-> "Dying"] /\ UNCHANGED <<faults, crawl>>
          ELSE \/ Saved(next) /\ runner' = [at |-> "Loop"]
               \/ SaveFails(next) /\ runner' = [at |-> "Dying"]
    /\ RunnerOnly /\ UNCHANGED collections

\* run_job() returned an error: persist_runner_failure().
Die ==
    /\ Alive /\ runner.at = "Dying"
    /\ runner' = Off
    /\ IF cancelling = "Done" THEN UNCHANGED <<crawl, faults, unavailable, stop>>
       ELSE /\ stop' = TRUE
            /\ IF ~ Running THEN UNCHANGED <<crawl, faults, unavailable>>
               ELSE \/ Saved(JobFailed(job)) /\ UNCHANGED unavailable
                    \/ SaveFails(JobFailed(job)) /\ unavailable' = TRUE
    /\ UNCHANGED <<collections, cancelling, daemon, data>>

-----------------------------------------------------------------------------
(* What goes on in the collections *)

Collect ==
    /\ Alive
    /\ UNCHANGED <<control, toldComplete>>
    /\ \/ C!Start /\ UNCHANGED <<result, outside>>
       \/ \E i \in Ids, r \in Results \ {"None"} :
             /\ C!TaskEnds(i, r)
             /\ result' = [result EXCEPT ![i] = r]
             /\ \/ UNCHANGED outside
                \/ Redirects /\ r = "Captured" /\ outside' = outside \cup {i}
       \/ \E i \in Ids : C!Persist(i) /\ UNCHANGED <<result, outside>>
    /\ UNCHANGED crawl

-----------------------------------------------------------------------------
(* Clients *)

\* cancel(): the engine first, the flags after its lock is released.
Cancel ==
    /\ daemon \in {"Serving", "Stopping"} /\ cancelling = "No" /\ ~ unavailable /\ Running
    /\ \/ Saved(Cancelled(job)) /\ cancelling' = "Flags"
       \/ SaveFails(Cancelled(job)) /\ UNCHANGED cancelling
    /\ UNCHANGED <<runner, stop, unavailable, daemon, data, collections>>

SetFlags ==
    /\ Alive /\ cancelling = "Flags"
    /\ cancelling' = "Done" /\ stop' = TRUE
    /\ UNCHANGED <<runner, unavailable, daemon, data>> /\ Elsewhere

\* read_events(), up to the end of the log.
IsTerminal == ~ Running

ReadEvents ==
    /\ Alive /\ daemon # "Opening" /\ ~ unavailable
    /\ IsTerminal /\ toldComplete = 0
    /\ toldComplete' = job.events
    /\ UNCHANGED <<control, result, outside>> /\ Elsewhere

-----------------------------------------------------------------------------
(* Start and shutdown *)

\* reconcile_completed() of a collection with a receipt gives it its ending, if it lacks one.
LedgerKeeps == UNCHANGED <<begun, artifact, blob, receipt, phase, accepting, admission, executed,
                           active, failures, leaving, pc, starts, stray>>
Succeeds(i) == outcome' = [outcome EXCEPT ![i] = "Succeeded"] /\ LedgerKeeps
SuccessFails(i) ==
    /\ outcome[i] = "Open" /\ faults < MaxFaults /\ faults' = faults + 1
    /\ Succeeds(i) \/ UNCHANGED collections

\* reconcile_in_flight() and recover_leases(), at start and in shutdown().
Settled(u, found) ==
    \/ found = "Retry" /\ daemon' = "Dead" /\ UNCHANGED <<crawl, collections, faults>>
    \/ found # "Retry" /\ daemon' = "Dead" /\ SuccessFails(This(u)) /\ UNCHANGED crawl
    \/ found = "GiveUp" /\ daemon' = "Dead" /\ Succeeds(This(u)) /\ UNCHANGED <<crawl, faults>>
    \/ /\ found = "Complete" /\ Succeeds(This(u))
       /\ \E links \in Links : \E new \in Discoveries(job, u, links) :
             \/ Saved(Completed(job, u, new)) /\ UNCHANGED daemon
             \/ SaveFails(Completed(job, u, new)) /\ daemon' = "Dead"

Settle(next) ==
    LET flying == In(job, "InFlight")
        found == {u \in flying : Reconciled(This(u)) # "Nothing"}
    IN  IF ~ Running \/ (daemon = "Settling" /\ (cancelling = "Done" \/ unavailable))
        THEN daemon' = next /\ UNCHANGED <<crawl, collections, faults>>
        ELSE \/ \E u \in found : Settled(u, Reconciled(This(u)))
             \/ /\ found = {}
                /\ \/ Saved(Recovered(job, flying)) /\ daemon' = next
                   \/ SaveFails(Recovered(job, flying)) /\ daemon' = "Dead"
                /\ UNCHANGED collections

Open ==
    /\ daemon = "Opening" /\ Settle("Recovering")
    /\ UNCHANGED <<runner, stop, cancelling, unavailable, data>>

\* collections.reconcile_successor(), then start_runners().
RecoverCollections ==
    /\ daemon = "Recovering"
    /\ UNCHANGED <<crawl, control, data>>
    /\ \E i \in Ids : C!Recover(i) \/ C!Abandon(i)

Serve ==
    /\ daemon = "Recovering" /\ daemon' = "Serving"
    /\ runner' = IF Running THEN [at |-> "Loop"] ELSE Off
    /\ UNCHANGED <<crawl, stop, cancelling, unavailable, data>>
    /\ C!Serve

Stop ==
    /\ daemon = "Serving" /\ daemon' = "Stopping"
    /\ stop' = TRUE
    /\ UNCHANGED <<runner, cancelling, unavailable, data>> /\ Elsewhere

\* The runner ended in time, or was aborted where it waits for its collection.
Drained ==
    /\ daemon = "Stopping" /\ runner = Off
    /\ daemon' = "Settling"
    /\ UNCHANGED <<runner, stop, cancelling, unavailable, data>> /\ Elsewhere

Abort ==
    /\ daemon = "Stopping" /\ runner.at = "Wait"
    /\ daemon' = "Settling" /\ runner' = Off
    /\ UNCHANGED <<stop, cancelling, unavailable, data, crawl>>
    /\ C!Refuse \/ C!DropExecute(This(runner.url))

SettleJob ==
    /\ daemon = "Settling" /\ Settle("Closing")
    /\ UNCHANGED <<runner, stop, cancelling, unavailable, data>>

\* collections.shutdown(), which has nothing of the crawl in its table.
CloseCollections ==
    /\ daemon = "Closing"
    /\ UNCHANGED <<crawl, runner, stop, cancelling, unavailable, data>>
    /\ \/ C!Close /\ UNCHANGED daemon
       \/ C!Drain /\ UNCHANGED daemon
       \/ C!Drained /\ daemon' = "Dead"

\* A crash at any moment, or the start after a shutdown.
Restart ==
    /\ stop' = FALSE
    /\ job' = stored /\ UNCHANGED stored
    /\ runner' = Off /\ unavailable' = FALSE /\ cancelling' = "No"
    /\ daemon' = "Opening"
    /\ UNCHANGED data
    /\ C!Restart

RunnerStep ==
    \/ \E u \in Urls : Claim(u)
    \/ RunnerEnds \/ CallPrior \/ CallRefused \/ Call \/ NoLease \/ Return
    \/ CompletePage \/ FailPage \/ Die \/ Collect

Next ==
    \/ RunnerStep
    \/ Cancel \/ SetFlags \/ ReadEvents
    \/ Open \/ RecoverCollections \/ Serve \/ Stop \/ Drained \/ Abort \/ SettleJob
    \/ CloseCollections \/ Restart

Fairness == WF_vars(RunnerStep) /\ WF_vars(SetFlags)

Spec == Init /\ [][Next]_vars /\ Fairness

-----------------------------------------------------------------------------
(* Properties *)

\* A receipt is only there with what it vouches for, on disk at every moment, and what is
\* executed for the crawl does not succeed without one (persist_collection_result()).
ReceiptsAreBacked == C!ReceiptsAreBacked

\* A page whose capture is durable is not fetched again, whatever crashed, failed or was
\* aborted after the capture (execute_page(), reconcile_in_flight()).
PagesFetchedOnce ==
    \A i, j \in Ids :
        (pc[i] = "Running" /\ i[1] = j[1] /\ i # j) => receipt[j] = NoTask

\* The log of a job that a reader was told is complete never grows, over a late completion,
\* a failing runner, a write that failed with effect or a restart (read_events()).
ReadersAreTold ==
    toldComplete # 0 => job.events = toldComplete /\ stored.events = toldComplete

\* A step keeps how each collection ended (interrupt_collection(), reconcile_successor()).
EndsAreKept == \A i \in Ids : outcome[i] \in C!Ends => outcome'[i] = outcome[i]

\* While the daemon serves, the job gets to its end.
JobAtEnd == daemon = "Serving" => ~ Running \/ unavailable
JobEnds == []<>JobAtEnd

\* Violated by the code: every page that is reported as a success has its capture.
SuccessHasArtifact ==
    \A u \in In(stored, "Completed") :
        \E k \in 1..MaxAttempts : receipt[<<u, k>>] = u /\ C!Backed(<<u, k>>)

\* Violated by the code: a start or a shutdown gets past the pages in flight, when no
\* write failed.
SettlesAlways ==
    faults = 0 =>
        \A u \in In(job, "InFlight") :
            daemon \in {"Opening", "Settling"} => Reconciled(This(u)) \in {"Nothing", "Complete"}
=============================================================================
