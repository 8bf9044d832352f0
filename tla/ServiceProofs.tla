--------------------------- MODULE ServiceProofs ---------------------------
(***************************************************************************)
(* Safety of what a station daemon runs next to its leases: CrawlService,  *)
(* for any set of pages, any budget and any number of failing writes and   *)
(* starts; DaemonRun, for any number of operations and tunnels; and        *)
(* LiveSessions with StationServer, for any number of connections and of   *)
(* sessions.                                                               *)
(*                                                                         *)
(* None of it is inductive.  That a durable capture is not fetched again   *)
(* needs to know that the runner looked at every earlier attempt (Alone)   *)
(* and that no later attempt was ever begun, not even one that only the    *)
(* snapshot on disk knows (Attempts, Ledger); that a receipt is backed     *)
(* needs the order of the writes (Writing) by the one task there is        *)
(* (Busy); that a complete log stays needs memory and disk to agree when   *)
(* a job is over (Final), and nobody to change it then (Holding).          *)
(*                                                                         *)
(* That filters outlive browsers needs the gate: who queues for it and     *)
(* what the one that was let in may rely on (Gated, InOrder).  That a      *)
(* reader is owned needs to know that every await of a begin() looks at    *)
(* the table again (LiveInv), and that the services outlive their users    *)
(* that a connection the server has dropped is in no await (ServerInv).    *)
(***************************************************************************)
EXTENDS CrawlService, DaemonRun, StationServer, FiniteSetTheorems, SequenceTheorems, TLAPS

\* Where a runner has a page.
Pages == {"Call", "Wait", "Complete", "Retry", "GiveUp"}
Idle == {"None", "Ended"}

\* The snapshot on disk is never behind the one in memory.
Attempts ==
    /\ Sound(job) /\ Sound(stored)
    /\ \A u \in Urls : job.attempts[u] <= stored.attempts[u]

\* A job that is over is the same on disk, and only of such a job was a reader told.
Final == (~ Running => stored = job) /\ (toldComplete # 0 => ~ Running)

\* The page of the runner is in flight, and the job is not over for its failures.
Holding ==
    /\ runner.at \in Pages =>
           /\ job.page[runner.url] = "InFlight"
           /\ Cardinality(In(job, "Failed")) < MaxFailures
    /\ daemon \notin {"Serving", "Stopping"} => runner = Off

\* Only the collection that the runner waits for is on its way.
Busy ==
    /\ admission # C!Nobody =>
           /\ runner.at = "Wait"
           /\ admission = [at |-> "Lease", id |-> This(runner.url), task |-> runner.url,
                           execute |-> TRUE]
           /\ outcome[This(runner.url)] = "Unused"
    /\ \A i \in Ids : pc[i] \notin Idle =>
           /\ runner.at = "Wait" /\ i = This(runner.url) /\ admission = C!Nobody
           /\ i \in executed /\ outcome[i] = "Open"
    /\ active = {}

\* What is begun, and what is not.
Ledger ==
    \A i \in Ids :
        /\ outcome[i] = "Unused" =>
               receipt[i] = NoTask /\ i \notin artifact /\ i \notin blob /\ i \notin executed
        /\ outcome[i] # "Unused" => begun[i] \in Urls /\ i[2] <= job.attempts[i[1]]

\* How far the writes of a collection are.
Writing ==
    \A i \in Ids :
        /\ pc[i] \in {"Running", "Blob", "Reference", "Receipt", "Failed", "Cancelled"} =>
               receipt[i] = NoTask
        /\ pc[i] \in {"Reference", "Receipt"} => i \in blob
        /\ pc[i] = "Receipt" => i \in artifact
        /\ pc[i] = "Succeeded" => receipt[i] # NoTask
        /\ pc[i] = "Disown" => faults > 0
        /\ pc[i] # "Interrupted"

\* The runner waits for the only attempt that may have a receipt.
Alone ==
    runner.at = "Wait" =>
        \A i \in Ids : i[1] = runner.url /\ i # This(runner.url) => receipt[i] = NoTask

\* Once the daemon is past its recovery, it knows of every open collection.
Known == phase # "Recovering" => C!Open \subseteq executed \cup stray

CrawlInv ==
    /\ TypeOK /\ Attempts /\ Final /\ Holding /\ Busy /\ Ledger /\ Writing /\ Alone /\ Known
    /\ ReceiptsAreBacked /\ ReadersAreTold

-----------------------------------------------------------------------------
(* The job and its runner *)

\* How many pages have failed is a number.
LEMMA FailuresAreCounted ==
    ASSUME NEW j PROVE Cardinality(In(j, "Failed")) \in Nat /\ MaxFailures \in Nat
<1>1. In(j, "Failed") \subseteq Urls
  BY DEF In
<1> QED  BY <1>1, PagesAreFinite, JobAssumption DEF JobAssumption

\* A claim puts its page in flight, fails none, and is made before the failures are spent.
LEMMA ClaimHolds ==
    ASSUME NEW j, Sound(j), NEW u \in Claimable(j)
    PROVE  /\ Claimed(j, u, 0).page[u] = "InFlight"
           /\ In(Claimed(j, u, 0), "Failed") = In(j, "Failed")
           /\ Cardinality(In(j, "Failed")) < MaxFailures
<1>1. u \in Urls /\ j.page[u] = "Pending"
  BY DEF Claimable, In
<1>2. Cardinality(In(j, "Failed")) < MaxFailures
  BY FailuresAreCounted DEF Claimable
<1>3. Claimed(j, u, 0).page = [j.page EXCEPT ![u] = "InFlight"]
  BY DEF Claimed, Sound, Jobs
<1>4. j.page \in [Urls -> PageStates]
  BY DEF Sound, Jobs
<1> QED  BY <1>1, <1>2, <1>3, <1>4 DEF In

\* The end of a job leaves the state of its pages alone.
LEMMA EndHolds ==
    ASSUME NEW j, Sound(j)
    PROVE  Cancelled(j).page = j.page /\ JobFailed(j).page = j.page
  BY DEF Cancelled, JobFailed, Sound, Jobs

\* A job with a page in flight and failures left is over only if somebody ended it.
LEMMA RunningMeans ==
    ASSUME NEW j, NEW u \in Urls, j.page[u] = "InFlight",
           Cardinality(In(j, "Failed")) < MaxFailures, Mutable(j)
    PROVE  Phase(j) = "Running"
<1>1. u \in In(j, "InFlight")
  BY DEF In
<1>2. ~ (Cardinality(In(j, "Failed")) >= MaxFailures)
  BY FailuresAreCounted
<1> QED  BY <1>1, <1>2 DEF Phase, Mutable

\* A save, done or failed.
Stores(next) ==
    \/ job' = next /\ stored' = next
    \/ job' = job /\ stored' \in {stored, next}

\* Either way of a save, of a snapshot that supersedes the job's.
LEMMA SavesWrite ==
    ASSUME NEW next, Saved(next) \/ SaveFails(next) PROVE Stores(next)
  BY DEF Saved, SaveFails, Stores

\* What moves the job is an operation on a job that still runs, or a restart.
JobMoves ==
    \/ UNCHANGED crawl
    \/ job' = stored /\ stored' = stored
    \/ Running /\ \E next : Supersedes(job, next) /\ Stores(next)

\* So does settling, whether it completes a page or recovers the leases.
LEMMA SettlingMoves ==
    ASSUME Attempts, NEW d, Settle(d) PROVE JobMoves
<1>1. CASE UNCHANGED crawl
  BY <1>1 DEF JobMoves
<1>2. ASSUME Running, NEW u \in In(job, "InFlight"), NEW links \in Links,
             NEW new \in Discoveries(job, u, links),
             Saved(Completed(job, u, new)) \/ SaveFails(Completed(job, u, new))
      PROVE  JobMoves
  BY <1>2, CompletedFollows, SavesWrite DEF JobMoves, Attempts, In
<1>3. ASSUME Running,
             \/ Saved(Recovered(job, In(job, "InFlight")))
             \/ SaveFails(Recovered(job, In(job, "InFlight")))
      PROVE  JobMoves
  BY <1>3, RecoveredFollows, SavesWrite DEF JobMoves, Attempts
<1>4. ASSUME Running, NEW u \in In(job, "InFlight"), Settled(u, Reconciled(This(u)))
      PROVE  JobMoves
  BY <1>1, <1>2, <1>4 DEF Settled
<1> QED  BY <1>1, <1>3, <1>4 DEF Settle

\* The runner has a page of the job, which is in flight; and unless somebody ended it, the
\* job runs.
LEMMA PageIsHeld ==
    ASSUME TypeOK, Holding, runner.at \in Pages
    PROVE  /\ runner.url \in Urls /\ job.page[runner.url] = "InFlight"
           /\ Mutable(job) => Running
<1>1. runner \in {Off, [at |-> "Loop"], [at |-> "Dying"]} \cup [at : Pages, url : Urls]
  BY DEF TypeOK, Pages
<1>2. runner \notin {Off, [at |-> "Loop"], [at |-> "Dying"]}
  BY DEF Off, Pages
<1>3. runner.url \in Urls
  BY <1>1, <1>2
<1> QED  BY <1>3, RunningMeans DEF Holding, Running

\* A step of the runner, a client, a start or a shutdown moves the job, if at all, by an
\* operation on a job that runs; and only of a job that is over is a reader told.
LEMMA StepsMoveTheJob ==
    ASSUME TypeOK, Attempts, Holding, Next
    PROVE  /\ JobMoves
           /\ \/ UNCHANGED toldComplete
              \/ UNCHANGED crawl /\ ~ Running /\ toldComplete' = job.events
<1>1. ASSUME NEW u \in Urls, Claim(u) PROVE JobMoves /\ UNCHANGED toldComplete
  <2>1. Supersedes(job, Claimed(job, u, 0))
    BY <1>1, ClaimedFollows DEF Claim, Attempts
  <2> QED  BY <1>1, <2>1, SavesWrite DEF Claim, JobMoves, RunnerOnly, data
<1>2. ASSUME CompletePage PROVE JobMoves /\ UNCHANGED toldComplete
  <2>1. CASE UNCHANGED crawl
    BY <1>2, <2>1 DEF CompletePage, JobMoves, RunnerOnly, data
  <2>2. ASSUME NEW links \in Links, NEW new \in Discoveries(job, runner.url, links), Mutable(job),
               Saved(Completed(job, runner.url, new)) \/ SaveFails(Completed(job, runner.url, new))
        PROVE  JobMoves
    <3>1. runner.url \in Urls /\ job.page[runner.url] = "InFlight" /\ Running
      BY <1>2, <2>2, PageIsHeld DEF CompletePage, Pages
    <3> QED  BY <2>2, <3>1, CompletedFollows, SavesWrite DEF JobMoves, Attempts
  <2> QED  BY <1>2, <2>1, <2>2 DEF CompletePage, RunnerOnly, data
<1>3. ASSUME FailPage PROVE JobMoves /\ UNCHANGED toldComplete
  <2>1. CASE UNCHANGED crawl
    BY <1>3, <2>1 DEF FailPage, JobMoves, RunnerOnly, data
  <2>2. ASSUME NEW next \in {Failed(job, runner.url, runner.at = "Retry"),
                             Recovered(job, {runner.url})},
               Mutable(job), Saved(next) \/ SaveFails(next)
        PROVE  JobMoves
    <3>1. runner.url \in Urls /\ job.page[runner.url] = "InFlight" /\ Running
      BY <1>3, <2>2, PageIsHeld DEF FailPage, Pages
    <3>2. Supersedes(job, Failed(job, runner.url, runner.at = "Retry"))
      BY <3>1, FailedFollows DEF Attempts
    <3>3. Supersedes(job, Recovered(job, {runner.url}))
      BY <3>1, RecoveredFollows DEF Attempts, In
    <3> QED  BY <2>2, <3>1, <3>2, <3>3, SavesWrite DEF JobMoves
  <2> QED  BY <1>3, <2>1, <2>2 DEF FailPage, RunnerOnly, data
<1>4. ASSUME Die PROVE JobMoves /\ UNCHANGED toldComplete
  <2>1. Supersedes(job, JobFailed(job))
    BY EndFollows DEF Attempts
  <2> QED  BY <1>4, <2>1, SavesWrite DEF Die, JobMoves, data
<1>5. ASSUME Cancel PROVE JobMoves /\ UNCHANGED toldComplete
  <2>1. Supersedes(job, Cancelled(job))
    BY EndFollows DEF Attempts
  <2> QED  BY <1>5, <2>1, SavesWrite DEF Cancel, JobMoves, data
<1>6. CASE Open \/ SettleJob
  BY <1>6, SettlingMoves DEF Open, SettleJob, data
<1>7. CASE ReadEvents
  BY <1>7 DEF ReadEvents, Elsewhere, IsTerminal, JobMoves
<1>8. CASE Restart
  BY <1>8 DEF Restart, JobMoves, data
<1>9. CASE \/ RunnerEnds \/ CallPrior \/ CallRefused \/ Call \/ NoLease \/ Return \/ Collect
           \/ SetFlags \/ RecoverCollections \/ Serve \/ Stop \/ Drained \/ Abort
           \/ CloseCollections
  BY <1>9 DEF RunnerEnds, CallPrior, CallRefused, Call, NoLease, Return, Collect, SetFlags,
              RecoverCollections, Serve, Stop, Drained, Abort, CloseCollections, RunnerOnly,
              Elsewhere, JobMoves, data
<1> QED
  BY <1>1, <1>2, <1>3, <1>4, <1>5, <1>6, <1>7, <1>8, <1>9 DEF Next, RunnerStep

\* So the snapshots stay sound and in order, a job that is over stays as it is on disk, and
\* what a reader was told stays true.
LEMMA TheJobIsKept ==
    ASSUME TypeOK, Attempts, Holding, Final, ReadersAreTold, Next
    PROVE  Attempts' /\ Final' /\ ReadersAreTold'
<1>1. /\ JobMoves
      /\ \/ UNCHANGED toldComplete
         \/ UNCHANGED crawl /\ ~ Running /\ toldComplete' = job.events
  BY StepsMoveTheJob
<1>2. CASE UNCHANGED crawl
  BY <1>1, <1>2 DEF crawl, Attempts, Final, ReadersAreTold, Running
<1>3. CASE job' = stored /\ stored' = stored /\ UNCHANGED toldComplete
  <2>1. \A u \in Urls : stored.attempts[u] \in Nat
    BY DEF Attempts, Sound, Jobs
  <2> QED  BY <1>3, <2>1 DEF Attempts, Final, ReadersAreTold, Running
<1>4. ASSUME Running, NEW next, Supersedes(job, next), Stores(next), UNCHANGED toldComplete
      PROVE  Attempts' /\ Final' /\ ReadersAreTold'
  <2>1. \A u \in Urls : /\ job.attempts[u] \in Nat /\ next.attempts[u] \in Nat
                        /\ job.attempts[u] <= next.attempts[u]
    BY <1>4 DEF Attempts, Supersedes, Sound, Jobs
  <2>2. toldComplete' = 0
    BY <1>4 DEF Final
  <2> QED  BY <1>4, <2>1, <2>2 DEF Stores, Attempts, Supersedes, Final, ReadersAreTold, Running
<1> QED  BY <1>1, <1>2, <1>3, <1>4 DEF JobMoves, crawl

\* What is made of a collection, and of those before.
LEMMA Verdicts ==
    /\ \A i : Reconciled(i) \in {"Nothing", "Retry", "GiveUp", "Complete"}
    /\ \A i : Judged(i) \in {"Retry", "GiveUp", "Complete"}
    /\ \A u : FirstFound(u) \in {"Nothing", "Retry", "GiveUp", "Complete"}
<1>1. \A i : Reconciled(i) \in {"Nothing", "Retry", "GiveUp", "Complete"}
  BY DEF Reconciled
<1>2. \A i : Judged(i) \in {"Retry", "GiveUp", "Complete"}
  BY DEF Judged
<1> QED  BY <1>1, <1>2 DEF FirstFound

\* The runner leaves a page for another state only by its own steps; a cancellation and the
\* end of the daemon's service do not touch the page.
LEMMA ThePageIsHeld ==
    ASSUME TypeOK, Attempts, Holding, Next PROVE Holding'
<1>1. ASSUME NEW u \in Urls, Claim(u) PROVE Holding'
  <2>1. /\ u \in Claimable(job) /\ UNCHANGED daemon /\ daemon \in {"Serving", "Stopping"}
        /\ \/ job' = Claimed(job, u, 0) /\ runner' = [at |-> "Call", url |-> u]
           \/ runner' = [at |-> "Dying"]
    BY <1>1 DEF Claim, Saved, Go, RunnerOnly, Holding, Off
  <2>2. /\ Claimed(job, u, 0).page[u] = "InFlight"
        /\ Cardinality(In(Claimed(job, u, 0), "Failed")) < MaxFailures
    BY <2>1, ClaimHolds DEF Attempts
  <2> QED  BY <2>1, <2>2 DEF Holding, Pages
<1>2. CASE CallPrior \/ CallRefused \/ Call \/ NoLease \/ Return
  <2>1. /\ UNCHANGED <<job, daemon>> /\ runner.at \in Pages
        /\ \/ runner' = Off \/ \E at \in Pages : runner' = [at |-> at, url |-> runner.url]
    BY <1>2, Verdicts DEF CallPrior, CallRefused, Call, NoLease, Return, Continue, Go, RunnerOnly,
                          Elsewhere, crawl, Pages
  <2>2. daemon \in {"Serving", "Stopping"}
    BY <2>1 DEF Holding, Off, Pages
  <2> QED  BY <2>1, <2>2 DEF Holding, Off, Pages
<1>3. CASE CompletePage \/ FailPage
  <2>1. UNCHANGED daemon /\ runner.at \in Pages /\ runner' \in {[at |-> "Dying"], [at |-> "Loop"]}
    BY <1>3 DEF CompletePage, FailPage, RunnerOnly, Pages
  <2>2. daemon \in {"Serving", "Stopping"}
    BY <2>1 DEF Holding, Off, Pages
  <2> QED  BY <2>1, <2>2 DEF Holding, Off, Pages
<1>4. CASE RunnerEnds \/ Die
  BY <1>4 DEF RunnerEnds, Die, RunnerOnly, Holding, Off, Pages
<1>5. CASE Cancel
  <2>1. /\ UNCHANGED <<runner, daemon>>
        /\ job' = job \/ job' = Cancelled(job)
    BY <1>5 DEF Cancel, Saved, SaveFails
  <2>2. Cancelled(job).page = job.page
    BY EndHolds DEF Attempts
  <2> QED  BY <2>1, <2>2 DEF Holding, In
<1>6. CASE Collect \/ SetFlags \/ ReadEvents
  BY <1>6 DEF Collect, SetFlags, ReadEvents, Elsewhere, crawl, control, Holding
<1>7. CASE Open \/ SettleJob
  BY <1>7 DEF Open, SettleJob, Holding, Off, Pages
<1>8. CASE RecoverCollections \/ Stop
  BY <1>8 DEF RecoverCollections, Stop, Elsewhere, crawl, control, Holding
<1>9. CASE Serve \/ Drained \/ Abort \/ CloseCollections \/ Restart
  BY <1>9 DEF Serve, Drained, Abort, CloseCollections, Restart, Elsewhere, crawl, Holding, Off,
              Pages
<1> QED
  BY <1>1, <1>2, <1>3, <1>4, <1>5, <1>6, <1>7, <1>8, <1>9 DEF Next, RunnerStep

-----------------------------------------------------------------------------
(* Types *)

ControlTypes ==
    /\ runner \in {Off, [at |-> "Loop"], [at |-> "Dying"]} \cup [at : Pages, url : Urls]
    /\ stop \in BOOLEAN /\ unavailable \in BOOLEAN
    /\ cancelling \in {"No", "Flags", "Done"}
    /\ daemon \in {"Opening", "Recovering", "Serving", "Stopping", "Settling", "Closing", "Dead"}
    /\ result \in [Ids -> Results] /\ outside \subseteq Ids
    /\ toldComplete \in Nat

\* The parts of the type invariant.
LEMMA TypesAre == TypeOK <=> C!TypeOK /\ job \in Jobs /\ stored \in Jobs /\ ControlTypes
  BY DEF TypeOK, ControlTypes, Pages

\* The runner, the daemon and what is known of the captures keep their types.
LEMMA ControlIsTyped ==
    ASSUME TypeOK, Attempts, Holding, Next PROVE ControlTypes'
<1> ControlTypes
  BY TypesAre
<1>1. CASE \/ \E u \in Urls : Claim(u)
           \/ RunnerEnds \/ CallPrior \/ CallRefused \/ Call \/ NoLease \/ Return
           \/ CompletePage \/ FailPage
  <2>1. /\ UNCHANGED <<stop, cancelling, unavailable, daemon, data>>
    BY <1>1 DEF Claim, RunnerEnds, CallPrior, CallRefused, Call, NoLease, Return, CompletePage,
                FailPage, RunnerOnly
  <2>2. \/ runner' \in {Off, [at |-> "Loop"], [at |-> "Dying"]}
        \/ \E at \in Pages, u \in Urls : runner' = [at |-> at, url |-> u]
    BY <1>1, Verdicts, PageIsHeld
       DEF Claim, RunnerEnds, CallPrior, CallRefused, Call, NoLease, Return, CompletePage,
           FailPage, Continue, Go, Pages, Claimable, In
  <2> QED  BY <2>1, <2>2 DEF ControlTypes, data
<1>2. CASE Die \/ Cancel \/ SetFlags
  BY <1>2 DEF Die, Cancel, SetFlags, data, ControlTypes
<1>3. CASE Collect
  BY <1>3 DEF Collect, control, Results, ControlTypes
<1>4. CASE ReadEvents
  BY <1>4 DEF ReadEvents, control, ControlTypes, TypeOK, Jobs
<1>5. CASE Open \/ SettleJob
  BY <1>5 DEF Open, SettleJob, Settle, Settled, data, ControlTypes
<1>6. CASE RecoverCollections \/ Serve \/ Stop \/ Drained \/ Abort \/ CloseCollections \/ Restart
  BY <1>6 DEF RecoverCollections, Serve, Stop, Drained, Abort, CloseCollections, Restart, control,
              data, ControlTypes
<1> QED
  BY <1>1, <1>2, <1>3, <1>4, <1>5, <1>6 DEF Next, RunnerStep

\* The collection of a runner's page is one of those there are.
LEMMA ThisIsAttempt ==
    ASSUME TypeOK, Attempts, Holding, runner.at \in Pages PROVE This(runner.url) \in Ids
<1>1. /\ runner.url \in Urls /\ job.attempts[runner.url] \in Nat /\ MaxAttempts \in Nat
      /\ 0 < job.attempts[runner.url] /\ job.attempts[runner.url] <= MaxAttempts
  BY PageIsHeld, JobAssumption DEF JobAssumption, Attempts, Sound, Jobs
<1> QED  BY <1>1 DEF This, Ids

\* What a step does to the collections: nothing, or one of their own steps, or the ending
\* that a reconciled receipt gives to one.
CollectionsMove ==
    \/ UNCHANGED collections
    \/ C!Admit(This(runner.url), runner.url, TRUE) /\ runner.at = "Call"
    \/ C!Refuse \/ C!StartFails \/ C!Start
    \/ \E i \in Ids, r \in Results \ {"None"} : C!TaskEnds(i, r)
    \/ \E i \in Ids : C!Persist(i) \/ C!Recover(i) \/ C!Abandon(i)
    \/ C!DropExecute(This(runner.url))
    \/ C!Serve \/ C!Close \/ C!Drain \/ C!Drained \/ C!Restart
    \/ \E i \in Ids : Reconciled(i) \in {"Complete", "GiveUp"} /\ Succeeds(i)

\* A page in flight has an attempt, so settling it is about a collection there is.
LEMMA SettlingCollects ==
    ASSUME Attempts, NEW d, Settle(d) PROVE CollectionsMove
<1>1. CASE UNCHANGED collections
  BY <1>1 DEF CollectionsMove
<1>2. ASSUME NEW u \in In(job, "InFlight"), Reconciled(This(u)) # "Nothing",
             Settled(u, Reconciled(This(u)))
      PROVE  CollectionsMove
  <2>1. /\ u \in Urls /\ job.attempts[u] \in Nat /\ MaxAttempts \in Nat
        /\ 0 < job.attempts[u] /\ job.attempts[u] <= MaxAttempts
    BY JobAssumption DEF JobAssumption, Attempts, Sound, Jobs, In
  <2>2. This(u) \in Ids
    BY <2>1 DEF This, Ids
  <2>3. CASE Succeeds(This(u)) /\ Reconciled(This(u)) # "Retry"
    BY <1>2, <2>2, <2>3, Verdicts DEF CollectionsMove
  <2> QED  BY <1>1, <1>2, <2>3 DEF Settled, SuccessFails
<1> QED  BY <1>1, <1>2 DEF Settle

\* Every step moves the collections like that.
LEMMA StepsMoveTheCollections ==
    ASSUME TypeOK, Attempts, Holding, Next PROVE CollectionsMove
<1>1. CASE \/ \E u \in Urls : Claim(u)
           \/ RunnerEnds \/ CallPrior \/ CallRefused \/ Return \/ CompletePage \/ FailPage \/ Die
           \/ Cancel \/ SetFlags \/ ReadEvents \/ Stop \/ Drained
  BY <1>1 DEF Claim, RunnerEnds, CallPrior, CallRefused, Return, CompletePage, FailPage, Die,
              Cancel, SetFlags, ReadEvents, Stop, Drained, Elsewhere, CollectionsMove
<1>2. CASE Call \/ NoLease \/ Collect
  BY <1>2 DEF Call, NoLease, Collect, CollectionsMove
<1>3. CASE Open \/ SettleJob
  BY <1>3, SettlingCollects DEF Open, SettleJob
<1>4. CASE RecoverCollections \/ Serve \/ Abort \/ CloseCollections \/ Restart
  BY <1>4 DEF RecoverCollections, Serve, Abort, CloseCollections, Restart, CollectionsMove
<1> QED
  BY <1>1, <1>2, <1>3, <1>4 DEF Next, RunnerStep

\* The number of failed writes is one, and grows.
LEMMA FaultsAreCounted ==
    ASSUME TypeOK, Next PROVE faults' \in Nat /\ faults <= faults'
<1> faults \in Nat
  BY DEF TypeOK, C!TypeOK
<1>1. \A next : Saved(next) \/ SaveFails(next) => faults' \in Nat /\ faults <= faults'
  BY DEF Saved, SaveFails
<1>2. CASE (\E u \in Urls : Claim(u)) \/ CompletePage \/ FailPage \/ Die \/ Cancel
  BY <1>1, <1>2 DEF Claim, CompletePage, FailPage, Die, Cancel
<1>3. CASE Open \/ SettleJob
  BY <1>1, <1>3 DEF Open, SettleJob, Settle, Settled, SuccessFails
<1>4. CASE Call \/ NoLease \/ Abort \/ Serve \/ Restart \/ RecoverCollections \/ CloseCollections
  BY <1>4 DEF Call, NoLease, Abort, Serve, Restart, RecoverCollections, CloseCollections,
              C!Admit, C!Refuse, C!StartFails, C!DropExecute, C!Serve, C!Restart, C!Recover,
              C!Abandon, C!Close, C!Drain, C!Drained
<1>5. CASE Collect
  <2>1. ASSUME NEW i \in Ids, C!Persist(i) PROVE faults' \in Nat /\ faults <= faults'
    BY <2>1 DEF C!Persist, C!WriteBlob, C!WriteReference, C!WriteReceipt, C!Writes, C!Finish,
                C!Disown
  <2> QED  BY <1>5, <2>1 DEF Collect, C!Start, C!TaskEnds
<1>6. CASE \/ RunnerEnds \/ CallPrior \/ CallRefused \/ Return \/ SetFlags \/ ReadEvents \/ Stop
           \/ Drained
  BY <1>6 DEF RunnerEnds, CallPrior, CallRefused, Return, SetFlags, ReadEvents, Stop, Drained,
              Elsewhere
<1> QED
  BY <1>2, <1>3, <1>4, <1>5, <1>6 DEF Next, RunnerStep

\* Who waits for a lease waits with a collection and a task.
LEMMA LeaseIsFor ==
    ASSUME TypeOK, admission.at = "Lease"
    PROVE  admission.id \in Ids /\ admission.task \in Urls /\ admission.execute \in BOOLEAN
  BY DEF TypeOK, C!TypeOK, C!Holders, C!Nobody

\* What each write of a capture makes: the next one is due, or it failed with or without
\* effect.
LEMMA CaptureIsWritten ==
    /\ C!After("Blob") = "Reference" /\ C!After("Reference") = "Receipt"
    /\ C!After("Receipt") = "Succeeded"
  BY DEF C!After

\* The collections keep their types, and the table of those begun by clients stays empty.
LEMMA CollectionsAreTyped ==
    ASSUME TypeOK, Attempts, Holding, Busy, faults' \in Nat, CollectionsMove
    PROVE  C!TypeOK' /\ active' = {}
<1>1. C!TypeOK /\ Cardinality({}) = 0 /\ active = {}
  BY FS_EmptySet DEF TypeOK, Busy
<1>2. CASE UNCHANGED collections
  BY <1>1, <1>2 DEF collections, C!TypeOK
<1>3. CASE C!Admit(This(runner.url), runner.url, TRUE) /\ runner.at = "Call"
  <2>1. This(runner.url) \in Ids /\ runner.url \in Urls
    BY <1>3, PageIsHeld, ThisIsAttempt DEF Pages
  <2> QED  BY <1>1, <1>3, <2>1 DEF C!TypeOK, C!Admit, C!Holders, C!disk
<1>4. CASE C!Refuse
  BY <1>1, <1>4 DEF C!TypeOK, C!Refuse, C!Holders, C!disk
<1>5. CASE C!StartFails
  BY <1>1, <1>5, LeaseIsFor DEF C!TypeOK, C!StartFails, C!Holders
<1>6. CASE C!Start
  <2>1. admission' = C!Nobody
    BY <1>6 DEF C!Start, Busy, C!Nobody
  <2> QED  BY <1>1, <1>6, <2>1, LeaseIsFor DEF C!TypeOK, C!Start, C!Holders
<1>7. CASE \E i \in Ids, r \in Results \ {"None"} : C!TaskEnds(i, r)
  BY <1>1, <1>7 DEF C!TypeOK, C!TaskEnds, C!Persisting, C!Ends, C!disk, C!manager, Results
<1>8. ASSUME NEW i \in Ids, C!Persist(i) PROVE C!TypeOK' /\ active' = {}
  <2>1. CASE C!WriteBlob(i)
    <3>1. pc' \in {[pc EXCEPT ![i] = "Reference"], [pc EXCEPT ![i] = "Failed"]}
      BY <2>1, CaptureIsWritten DEF C!WriteBlob, C!Writes
    <3>2. blob' \subseteq Ids
      BY <1>1, <2>1 DEF C!TypeOK, C!WriteBlob, C!Writes
    <3> QED  BY <1>1, <2>1, <3>1, <3>2 DEF C!TypeOK, C!WriteBlob, C!Persisting, C!Ends, C!manager
  <2>2. CASE C!WriteReference(i)
    <3>1. pc' \in {[pc EXCEPT ![i] = "Receipt"], [pc EXCEPT ![i] = "Failed"]}
      BY <2>2, CaptureIsWritten DEF C!WriteReference, C!Writes
    <3>2. artifact' \subseteq Ids
      BY <1>1, <2>2 DEF C!TypeOK, C!WriteReference, C!Writes
    <3> QED  BY <1>1, <2>2, <3>1, <3>2
                DEF C!TypeOK, C!WriteReference, C!Persisting, C!Ends, C!manager
  <2>3. CASE C!WriteReceipt(i)
    <3>1. pc' \in {[pc EXCEPT ![i] = "Succeeded"], [pc EXCEPT ![i] = "Disown"]}
      BY <2>3, CaptureIsWritten DEF C!WriteReceipt, C!Writes
    <3>2. receipt' \in [Ids -> Urls \cup {NoTask}]
      BY <1>1, <2>3 DEF C!TypeOK, C!WriteReceipt, C!Writes
    <3> QED  BY <1>1, <2>3, <3>1, <3>2 DEF C!TypeOK, C!WriteReceipt, C!Persisting, C!Ends, C!manager
  <2>4. CASE C!Finish(i)
    BY <1>1, <2>4 DEF C!TypeOK, C!Finish, C!Poison, C!Ends, C!manager
  <2>5. CASE C!Disown(i)
    BY <1>1, <2>5 DEF C!TypeOK, C!Disown, C!Poison, C!Ends, C!manager
  <2> QED  BY <1>8, <2>1, <2>2, <2>3, <2>4, <2>5 DEF C!Persist
<1>9. CASE \E i \in Ids : C!Recover(i) \/ C!Abandon(i)
  BY <1>1, <1>9 DEF C!TypeOK, C!Recover, C!Abandon, C!Ends, C!manager
<1>10. CASE C!DropExecute(This(runner.url))
  BY <1>1, <1>10 DEF C!TypeOK, C!DropExecute, C!disk, C!manager
<1>11. CASE C!Serve \/ C!Close \/ C!Drain \/ C!Drained
  BY <1>1, <1>11 DEF C!TypeOK, C!Serve, C!Close, C!Drain, C!Drained, C!disk
<1>12. CASE C!Restart
  <2>1. starts' \in Nat /\ pc' \in [Ids -> {"None"}] /\ admission' \in C!Holders
    BY <1>1, <1>12 DEF C!TypeOK, C!Restart, C!Holders
  <2> QED  BY <1>1, <1>12, <2>1 DEF C!TypeOK, C!Restart, C!disk
<1>13. CASE \E i \in Ids : Reconciled(i) \in {"Complete", "GiveUp"} /\ Succeeds(i)
  BY <1>1, <1>13 DEF C!TypeOK, Succeeds, LedgerKeeps, C!Ends
<1> QED
  BY <1>2, <1>3, <1>4, <1>5, <1>6, <1>7, <1>8, <1>9, <1>10, <1>11, <1>12, <1>13
     DEF CollectionsMove

-----------------------------------------------------------------------------
(* The one collection that is on its way *)

\* As long as the runner stays with its page, it stays with the same attempt.
LEMMA TheAttemptStays ==
    ASSUME TypeOK, Attempts, Holding, Next, runner.at = "Wait", runner' = runner
    PROVE  job'.attempts = job.attempts
<1>1. CASE UNCHANGED job
  BY <1>1
<1>2. CASE Cancel
  BY <1>2, EndFollows DEF Cancel, Saved, SaveFails, Attempts
<1>3. daemon \in {"Serving", "Stopping"}
  BY DEF Holding, Off
<1> QED
  BY <1>1, <1>2, <1>3
     DEF Next, RunnerStep, Claim, RunnerEnds, CallPrior, CallRefused, Call, NoLease, Return,
         CompletePage, FailPage, Die, Collect, SetFlags, ReadEvents, Open, RecoverCollections,
         Serve,
         Stop, Drained, Abort, SettleJob, CloseCollections, Restart, Off, Elsewhere, crawl

\* Which steps touch what is under way: the others leave the runner's wait alone, or start
\* and end where it does not wait.
LEMMA OneIsBusy ==
    ASSUME TypeOK, Attempts, Holding, Busy, Ledger, Next PROVE Busy'
<1>1. /\ active = {}
      /\ runner.at # "Wait" => admission = C!Nobody /\ \A i \in Ids : pc[i] \in Idle
  BY DEF Busy
<1>2. CASE UNCHANGED collections /\ runner.at # "Wait"
  BY <1>1, <1>2 DEF Busy, collections
<1>3. CASE UNCHANGED collections /\ UNCHANGED runner /\ runner.at = "Wait"
  BY <1>3, TheAttemptStays DEF Busy, collections, This
<1>4. CASE Call
  <2>1. \A i \in Ids : pc[i] \in Idle
    BY <1>1, <1>4 DEF Call
  <2>2. UNCHANGED <<pc, job>> /\ active' = {} /\ outcome[This(runner.url)] = "Unused"
        /\ UNCHANGED outcome
    BY <1>1, <1>4 DEF Call, C!Admit, C!disk, crawl
  <2> QED  BY <1>4, <2>1, <2>2 DEF Call, C!Admit, Go, Busy, This, C!Nobody
<1>5. CASE NoLease \/ Abort
  <2>1. ASSUME C!Refuse \/ C!StartFails PROVE admission' = C!Nobody /\ UNCHANGED active
    BY <2>1 DEF C!Refuse, C!StartFails
  <2>2. ASSUME C!DropExecute(This(runner.url)) PROVE admission' = C!Nobody /\ UNCHANGED active
    BY <2>2 DEF C!DropExecute, C!manager, Busy, Idle, TypeOK, C!TypeOK
  <2>3. admission' = C!Nobody /\ UNCHANGED active
    BY <1>5, <2>1, <2>2 DEF NoLease, Abort
  <2>4. \A i \in Ids : pc'[i] \in Idle
    BY <1>5 DEF NoLease, Abort, C!Refuse, C!StartFails, C!DropExecute, Busy, C!Nobody, Idle, TypeOK,
                C!TypeOK
  <2> QED  BY <2>3, <2>4, <1>1 DEF Busy
<1>6. CASE Return
  <2>1. runner.at = "Wait" /\ UNCHANGED collections /\ admission = C!Nobody
    BY <1>6, ThisIsAttempt DEF Return, Elsewhere, Busy, Ledger, Pages
  <2>2. \A i \in Ids : pc[i] \in Idle
    BY <1>6 DEF Return, Busy, Idle
  <2> QED  BY <1>1, <2>1, <2>2 DEF Busy, collections
<1>7. CASE Collect
  <2>1. UNCHANGED <<runner, job>>
    BY <1>7 DEF Collect, control, crawl
  <2>2. CASE C!Start
    BY <2>1, <2>2, ThisIsAttempt DEF C!Start, Busy, C!Nobody, This, Idle, TypeOK, C!TypeOK
  <2>3. ASSUME NEW i \in Ids, NEW r, C!TaskEnds(i, r) PROVE Busy'
    <3>1. /\ i = This(runner.url) /\ runner.at = "Wait" /\ admission = C!Nobody
          /\ i \in executed /\ outcome[i] = "Open"
      BY <2>3 DEF C!TaskEnds, Busy, Idle
    <3>2. UNCHANGED <<outcome, executed, admission, active>>
          /\ \A j \in Ids : j # i => pc'[j] = pc[j]
      BY <2>3 DEF C!TaskEnds, C!disk, C!manager, TypeOK, C!TypeOK
    <3> QED  BY <2>1, <3>1, <3>2 DEF Busy, This
  <2>4. ASSUME NEW i \in Ids, C!Persist(i) PROVE Busy'
    <3>1. /\ i = This(runner.url) /\ runner.at = "Wait" /\ admission = C!Nobody
          /\ i \in executed /\ outcome[i] = "Open"
      BY <2>4 DEF C!Persist, C!WriteBlob, C!WriteReference, C!WriteReceipt, C!Finish, C!Disown,
                  C!Ends, Busy, Idle
    <3>2. UNCHANGED <<executed, admission, active>> /\ \A j \in Ids : j # i => pc'[j] = pc[j]
      BY <2>4 DEF C!Persist, C!WriteBlob, C!WriteReference, C!WriteReceipt, C!Writes, C!Finish,
                  C!Disown, C!Poison, C!manager, TypeOK, C!TypeOK
    <3>3. UNCHANGED outcome \/ pc'[i] = "Ended"
      BY <2>4 DEF C!Persist, C!WriteBlob, C!WriteReference, C!WriteReceipt, C!Finish, C!Disown,
                  TypeOK, C!TypeOK
    <3>4. \A j \in Ids : j # i => pc[j] \in Idle
      BY <3>1 DEF Busy
    <3> QED  BY <1>1, <2>1, <3>1, <3>2, <3>3, <3>4 DEF Busy, This, Idle
  <2> QED  BY <1>7, <2>2, <2>3, <2>4 DEF Collect
<1>8. CASE Open \/ SettleJob \/ RecoverCollections \/ Serve \/ CloseCollections
  <2>1. runner.at # "Wait"
    BY <1>8 DEF Open, SettleJob, RecoverCollections, Serve, CloseCollections, Holding, Off
  <2>2. runner'.at # "Wait"
    BY <1>8, <2>1 DEF Open, SettleJob, RecoverCollections, Serve, CloseCollections, control, Off
  <2>3. UNCHANGED <<pc, admission>> /\ active' = {}
    BY <1>1, <1>8, <2>1
       DEF Open, SettleJob, RecoverCollections, Serve, CloseCollections, Settle, Settled,
       SuccessFails,
           Succeeds, LedgerKeeps, collections, C!Recover, C!Abandon, C!Serve, C!Close, C!Drain,
           C!Drained, C!manager
  <2> QED  BY <1>1, <2>1, <2>2, <2>3 DEF Busy
<1>9. CASE Restart
  BY <1>9 DEF Restart, C!Restart, Busy, Idle
<1>10. CASE \/ \E u \in Urls : Claim(u)
            \/ RunnerEnds \/ CallPrior \/ CallRefused \/ CompletePage \/ FailPage \/ Die
  BY <1>2, <1>10
     DEF Claim, RunnerEnds, CallPrior, CallRefused, CompletePage, FailPage, Die, Elsewhere
<1>11. CASE Cancel \/ SetFlags \/ ReadEvents \/ Stop \/ Drained
  BY <1>2, <1>3, <1>11 DEF Cancel, SetFlags, ReadEvents, Stop, Drained, Elsewhere, control
<1> QED
  BY <1>4, <1>5, <1>6, <1>7, <1>8, <1>9, <1>10, <1>11 DEF Next, RunnerStep

-----------------------------------------------------------------------------
(* What is on disk of the collections *)

Disk == Ledger /\ Writing /\ ReceiptsAreBacked

\* The claim of a page begins nothing, and its attempts never decrease: what was begun is
\* still one of the attempts that are known.
LEMMA AttemptsGrow ==
    ASSUME TypeOK, Attempts, Holding, Next
    PROVE  \A u \in Urls : job.attempts[u] \in Nat /\ job'.attempts[u] \in Nat
                           /\ job.attempts[u] <= job'.attempts[u]
<1>1. JobMoves
  BY StepsMoveTheJob
<1>2. \A u \in Urls : job.attempts[u] \in Nat /\ stored.attempts[u] \in Nat
  BY DEF Attempts, Sound, Jobs
<1>3. CASE UNCHANGED crawl
  BY <1>2, <1>3 DEF crawl
<1>4. CASE job' = stored
  BY <1>2, <1>4 DEF Attempts
<1>5. ASSUME NEW next, Supersedes(job, next), Stores(next)
      PROVE  \A u \in Urls : job.attempts[u] \in Nat /\ job'.attempts[u] \in Nat
                             /\ job.attempts[u] <= job'.attempts[u]
  BY <1>2, <1>5 DEF Supersedes, Sound, Jobs, Stores
<1> QED  BY <1>1, <1>3, <1>4, <1>5 DEF JobMoves

\* A collection on its way is begun and has no receipt before the write of one.
LEMMA TheDiskIsKept ==
    ASSUME TypeOK, Attempts, Holding, Busy, Disk, Next PROVE Disk'
<1>1. CollectionsMove
  BY StepsMoveTheCollections
<1>2. /\ begun \in [Ids -> Urls \cup {NoTask}] /\ receipt \in [Ids -> Urls \cup {NoTask}]
      /\ outcome \in [Ids -> {"Unused", "Open"} \cup C!Ends]
      /\ pc \in [Ids -> {"None", "Running", "Ended"} \cup C!Persisting]
      /\ artifact \subseteq Ids /\ blob \subseteq Ids /\ executed \subseteq Ids
      /\ NoTask \notin Urls
  BY ServiceAssumption DEF ServiceAssumption, TypeOK, C!TypeOK
<1>3. \A i \in Ids : i[1] \in Urls /\ i[2] \in Nat
  BY JobAssumption DEF JobAssumption, Ids
<1>4. \A i \in Ids : i[2] <= job.attempts[i[1]] => i[2] <= job'.attempts[i[1]]
  BY <1>3, AttemptsGrow
<1>5. faults \in Nat /\ faults' \in Nat /\ faults <= faults'
  BY FaultsAreCounted DEF TypeOK, C!TypeOK
<1> USE <1>2, <1>4, <1>5
    DEF Disk, Ledger, Writing, ReceiptsAreBacked, C!ReceiptsAreBacked, C!Backed, C!disk, C!manager
<1>6. CASE UNCHANGED collections
  BY <1>6 DEF collections
<1>7. CASE C!Admit(This(runner.url), runner.url, TRUE) \/ C!Refuse
  BY <1>7 DEF C!Admit, C!Refuse
<1>8. CASE C!StartFails \/ C!Start
  <2>1. /\ runner.at = "Wait" /\ admission.id = This(runner.url) /\ admission.task = runner.url
        /\ outcome[This(runner.url)] = "Unused" /\ runner.url \in Urls
        /\ This(runner.url) \in Ids /\ pc[This(runner.url)] \in Idle
    BY <1>8, ThisIsAttempt, PageIsHeld DEF C!StartFails, C!Start, Busy, C!Nobody, Pages
  <2>2. This(runner.url)[2] <= job.attempts[This(runner.url)[1]]
    BY <1>3, <2>1, AttemptsGrow DEF This
  <2>3. CASE C!StartFails
    BY <2>1, <2>2, <2>3 DEF C!StartFails
  <2>4. CASE C!Start
    BY <2>1, <2>2, <2>4 DEF C!Start
  <2> QED  BY <1>8, <2>3, <2>4
<1>9. ASSUME NEW i \in Ids, NEW r \in Results \ {"None"}, C!TaskEnds(i, r) PROVE Disk'
  BY <1>9 DEF C!TaskEnds, Results, Busy, Idle
<1>10. ASSUME NEW i \in Ids, C!Persist(i) PROVE Disk'
  <2>1. pc[i] \notin Idle => i \in executed /\ outcome[i] = "Open"
    BY DEF Busy
  <2>2. CASE C!WriteBlob(i)
    BY <2>1, <2>2, CaptureIsWritten DEF C!WriteBlob, C!Writes, Idle
  <2>3. CASE C!WriteReference(i)
    BY <2>1, <2>3, CaptureIsWritten DEF C!WriteReference, C!Writes, Idle
  <2>4. CASE C!WriteReceipt(i)
    BY <2>1, <2>4, CaptureIsWritten DEF C!WriteReceipt, C!Writes, Idle
  <2>5. CASE C!Finish(i)
    BY <2>1, <2>5 DEF C!Finish, C!Poison, C!Ends, Idle
  <2>6. CASE C!Disown(i)
    BY <2>1, <2>6 DEF C!Disown, C!Poison, Idle
  <2> QED  BY <1>10, <2>2, <2>3, <2>4, <2>5, <2>6 DEF C!Persist
<1>11. ASSUME NEW i \in Ids, C!Recover(i) \/ C!Abandon(i) PROVE Disk'
  BY <1>11 DEF C!Recover, C!Abandon, C!Unclaimed, C!Abandoned, C!Open
<1>12. CASE C!DropExecute(This(runner.url))
  BY <1>12 DEF C!DropExecute
<1>13. CASE C!Serve \/ C!Close \/ C!Drain \/ C!Drained \/ C!Restart
  BY <1>13 DEF C!Serve, C!Close, C!Drain, C!Drained, C!Restart
<1>14. ASSUME NEW i \in Ids, Reconciled(i) \in {"Complete", "GiveUp"}, Succeeds(i) PROVE Disk'
  BY <1>14 DEF Reconciled, Succeeds, LedgerKeeps
<1> QED
  BY <1>1, <1>6, <1>7, <1>8, <1>9, <1>10, <1>11, <1>12, <1>13, <1>14 DEF CollectionsMove

-----------------------------------------------------------------------------
(* The attempts of one page *)

\* If there is nothing to be found first, there is nothing to be found.
LEMMA NothingIsFound ==
    ASSUME NEW u \in Urls, job.attempts[u] \in Nat, FirstFound(u) = "Nothing"
    PROVE  \A i \in Earlier(u) : Reconciled(i) = "Nothing"
<1> DEFINE found == {i \in Earlier(u) : Reconciled(i) # "Nothing"}
           ranks == {k \in Nat : <<u, k>> \in found}
           upto == {ranks \cap (0 .. k) : k \in ranks}
<1> SUFFICES ASSUME found # {} PROVE FALSE
  OBVIOUS
<1>1. \A i \in found : i[2] \in ranks /\ i = <<u, i[2]>>
  BY DEF Earlier
<1>2. ranks \subseteq Nat /\ ranks # {}
  BY <1>1
<1>3. upto \subseteq FiniteSubsetsOf(Nat) /\ upto # {}
  <2> HIDE DEF ranks
  <2>1. ASSUME NEW k \in ranks PROVE IsFiniteSet(0 .. k)
    <3>1. 0 \in Int /\ k \in Int
      BY <1>2
    <3> QED  BY ONLY <3>1, FS_Interval
  <2>2. \A k \in ranks : IsFiniteSet(ranks \cap (0 .. k))
    BY <2>1, FS_Subset
  <2> QED  BY <1>2, <2>2 DEF FiniteSubsetsOf
<1>4. PICK least \in upto : \A other \in upto : <<other, least>> \notin StrictSubsetOrdering(Nat)
  <2> HIDE DEF upto
  <2> QED  BY <1>3, FS_StrictSubsetOrderingWellFounded, WFMin
<1>5. PICK k \in ranks : least = ranks \cap (0 .. k)
  BY <1>4
<1>6. \A m \in ranks : k <= m
  <2> SUFFICES ASSUME NEW m \in ranks, m < k PROVE FALSE
    BY <1>2
  <2>1. /\ ranks \cap (0 .. m) \subseteq ranks \cap (0 .. k)
        /\ k \in ranks \cap (0 .. k) /\ k \notin ranks \cap (0 .. m)
    BY <1>2
  <2>2. <<ranks \cap (0 .. m), least>> \in StrictSubsetOrdering(Nat)
    <3> HIDE DEF ranks
    <3> QED  BY <1>2, <1>5, <2>1 DEF StrictSubsetOrdering
  <2> QED  BY <1>4, <2>2
<1>7. <<u, k>> \in found /\ \A j \in found : <<u, k>>[2] <= j[2]
  BY <1>1, <1>6
<1>8. \E i \in found : \A j \in found : i[2] <= j[2]
  BY <1>7
<1>9. (CHOOSE i \in found : \A j \in found : i[2] <= j[2]) \in found
  <2> HIDE DEF found
  <2> QED  BY <1>8
<1> QED  BY <1>9 DEF FirstFound

\* A runner that begins an attempt has looked at those before, and those after are not begun.
LEMMA OthersHaveNone ==
    ASSUME TypeOK, Attempts, Holding, Ledger, Call, NEW i \in Ids,
           i[1] = runner.url, i # This(runner.url)
    PROVE  receipt[i] = NoTask
<1>1. /\ runner.url \in Urls /\ job.attempts[runner.url] \in Nat
      /\ i = <<runner.url, i[2]>> /\ i[2] \in Nat /\ i[2] > 0 /\ i[2] # job.attempts[runner.url]
  BY PageIsHeld, JobAssumption
     DEF JobAssumption, Call, Pages, Attempts, Sound, Jobs, Ids, This
<1>2. CASE i[2] < job.attempts[runner.url]
  <2>1. i[2] \in 1 .. (job.attempts[runner.url] - 1)
    BY <1>1, <1>2
  <2>2. i \in Earlier(runner.url)
    BY <1>1, <2>1 DEF Earlier
  <2>3. Reconciled(i) = "Nothing"
    BY <1>1, <2>2, NothingIsFound DEF Call
  <2> QED  BY <2>3 DEF Reconciled, Ledger
<1>3. CASE i[2] > job.attempts[runner.url]
  BY <1>1, <1>3 DEF Ledger
<1> QED  BY <1>1, <1>2, <1>3

\* Only the attempt that is waited for gets a receipt.
LEMMA TheAttemptIsAlone ==
    ASSUME TypeOK, Attempts, Holding, Busy, Ledger, Alone, Next PROVE Alone'
<1>1. CASE Call
  <2>1. UNCHANGED <<receipt, job>> /\ runner' = [at |-> "Wait", url |-> runner.url]
    BY <1>1 DEF Call, C!Admit, C!disk, crawl, Go
  <2> QED  BY <1>1, <2>1, OthersHaveNone DEF Alone, This
<1>2. CASE runner' = runner /\ runner.at = "Wait"
  <2>1. This(runner.url)' = This(runner.url)
    BY <1>2, TheAttemptStays DEF This
  <2>2. \A i \in Ids : i # This(runner.url) => receipt'[i] = receipt[i]
    <3>1. CollectionsMove
      BY StepsMoveTheCollections
    <3>2. ASSUME NEW i \in Ids, C!WriteReceipt(i)
          PROVE  \A j \in Ids : j # This(runner.url) => receipt'[j] = receipt[j]
      BY <3>2 DEF C!WriteReceipt, C!Writes, Busy, Idle, TypeOK, C!TypeOK
    <3>3. UNCHANGED receipt \/ \E i \in Ids : C!WriteReceipt(i)
      BY <3>1
         DEF CollectionsMove, collections, C!Admit, C!Refuse, C!StartFails, C!Start, C!TaskEnds,
             C!Persist, C!WriteBlob, C!WriteReference, C!Finish, C!Disown, C!Recover, C!Abandon,
             C!DropExecute, C!Serve, C!Close, C!Drain, C!Drained, C!Restart, Succeeds, LedgerKeeps,
             C!disk
    <3> QED  BY <3>2, <3>3
  <2> QED  BY <1>2, <2>1, <2>2 DEF Alone
<1>3. CASE runner'.at # "Wait"
  BY <1>3 DEF Alone
<1>4. runner' = runner \/ runner'.at # "Wait" \/ Call
  BY Verdicts
     DEF Next, RunnerStep, Claim, RunnerEnds, CallPrior, CallRefused, NoLease, Return, CompletePage,
         FailPage, Die, Collect, Cancel, SetFlags, ReadEvents, Open, RecoverCollections, Serve,
         Stop, Drained, Abort, SettleJob, CloseCollections, Restart, Off, Elsewhere, control,
         Continue, Go
<1> QED  BY <1>1, <1>2, <1>3, <1>4

\* What is open is on its way, was on its way, or was given up when it began.
LEMMA OpenIsKnown ==
    ASSUME TypeOK, Attempts, Holding, Busy, Known, Next PROVE Known'
<1>1. CollectionsMove
  BY StepsMoveTheCollections
<1> outcome \in [Ids -> {"Unused", "Open"} \cup C!Ends]
  BY DEF TypeOK, C!TypeOK
<1> USE DEF Known, C!Open, C!disk, C!manager
<1>2. CASE UNCHANGED collections
  BY <1>2 DEF collections
<1>3. CASE C!Admit(This(runner.url), runner.url, TRUE) \/ C!Refuse
  BY <1>3 DEF C!Admit, C!Refuse
<1>4. CASE C!StartFails \/ C!Start
  BY <1>4 DEF C!StartFails, C!Start, Busy, C!Nobody
<1>5. ASSUME NEW i \in Ids, NEW r, C!TaskEnds(i, r) PROVE Known'
  BY <1>5 DEF C!TaskEnds
<1>6. ASSUME NEW i \in Ids, C!Persist(i) PROVE Known'
  BY <1>6 DEF C!Persist, C!WriteBlob, C!WriteReference, C!WriteReceipt, C!Finish, C!Disown,
              C!Poison, C!Ends
<1>7. ASSUME NEW i \in Ids, C!Recover(i) \/ C!Abandon(i) PROVE Known'
  BY <1>7 DEF C!Recover, C!Abandon
<1>8. CASE C!DropExecute(This(runner.url))
  BY <1>8 DEF C!DropExecute
<1>9. CASE C!Serve \/ C!Close \/ C!Drain \/ C!Drained \/ C!Restart
  BY <1>9 DEF C!Serve, C!Close, C!Drain, C!Drained, C!Restart
<1>10. ASSUME NEW i \in Ids, Succeeds(i) PROVE Known'
  BY <1>10 DEF Succeeds, LedgerKeeps
<1> QED
  BY <1>1, <1>2, <1>3, <1>4, <1>5, <1>6, <1>7, <1>8, <1>9, <1>10 DEF CollectionsMove

-----------------------------------------------------------------------------
(* The theorems *)

\* The invariant holds at first.
LEMMA CrawlStarts == Init => CrawlInv
<1> SUFFICES ASSUME Init PROVE CrawlInv
  OBVIOUS
<1>1. Sound(Created)
  BY CreatedIsSound
<1>2. Attempts /\ Final /\ Holding
  BY <1>1 DEF Init, Attempts, Final, Holding, Sound, Jobs, Off, Pages
<1>3. TypeOK
  <2>1. C!Cardinality({}) = Cardinality({})
    BY DEF C!Cardinality, Cardinality
  <2>2. active = {} /\ C!Cardinality(active) <= 1
    <3>1. active = {}
      BY DEF Init, C!Init
    <3>2. C!Cardinality(active) = 0
      BY <2>1, <3>1, FS_EmptySet
    <3> QED  BY <3>1, <3>2
  <2>3. C!TypeOK
    BY <2>2 DEF Init, C!Init, C!TypeOK, C!Holders
  <2> QED  BY <1>1, <2>3 DEF Init, TypeOK, Sound, Results, Off
<1>4. Busy /\ Disk /\ Alone /\ Known
  BY DEF Init, C!Init, Busy, Idle, Disk, Ledger, Writing, ReceiptsAreBacked, C!ReceiptsAreBacked,
         Alone, Known, Off
<1>5. ReadersAreTold
  BY DEF Init, ReadersAreTold
<1> QED  BY <1>2, <1>3, <1>4, <1>5 DEF CrawlInv, Disk

\* And every step keeps it.
LEMMA CrawlSteps == CrawlInv /\ [Next]_vars => CrawlInv'
<1> SUFFICES ASSUME CrawlInv, [Next]_vars PROVE CrawlInv'
  OBVIOUS
<1>1. CASE Next
  <2>1. Attempts' /\ Final' /\ ReadersAreTold' /\ Holding'
    BY <1>1, TheJobIsKept, ThePageIsHeld DEF CrawlInv
  <2>2. C!TypeOK'
    BY <1>1, CollectionsAreTyped, StepsMoveTheCollections, FaultsAreCounted DEF CrawlInv
  <2>3. TypeOK'
    BY <1>1, <2>1, <2>2, ControlIsTyped
       DEF CrawlInv, Attempts, Sound, ControlTypes, Pages, TypeOK
  <2>4. Busy' /\ Disk' /\ Alone' /\ Known'
    BY <1>1, OneIsBusy, TheDiskIsKept, TheAttemptIsAlone, OpenIsKnown DEF CrawlInv, Disk
  <2> QED  BY <2>1, <2>3, <2>4 DEF CrawlInv, Disk
<1>2. CASE UNCHANGED vars
  BY <1>2 DEF vars, collections, crawl, control, data, CrawlInv, TypeOK, C!TypeOK, Attempts, Final,
              Running, Holding, Busy, This, Ledger, Writing, Alone, Known, C!Open,
              ReceiptsAreBacked, C!ReceiptsAreBacked, C!Backed, ReadersAreTold
<1> QED  BY <1>1, <1>2

\* An ending is written for the collection that is on its way, and for those the ledger says
\* are open; a reconciled receipt gives its collection the ending it may already have.
LEMMA EndingsStay ==
    ASSUME TypeOK, Attempts, Holding, Busy, Next PROVE EndsAreKept
<1>1. CollectionsMove
  BY StepsMoveTheCollections
<1> outcome \in [Ids -> {"Unused", "Open"} \cup C!Ends] /\ {"Unused", "Open"} \cap C!Ends = {}
  BY DEF TypeOK, C!TypeOK, C!Ends
<1> USE DEF EndsAreKept, C!disk
<1>2. CASE UNCHANGED outcome
  BY <1>2
<1>3. CASE C!StartFails \/ C!Start
  <2>1. outcome[admission.id] = "Unused"
    BY <1>3 DEF C!StartFails, C!Start, Busy, C!Nobody
  <2> QED  BY <1>3, <2>1 DEF C!StartFails, C!Start
<1>4. ASSUME NEW i \in Ids, C!Finish(i) \/ C!Disown(i) PROVE EndsAreKept
  <2>1. outcome[i] = "Open"
    BY <1>4 DEF C!Finish, C!Disown, C!Ends, Busy, Idle
  <2> QED  BY <1>4, <2>1 DEF C!Finish, C!Disown
<1>5. ASSUME NEW i \in Ids, C!Recover(i) \/ C!Abandon(i) PROVE EndsAreKept
  <2>1. outcome[i] = "Open"
    BY <1>5 DEF C!Recover, C!Abandon, C!Unclaimed, C!Abandoned, C!Open
  <2> QED  BY <1>5, <2>1 DEF C!Recover, C!Abandon
<1>6. ASSUME NEW i \in Ids, Reconciled(i) \in {"Complete", "GiveUp"}, Succeeds(i)
      PROVE  EndsAreKept
  <2>1. outcome[i] \in {"Open", "Succeeded"}
    BY <1>6 DEF Reconciled
  <2> QED  BY <1>6, <2>1 DEF Succeeds
<1>7. \/ UNCHANGED outcome \/ C!StartFails \/ C!Start
      \/ \E i \in Ids : C!Finish(i) \/ C!Disown(i) \/ C!Recover(i) \/ C!Abandon(i)
      \/ \E i \in Ids : Reconciled(i) \in {"Complete", "GiveUp"} /\ Succeeds(i)
  BY <1>1
     DEF CollectionsMove, collections, C!Admit, C!Refuse, C!TaskEnds, C!Persist, C!WriteBlob,
         C!WriteReference, C!WriteReceipt, C!DropExecute, C!Serve, C!Close, C!Drain, C!Drained,
         C!Restart
<1> QED  BY <1>2, <1>3, <1>4, <1>5, <1>6, <1>7

\* The service is always in a state the invariant describes: a page in flight has an attempt
\* that is known on disk, only the runner's page has a collection on its way, and no other
\* attempt of that page has a receipt.
THEOREM CrawlHolds == Spec => []CrawlInv
  BY CrawlStarts, CrawlSteps, PTL DEF Spec

\* Runner, daemon, job and collections keep their types: whatever the writes that fail and
\* the restarts, the runner has a page of the job, and the collection a lease is leased
\* for is one of the page's attempts (run_job(), execute_page()).
THEOREM CrawlTypes == Spec => []TypeOK
<1>1. CrawlInv => TypeOK
  BY DEF CrawlInv
<1> QED  BY <1>1, CrawlHolds, PTL

\* A receipt is only there with what it vouches for, at every moment the daemon may die
\* (persist_collection_result()).
THEOREM ReceiptsBacked == Spec => []ReceiptsAreBacked
<1>1. CrawlInv => ReceiptsAreBacked
  BY DEF CrawlInv
<1> QED  BY <1>1, CrawlHolds, PTL

\* A page whose capture is durable is not fetched again, whatever crashed, failed or was
\* aborted after the capture (execute_page(), reconcile_in_flight()).
THEOREM FetchedOnce == Spec => []PagesFetchedOnce
<1>1. CrawlInv => PagesFetchedOnce
  BY DEF CrawlInv, Busy, Alone, PagesFetchedOnce, Idle, This
<1> QED  BY <1>1, CrawlHolds, PTL

\* The log that a reader was told is complete never grows, not even over a restart
\* (read_events(), persist_runner_failure()).
THEOREM ReadersTold == Spec => []ReadersAreTold
<1>1. CrawlInv => ReadersAreTold
  BY DEF CrawlInv
<1> QED  BY <1>1, CrawlHolds, PTL

\* A shutdown of the collections that is through leaves none open but those the crawl
\* executed and those given up as they began (shutdown()).
THEOREM CrawlShutdownSettles == Spec => []C!ShutdownSettles
<1>1. CrawlInv => C!ShutdownSettles
  BY DEF CrawlInv, Known, C!ShutdownSettles
<1> QED  BY <1>1, CrawlHolds, PTL

\* How a collection of the crawl ended is never rewritten, not by the recovery of a start,
\* nor by the reconciliation of a receipt (interrupt_collection(), reconcile_successor(),
\* reconcile_completed()).
THEOREM CrawlEndsAreKept == Spec => [][EndsAreKept]_vars
<1>1. CrawlInv /\ [Next]_vars => [EndsAreKept]_vars
  BY EndingsStay DEF CrawlInv
<1> QED  BY <1>1, CrawlHolds, PTL DEF Spec

-----------------------------------------------------------------------------
(* DaemonRun *)

\* Nobody is inside the gate.
Quiet == \A o \in Ops : op[o] \notin {"Inside", "Launched"}

\* Who asked for the gate and has not left it: a server first, then an emergency.
AtGate == serving.at \in {"Gate", "Stopping"}
Emergency == main \in {"EmergencyGate", "Reaping"}

RunShape ==
    /\ main \in {"Selecting", "Aborting", "EmergencyGate", "Reaping", "AwaitsService", "Closing",
                 "Over"}
    /\ serving \in [at : {"Serving", "Draining", "Gate", "Stopping", "Ended"},
                    result : {"None", "Ok", "Err"}]
    /\ op \in [Ops -> {"None", "Inside", "Launched", "Over"}]

\* The gate is its two writers'; once one of them was let in, the operations are out.
Gated ==
    /\ AtGate /\ Emergency => gate = <<"server", "emergency">>
    /\ AtGate /\ ~ Emergency => gate = <<"server">>
    /\ ~ AtGate /\ Emergency => gate = <<"emergency">>
    /\ ~ AtGate /\ ~ Emergency => gate = <<>>
    /\ entered => gate # <<>> /\ Quiet
    /\ serving.at = "Stopping" => entered
    /\ main = "Reaping" => entered /\ ~ AtGate
    /\ (gate # <<>> \/ main = "AwaitsService" \/ serving.result = "Ok") => shuttingDown

\* What each end has seen: nobody inside the gate, and no browser.
InOrder ==
    /\ main = "AwaitsService" => Quiet /\ up = {}
    /\ serving.result = "Ok" => serving.at = "Ended" /\ Quiet /\ up = {}
    /\ verdict = "Ok" => serving.result = "Ok"
    /\ main = "Closing" => verdict = "Ok"
    /\ lease = "Closed" => main = "Over" /\ verdict = "Ok"

RunInv == RunShape /\ Gated /\ InOrder

\* A second element behind the first.
LEMMA AppendsToOne ==
  ASSUME NEW x, NEW y
  PROVE  Append(<<x>>, y) = <<x, y>>
<1> DEFINE S == {x, y}
           t == Append(<<x>>, y)
           u == <<x, y>>
<1>1. t \in Seq(S) /\ Len(t) = 2
  OBVIOUS
<1>2. t[1] = x /\ t[2] = y
  OBVIOUS
<1>3. u \in Seq(S) /\ Len(u) = 2 /\ u[1] = x /\ u[2] = y
  OBVIOUS
<1> HIDE DEF S, t, u
<1>4. \A i \in 1..Len(t) : t[i] = u[i]
  BY <1>1, <1>2, <1>3
<1>5. t = u
  BY <1>1, <1>3, <1>4, SeqEqual
<1> QED BY <1>5 DEF t, u

\* Asking for the gate and leaving it.
LEMMA QueueMoves ==
    /\ <<"server">> # <<>> /\ <<"emergency">> # <<>> /\ <<"server", "emergency">> # <<>>
    /\ Head(<<"server">>) = "server" /\ Head(<<"server", "emergency">>) = "server"
    /\ Head(<<"emergency">>) = "emergency"
    /\ Tail(<<"server">>) = <<>> /\ Tail(<<"emergency">>) = <<>>
    /\ Tail(<<"server", "emergency">>) = <<"emergency">>
    /\ Append(<<>>, "server") = <<"server">> /\ Append(<<>>, "emergency") = <<"emergency">>
    /\ Append(<<"server">>, "emergency") = <<"server", "emergency">>
<1>1. <<"server">> # <<>> /\ <<"emergency">> # <<>> /\ <<"server", "emergency">> # <<>>
  OBVIOUS
<1>2. /\ Head(<<"server">>) = "server" /\ Head(<<"server", "emergency">>) = "server"
      /\ Head(<<"emergency">>) = "emergency"
  OBVIOUS
<1>3. Tail(<<"server">>) = <<>> /\ Tail(<<"emergency">>) = <<>>
  OBVIOUS
<1>4. Tail(<<"server", "emergency">>) = <<"emergency">>
  OBVIOUS
<1>5. Append(<<>>, "server") = <<"server">> /\ Append(<<>>, "emergency") = <<"emergency">>
  OBVIOUS
<1>6. Append(<<"server">>, "emergency") = <<"server", "emergency">>
  BY AppendsToOne
<1> QED BY <1>1, <1>2, <1>3, <1>4, <1>5, <1>6

\* How a daemon begins.
LEMMA RunStarts == RunInit => RunInv
  BY DEF RunInit, RunInv, RunShape, Gated, InOrder, Quiet, AtGate, Emergency

\* A step of none of them.
LEMMA RunStays == RunInv /\ UNCHANGED runVars => RunInv'
  BY DEF RunInv, RunShape, Gated, InOrder, Quiet, AtGate, Emergency, runVars

\* The operations.
LEMMA OperationsKeep ==
  ASSUME RunInv, NEW o \in Ops, Enters(o) \/ Launches(o) \/ Returns(o) \/ BrowserEnds(o)
  PROVE  RunInv'
<1>1. CASE Enters(o)
  BY <1>1, QueueMoves DEF Enters, RunInv, RunShape, Gated, InOrder, Quiet, AtGate, Emergency, egress
<1>2. CASE Launches(o)
  BY <1>2, QueueMoves
     DEF Launches, RunInv, RunShape, Gated, InOrder, Quiet, AtGate, Emergency, egress
<1>3. CASE Returns(o)
  BY <1>3, QueueMoves
     DEF Returns, RunInv, RunShape, Gated, InOrder, Quiet, AtGate, Emergency, egress
<1>4. CASE BrowserEnds(o)
  BY <1>4, QueueMoves
     DEF BrowserEnds, RunInv, RunShape, Gated, InOrder, Quiet, AtGate, Emergency, egress
<1> QED BY <1>1, <1>2, <1>3, <1>4

\* The gate and the server.
LEMMA ServerKeeps ==
  ASSUME RunInv, GateOpens \/ ServerHears \/ ServerDrained \/ StationStops \/ StationStopped
  PROVE  RunInv'
<1> USE DEF RunInv
<1>0. AtGate \in BOOLEAN /\ Emergency \in BOOLEAN
  BY DEF AtGate, Emergency
<1>1. CASE GateOpens
  BY <1>1 DEF GateOpens, RunShape, Gated, InOrder, Quiet, AtGate, Emergency, egress
<1>2. CASE ServerHears
  BY <1>2 DEF ServerHears, ServerStays, station, RunShape, Gated, InOrder, Quiet, AtGate, Emergency,
     egress, ServerPolled, Polled
<1>3. CASE ServerDrained
  <2>1. ~ Emergency /\ ~ AtGate /\ serving.at = "Draining" /\ serving.result # "Ok"
        /\ main # "Reaping"
    BY <1>3 DEF ServerDrained, ServerPolled, Polled, Emergency, AtGate, InOrder
  <2>2. CASE gate' = Append(gate, "server") /\ serving' = [serving EXCEPT !.at = "Gate"]
             /\ ~ shuttingDown /\ shuttingDown' = TRUE
    <3>1. gate = <<>> /\ gate' = <<"server">> /\ gate' # <<>>
      BY <2>1, <2>2, QueueMoves DEF Gated
    <3>2. AtGate' /\ ~ Emergency' /\ main # "AwaitsService"
      BY <1>3, <2>1, <2>2 DEF ServerDrained, ServerStays, AtGate, Emergency, RunShape, Gated
    <3> QED BY <1>3, <2>1, <2>2, <3>1, <3>2
         DEF ServerDrained, ServerStays, RunShape, Gated, InOrder, Quiet, egress
  <2>3. CASE serving' = [at |-> "Ended", result |-> "Err"] /\ UNCHANGED <<shuttingDown, gate>>
    <3>1. ~ AtGate' /\ Emergency' = Emergency
      BY <1>3, <2>3 DEF ServerDrained, ServerStays, AtGate, Emergency
    <3> QED BY <1>3, <2>1, <2>3, <3>1
         DEF ServerDrained, ServerStays, RunShape, Gated, InOrder, Quiet, egress
  <2> QED BY <1>3, <2>2, <2>3 DEF ServerDrained
<1>4. CASE StationStops
  <2>1. AtGate /\ AtGate' /\ Emergency' = Emergency /\ entered /\ main # "Reaping"
        /\ serving.result # "Ok"
        /\ main' = main /\ serving' = [serving EXCEPT !.at = "Stopping"]
    BY <1>4 DEF StationStops, ServerStays, HasGate, AtGate, Emergency, RunShape, InOrder,
       ServerPolled, Polled
  <2> QED BY <1>4, <2>1
       DEF StationStops, ServerStays, RunShape, Gated, InOrder, Quiet, egress
<1>5. CASE StationStopped
  <2>1. AtGate /\ ~ AtGate' /\ Emergency' = Emergency /\ entered /\ main # "Reaping" /\ ~ Emergency
        /\ Quiet /\ shuttingDown
    BY <1>0, <1>5, QueueMoves
       DEF StationStopped, ServerStays, AtGate, Emergency, RunShape, Gated, ServerPolled, Polled
  <2>2. gate' = <<>>
    BY <1>5, <2>1, QueueMoves DEF StationStopped, LeavesGate, Gated
  <2>3. serving'.at = "Ended"
        /\ serving' \in [at : {"Serving", "Draining", "Gate", "Stopping", "Ended"},
                                              result : {"None", "Ok", "Err"}]
        /\ serving.result # "Ok"
    BY <1>5 DEF StationStopped, InOrder
  <2>4. serving'.result = "Ok" => up = {}
    BY <1>5 DEF StationStopped
  <2> QED BY <1>5, <2>1, <2>2, <2>3, <2>4
       DEF StationStopped, ServerStays, LeavesGate, RunShape, Gated, InOrder, Quiet, egress
<1> QED BY <1>1, <1>2, <1>3, <1>4, <1>5

\* The proxy, and the task that polls it and the server.
LEMMA ServiceKeeps ==
  ASSUME RunInv,
         \/ AcceptFails \/ ProxyHears \/ ProxyDrained \/ ServerFirst \/ ProxyFirst \/ ServiceEnds
         \/ \E t \in Tunnels : Accepts(t) \/ TunnelEnds(t) \/ Joins(t)
  PROVE  RunInv'
<1>1. UNCHANGED <<main, lost, lease, serving, shuttingDown, gate, entered, op, up, ending>>
  BY DEF AcceptFails, ProxyHears, ProxyDrained, ServerFirst, ProxyFirst, ServiceEnds, Accepts,
     TunnelEnds, Joins, ProxyStays, InnerStays, station
<1>2. verdict' = verdict \/ (verdict' \in {serving.result, "Err"} /\ Polled)
  BY DEF AcceptFails, ProxyHears, ProxyDrained, ServerFirst, ProxyFirst, ServiceEnds, Accepts,
     TunnelEnds, Joins, ProxyStays, InnerStays, station
<1> QED BY <1>1, <1>2 DEF RunInv, RunShape, Gated, InOrder, Quiet, AtGate, Emergency, Polled

\* The emergency and the end.
LEMMA MainKeeps ==
  ASSUME RunInv, Interrupt \/ BrokerDies \/ LossSeen \/ Reaps \/ AllReaped \/ MainEnds
                 \/ LeaseCloses
  PROVE  RunInv'
<1> USE DEF RunInv
<1>0. AtGate \in BOOLEAN /\ AtGate' = AtGate /\ serving' = serving /\ verdict' = verdict
      /\ op' = op /\ up' = up
  BY DEF AtGate, Interrupt, BrokerDies, LossSeen, Reaps, AllReaped, MainEnds, LeaseCloses, MainStays
<1>1. CASE Interrupt \/ BrokerDies
  BY <1>1 DEF Interrupt, BrokerDies, MainStays, RunShape, Gated, InOrder, Quiet, AtGate, Emergency
<1>2. CASE LossSeen
  <2>1. ~ Emergency /\ Emergency' /\ main' = "EmergencyGate" /\ lease' = lease /\ shuttingDown'
        /\ entered' = entered
    BY <1>2 DEF LossSeen, Emergency
  <2>2. gate' = IF AtGate THEN <<"server", "emergency">> ELSE <<"emergency">>
    BY <1>0, <1>2, <2>1, QueueMoves DEF LossSeen, Gated
  <2>3. gate' # <<>>
    BY <1>0, <2>2, QueueMoves
  <2>4. lease # "Closed"
    BY <1>2 DEF LossSeen, InOrder
  <2> QED BY <1>0, <2>1, <2>2, <2>3, <2>4 DEF RunShape, Gated, InOrder, Quiet
<1>3. CASE Reaps
  <2>1. Emergency /\ Emergency' /\ main' = "Reaping" /\ lease' = lease /\ entered
        /\ UNCHANGED <<shuttingDown, gate, entered>>
    BY <1>3 DEF Reaps, Emergency, HasGate
  <2>2. ~ AtGate
    BY <1>0, <1>3, <2>1, QueueMoves DEF Reaps, HasGate, Gated
  <2> QED BY <1>0, <1>3, <2>1, <2>2 DEF Reaps, RunShape, Gated, InOrder, Quiet
<1>4. CASE AllReaped
  <2>1. Emergency /\ ~ Emergency' /\ main' = "AwaitsService" /\ lease' = lease /\ entered
        /\ ~ AtGate
        /\ up = {} /\ shuttingDown' /\ entered' = FALSE /\ main = "Reaping" /\ Quiet
    BY <1>4 DEF AllReaped, Emergency, Gated, LeavesGate
  <2>2. gate' = <<>>
    BY <1>4, <2>1, QueueMoves DEF AllReaped, LeavesGate, Gated
  <2>3. RunShape'
    BY <1>0, <2>1 DEF RunShape
  <2>4. ~ AtGate' /\ Quiet'
    BY <1>0, <2>1 DEF Quiet
  <2>5. Gated'
    BY <1>0, <2>1, <2>2, <2>4 DEF Gated, AtGate
  <2>6. InOrder'
    BY <1>0, <2>1, <2>4 DEF InOrder
  <2> QED BY <2>3, <2>5, <2>6
<1>5. CASE MainEnds \/ LeaseCloses
  <2>1. ~ Emergency /\ ~ Emergency' /\ main' \in {"Closing", "Over"} /\ main # "Reaping"
        /\ UNCHANGED <<shuttingDown, gate, entered>>
    BY <1>5 DEF MainEnds, LeaseCloses, Polled, Emergency
  <2>2. /\ main' = "Closing" => verdict = "Ok"
        /\ lease' = "Closed" => main' = "Over" /\ verdict = "Ok"
    BY <1>5 DEF MainEnds, LeaseCloses, InOrder, Polled
  <2> QED BY <1>0, <2>1, <2>2 DEF RunShape, Gated, InOrder, Quiet
<1> QED BY <1>1, <1>2, <1>3, <1>4, <1>5

\* The invariant of a daemon's run.
THEOREM RunInvariance == RunSpec => []RunInv
<1>1. RunInv /\ [RunNext]_runVars => RunInv'
  BY RunStays, OperationsKeep, ServerKeeps, ServiceKeeps, MainKeeps DEF RunNext, RunStep
<1> QED BY <1>1, RunStarts, PTL DEF RunSpec

\* The filters of a daemon are closed after its last browser has ended, and an emergency ends every
\* browser before the daemon does (FiltersOutliveBrowsers, EmergencyIsThorough): run(),
\* emergency_shutdown().
THEOREM FiltersStay == RunSpec => [](FiltersOutliveBrowsers /\ EmergencyIsThorough)
<1>1. RunInv => FiltersOutliveBrowsers /\ EmergencyIsThorough
  BY DEF RunInv, InOrder, FiltersOutliveBrowsers, EmergencyIsThorough
<1> QED BY <1>1, RunInvariance, PTL
-----------------------------------------------------------------------------
\* What the proxy has accepted and counted.
Given == {t \in Tunnels : tunnel[t] # "None"}
Joined == {t \in Tunnels : tunnel[t] = "Joined"}

TunnelInv ==
    /\ proxy \in [at : {"Accepting", "Draining", "Ended"}, result : {"None", "Ok", "Err"}]
    /\ tunnel \in [Tunnels -> {"None", "Open", "Done", "Joined", "Dropped"}]
    /\ accepted = Cardinality(Given) /\ counted \in Nat
    /\ proxy.at # "Ended" =>
          /\ counted = Cardinality(Joined) /\ proxy.result = "None"
          /\ \A t \in Tunnels : tunnel[t] # "Dropped"
    /\ proxy.at = "Ended" =>
          /\ \A t \in Tunnels : tunnel[t] # "Open"
          /\ counted <= accepted
          /\ proxy.result = "Ok" => counted = accepted

\* Connections are finitely many.
TunnelsAreFinite == IsFiniteSet(Tunnels)

\* Counts of tunnels.
LEMMA TunnelCounts ==
  ASSUME TunnelsAreFinite, NEW S \in SUBSET Tunnels
  PROVE  /\ IsFiniteSet(S) /\ Cardinality(S) \in Nat
         /\ \A t \in Tunnels \ S : Cardinality(S \cup {t}) = Cardinality(S) + 1
         /\ \A T \in SUBSET Tunnels : S \subseteq T => Cardinality(S) <= Cardinality(T)
         /\ \A T \in SUBSET Tunnels : S \cap T = {} =>
                Cardinality(S \cup T) = Cardinality(S) + Cardinality(T)
<1>1. IsFiniteSet(S)
  BY FS_Subset DEF TunnelsAreFinite
<1>2. Cardinality(S) \in Nat
  BY <1>1, FS_CardinalityType
<1>3. \A t \in Tunnels \ S : Cardinality(S \cup {t}) = Cardinality(S) + 1
  BY <1>1, FS_AddElement
<1>4. \A T \in SUBSET Tunnels : S \subseteq T => Cardinality(S) <= Cardinality(T)
  BY FS_Subset DEF TunnelsAreFinite
<1>5. ASSUME NEW T \in SUBSET Tunnels, S \cap T = {}
      PROVE  Cardinality(S \cup T) = Cardinality(S) + Cardinality(T)
  <2>1. IsFiniteSet(T) /\ Cardinality(T) \in Nat
    BY FS_Subset, FS_CardinalityType DEF TunnelsAreFinite
  <2>2. Cardinality(S \cap T) = 0
    BY <1>5, FS_EmptySet
  <2>3. Cardinality(S \cup T) = Cardinality(S) + Cardinality(T) - Cardinality(S \cap T)
    BY <1>1, <2>1, FS_Union
  <2> QED BY <1>2, <2>1, <2>2, <2>3
<1> QED BY <1>1, <1>2, <1>3, <1>4, <1>5

\* No tunnel yet.
LEMMA TunnelsStart == TunnelsAreFinite /\ RunInit => TunnelInv
<1> SUFFICES ASSUME TunnelsAreFinite, RunInit PROVE TunnelInv
  OBVIOUS
<1>1. Given = {} /\ Joined = {}
  BY DEF RunInit, Given, Joined
<1> QED BY <1>1, FS_EmptySet DEF RunInit, TunnelInv

\* Nothing is accepted, nothing joined.
LEMMA TunnelsStay ==
  ASSUME TunnelInv, UNCHANGED <<proxy, tunnel, accepted, counted>>
  PROVE  TunnelInv'
  BY DEF TunnelInv, Given, Joined

\* Only the proxy and its tunnels count.
LEMMA OthersLeaveTunnels ==
  ASSUME \/ UNCHANGED runVars
         \/ \E o \in Ops : Enters(o) \/ Launches(o) \/ Returns(o) \/ BrowserEnds(o)
         \/ GateOpens \/ ServerHears \/ ServerDrained \/ StationStops \/ StationStopped
         \/ ServerFirst \/ ProxyFirst \/ ServiceEnds
         \/ Interrupt \/ BrokerDies \/ LossSeen \/ Reaps \/ AllReaped \/ MainEnds \/ LeaseCloses
  PROVE  UNCHANGED <<proxy, tunnel, accepted, counted>>
  BY DEF runVars, Enters, Launches, Returns, BrowserEnds, egress, GateOpens, ServerHears,
     ServerDrained, StationStops, StationStopped, ServerStays, ServerFirst, ProxyFirst, ServiceEnds,
     InnerStays, Interrupt, BrokerDies, LossSeen, Reaps, AllReaped, MainEnds, LeaseCloses, MainStays

\* The proxy and its tunnels.
LEMMA ProxyKeeps ==
  ASSUME TunnelsAreFinite, TunnelInv,
         \/ AcceptFails \/ ProxyHears \/ ProxyDrained
         \/ \E t \in Tunnels : Accepts(t) \/ TunnelEnds(t) \/ Joins(t)
  PROVE  TunnelInv'
<1>1. Given \in SUBSET Tunnels /\ Joined \in SUBSET Tunnels /\ Unjoined \in SUBSET Tunnels
  BY DEF Given, Joined, Unjoined
<1>2. /\ Cardinality(Given) \in Nat /\ Cardinality(Joined) \in Nat
      /\ Cardinality(Unjoined) \in Nat
      /\ Joined \subseteq Given => Cardinality(Joined) <= Cardinality(Given)
      /\ Joined \cap Unjoined = {} =>
            Cardinality(Joined \cup Unjoined) = Cardinality(Joined) + Cardinality(Unjoined)
      /\ \A t \in Tunnels \ Given : Cardinality(Given \cup {t}) = Cardinality(Given) + 1
      /\ \A t \in Tunnels \ Joined : Cardinality(Joined \cup {t}) = Cardinality(Joined) + 1
  BY <1>1, TunnelCounts
<1>3. Joined \subseteq Given /\ Joined \cap Unjoined = {}
  BY DEF Given, Joined, Unjoined
<1>4. ASSUME NEW t \in Tunnels, Accepts(t) PROVE TunnelInv'
  <2>1. Given' = Given \cup {t} /\ t \notin Given /\ Joined' = Joined
    BY <1>4 DEF Accepts, Given, Joined, TunnelInv
  <2> QED BY <1>2, <1>4, <2>1 DEF Accepts, TunnelInv
<1>5. ASSUME NEW t \in Tunnels, TunnelEnds(t) PROVE TunnelInv'
  <2>1. Given' = Given /\ Joined' = Joined
    BY <1>5 DEF TunnelEnds, Given, Joined, TunnelInv
  <2> QED BY <1>2, <1>5, <2>1 DEF TunnelEnds, TunnelInv
<1>6. ASSUME NEW t \in Tunnels, Joins(t) PROVE TunnelInv'
  <2>1. Given' = Given /\ Joined' = Joined \cup {t} /\ t \notin Joined
    BY <1>6 DEF Joins, Given, Joined, TunnelInv
  <2> QED BY <1>2, <1>6, <2>1 DEF Joins, TunnelInv
<1>7. CASE ProxyHears
  BY <1>2, <1>7 DEF ProxyHears, TunnelInv, Given, Joined
<1>8. CASE AcceptFails \/ ProxyDrained
  <2>1. Given' = Given /\ proxy.at # "Ended"
    BY <1>8 DEF AcceptFails, ProxyDrained, Dropped, Unjoined, Given, TunnelInv
  <2>2. /\ tunnel' \in [Tunnels -> {"None", "Open", "Done", "Joined", "Dropped"}]
        /\ \A t \in Tunnels : tunnel'[t] # "Open"
    BY <1>8 DEF AcceptFails, ProxyDrained, Dropped, Unjoined, TunnelInv
  <2>3. Given = Joined \cup Unjoined
    BY <2>1 DEF Given, Joined, Unjoined, TunnelInv
  <2>4. Cardinality(Given) = Cardinality(Joined) + Cardinality(Unjoined)
    BY <1>2, <1>3, <2>3
  <2>5. CASE AcceptFails
    BY <1>2, <1>3, <2>1, <2>2, <2>5 DEF AcceptFails, TunnelInv
  <2>6. CASE ProxyDrained
    BY <1>2, <2>1, <2>2, <2>4, <2>6 DEF ProxyDrained, TunnelInv
  <2> QED BY <1>8, <2>5, <2>6
<1> QED BY <1>4, <1>5, <1>6, <1>7, <1>8

\* A proxy that reports its end has counted every connection it accepted (TunnelsAddUp):
\* EgressProxy::run, however many connections there are.
THEOREM TunnelsAreCounted == TunnelsAreFinite /\ RunSpec => []TunnelsAddUp
<1> SUFFICES ASSUME TunnelsAreFinite PROVE RunSpec => []TunnelsAddUp
  OBVIOUS
<1>1. TunnelInv /\ [RunNext]_runVars => TunnelInv'
  BY TunnelsStay, OthersLeaveTunnels, ProxyKeeps DEF RunNext, RunStep
<1>2. TunnelInv => TunnelsAddUp
  BY DEF TunnelInv, TunnelsAddUp
<1> QED BY <1>1, <1>2, TunnelsStart, PTL DEF RunSpec

-----------------------------------------------------------------------------
(* LiveSessions and StationServer *)

\* NoSession is no connection.
NoSessionIsNone == NoSession \notin Connections

\* A reader runs for a session in the table; a shutdown empties the table, and nothing enters it
\* any more.
LiveInv ==
    /\ liveReader \in [Connections -> {"None", "Running", "Aborted", "Ended"}]
    /\ sessions \in [LiveIds -> Connections \cup {NoSession}]
    /\ opening \in [Connections -> [at : {"New", "Entered", "Gone"} \cup Awaits,
                                    id : LiveIds \cup {NoSession}]]
    /\ departing \subseteq Connections
    /\ \A c \in Connections : liveReader[c] = "Running" => c \in Entered
    /\ \A c \in Connections : opening[c].at \in Awaits => opening[c].id \in LiveIds
    /\ closing # "No" => ~ liveAccepting /\ Entered = {}
    /\ closing = "Done" => departing = {}

\* No session yet.
LEMMA LiveStarts == LiveInit => LiveInv
  BY DEF LiveInit, LiveInv, Entered, Awaits

\* What the invariant does not speak of.
LEMMA LiveStays ==
  ASSUME LiveInv,
         UNCHANGED <<liveAccepting, sessions, closing, departing>>,
         \/ opening' = opening
         \/ \E c \in Connections, at \in {"New", "Entered", "Gone"} \cup Awaits :
                /\ opening' = [opening EXCEPT ![c].at = at]
                /\ at \in Awaits => opening[c].at \in Awaits,
         \/ liveReader' = liveReader
         \/ \E c \in Connections, at \in {"Aborted", "Ended"} :
                liveReader' = [liveReader EXCEPT ![c] = at]
  PROVE  LiveInv'
<1>1. Entered' = Entered
  BY DEF Entered
<1>2. /\ liveReader' \in [Connections -> {"None", "Running", "Aborted", "Ended"}]
      /\ \A c \in Connections : liveReader'[c] = "Running" => c \in Entered'
  BY <1>1 DEF LiveInv
<1>3. /\ opening' \in [Connections -> [at : {"New", "Entered", "Gone"} \cup Awaits,
                                      id : LiveIds \cup {NoSession}]]
      /\ \A c \in Connections : opening'[c].at \in Awaits => opening'[c].id \in LiveIds
  BY DEF LiveInv
<1> QED BY <1>1, <1>2, <1>3 DEF LiveInv

\* Sessions are stopped with their readers.
LEMMA StoppingKeeps ==
  ASSUME LiveInv, NEW gone, Stops(gone),
         sessions' \in [LiveIds -> Connections \cup {NoSession}],
         Entered' \subseteq Entered, Entered \subseteq Entered' \cup gone,
         \/ opening' = opening
         \/ \E c \in Connections, id \in LiveIds, at \in {"Leasing", "Gone"} :
                opening' = [opening EXCEPT ![c] = [at |-> at, id |-> id]],
         departing' = departing \/ departing' = Entered,
         \/ closing' = closing /\ liveAccepting' = liveAccepting /\ departing' = departing
         \/ closing' = "Draining" /\ liveAccepting' = FALSE /\ Entered' = {}
  PROVE  LiveInv'
<1>1. /\ liveReader' \in [Connections -> {"None", "Running", "Aborted", "Ended"}]
      /\ \A c \in Connections : liveReader'[c] = "Running" => c \in Entered'
  BY DEF LiveInv, Stops
<1>2. /\ opening' \in [Connections -> [at : {"New", "Entered", "Gone"} \cup Awaits,
                                      id : LiveIds \cup {NoSession}]]
      /\ \A c \in Connections : opening'[c].at \in Awaits => opening'[c].id \in LiveIds
  BY DEF LiveInv, Awaits
<1>3. Entered \subseteq Connections
  BY DEF LiveInv, Entered
<1> QED BY <1>1, <1>2, <1>3 DEF LiveInv

\* Who is left when the expired sessions are taken out.
LEMMA Reaping ==
  ASSUME LiveInv, sessions' = Reaped
  PROVE  /\ sessions' \in [LiveIds -> Connections \cup {NoSession}]
         /\ Entered' \subseteq Entered /\ Entered \subseteq Entered' \cup Expired
<1>1. sessions' \in [LiveIds -> Connections \cup {NoSession}]
  BY DEF LiveInv, Reaped
<1>2. Entered' \subseteq Entered /\ Entered \subseteq Entered' \cup Expired
  BY DEF LiveInv, Reaped, Entered, Expired
<1> QED BY <1>1, <1>2

\* A session begins, or does not.
LEMMA BeginKeeps ==
  ASSUME NoSessionIsNone, LiveInv, NEW c \in Connections,
         (\E id \in LiveIds : BeginChecks(c, id)) \/ BeginStep(c)
  PROVE  LiveInv'
<1>1. ASSUME NEW id \in LiveIds, BeginChecks(c, id) PROVE LiveInv'
  <2>1. CASE liveAccepting
    <3>1. \E at \in {"Leasing", "Gone"} : opening' = [opening EXCEPT ![c] = [at |-> at, id |-> id]]
      BY <1>1, <2>1 DEF BeginChecks
    <3>2. /\ sessions' = Reaped /\ Stops(Expired)
          /\ UNCHANGED <<liveAccepting, departing, closing>>
      BY <1>1, <2>1 DEF BeginChecks
    <3> QED BY <3>1, <3>2, Reaping, StoppingKeeps
  <2>2. CASE ~ liveAccepting
    BY <1>1, <2>2, LiveStays DEF liveVars, BeginChecks, Goes, Awaits
  <2> QED BY <2>1, <2>2
<1>2. CASE BeginLeases(c) \/ BeginNavigates(c) \/ BeginFails(c)
  BY <1>2, LiveStays DEF liveVars, BeginLeases, BeginNavigates, BeginFails, Goes, Awaits
<1>3. CASE BeginEnters(c)
  <2> DEFINE id == opening[c].id
  <2>1. id \in LiveIds
    BY <1>3 DEF BeginEnters, LiveInv, Awaits
  <2>2. CASE liveAccepting /\ Admits(sessions, id)
    <3>1. /\ sessions' = [sessions EXCEPT ![id] = c] /\ sessions[id] = NoSession
          /\ liveReader' = [liveReader EXCEPT ![c] = "Running"]
          /\ opening' = [opening EXCEPT ![c].at = "Entered"]
          /\ UNCHANGED <<liveAccepting, departing, closing>>
      BY <1>3, <2>2 DEF BeginEnters, Admits, Goes
    <3>2. Entered' = Entered \cup {c}
      BY <2>1, <3>1 DEF Entered, NoSessionIsNone, LiveInv
    <3> QED BY <2>1, <2>2, <3>1, <3>2 DEF LiveInv, Awaits
  <2>3. CASE ~ (liveAccepting /\ Admits(sessions, id))
    BY <1>3, <2>3, LiveStays DEF liveVars, BeginEnters, Goes, Awaits
  <2> QED BY <2>2, <2>3
<1> QED BY <1>1, <1>2, <1>3 DEF BeginStep

\* Events, and the ends of readers.
LEMMA ReadersKeep ==
  ASSUME LiveInv, NEW c \in Connections, Event(c) \/ ReaderEnds(c) \/ TimePasses(c)
  PROVE  LiveInv'
  BY LiveStays DEF liveVars, Event, ReaderEnds, TimePasses

\* What clients ask of a session.
LEMMA ClientsKeep ==
  ASSUME NoSessionIsNone, LiveInv, NEW i \in LiveIds,
         StopsLive(i) \/ \E limit \in Nat : Read(i, limit)
  PROVE  LiveInv'
<1>1. CASE StopsLive(i)
  <2>1. /\ sessions' = [sessions EXCEPT ![i] = NoSession] /\ Stops({sessions[i]})
        /\ UNCHANGED <<opening, liveAccepting, departing, closing>>
    BY <1>1 DEF StopsLive
  <2>2. sessions' \in [LiveIds -> Connections \cup {NoSession}]
    BY <2>1 DEF LiveInv
  <2>3. Entered' \subseteq Entered /\ Entered \subseteq Entered' \cup {sessions[i]}
    BY <2>1 DEF LiveInv, Entered
  <2> QED BY <2>1, <2>2, <2>3, StoppingKeeps
<1>2. ASSUME NEW limit, Read(i, limit) PROVE LiveInv'
  <2>1. /\ sessions' = Reaped /\ Stops(Expired)
        /\ UNCHANGED <<opening, liveAccepting, departing, closing>>
    BY <1>2 DEF Read
  <2> QED BY <2>1, Reaping, StoppingKeeps
<1> QED BY <1>1, <1>2

\* The shutdown of the sessions.
LEMMA ClosingKeeps ==
  ASSUME NoSessionIsNone, LiveInv, CloseLive \/ \E timedOut \in BOOLEAN : LiveClosed(timedOut)
  PROVE  LiveInv'
<1>1. CASE CloseLive
  <2>1. sessions' = [i \in LiveIds |-> NoSession] /\ Entered' = {}
    BY <1>1 DEF CloseLive, Entered
  <2>2. sessions' \in [LiveIds -> Connections \cup {NoSession}]
    BY <2>1
  <2> QED BY <1>1, <2>1, <2>2, StoppingKeeps DEF CloseLive
<1>2. ASSUME NEW timedOut \in BOOLEAN, LiveClosed(timedOut) PROVE LiveInv'
  BY <1>2 DEF LiveClosed, LiveInv, Entered
<1> QED BY <1>1, <1>2

\* What the table says of who runs.
LEMMA LiveOwned == LiveInv => ReadersAreOwned
  BY DEF LiveInv, ReadersAreOwned, Held, Awaits

\* No reader runs and no lease is kept for a session that is in nobody's table (ReadersAreOwned):
\* LiveCaptureManager, with begins, polls, stops and the shutdown in any order.
THEOREM ReadersOwned == NoSessionIsNone /\ LiveSpec => []ReadersAreOwned
<1> SUFFICES ASSUME NoSessionIsNone PROVE LiveSpec => []ReadersAreOwned
  OBVIOUS
<1>1. LiveInv /\ [LiveNext]_liveVars => LiveInv'
  <2> SUFFICES ASSUME LiveInv, [LiveNext]_liveVars PROVE LiveInv'
    OBVIOUS
  <2>1. ASSUME NEW i \in LiveIds, NEW limit \in 1..RingCapacity, Read(i, limit) PROVE LiveInv'
    BY <2>1, ClientsKeep
  <2>2. UNCHANGED liveVars => LiveInv'
    BY LiveStays DEF liveVars
  <2> QED BY <2>1, <2>2, BeginKeeps, ReadersKeep, ClientsKeep, ClosingKeeps DEF LiveNext
<1> QED BY <1>1, LiveStarts, LiveOwned, PTL DEF LiveSpec

-----------------------------------------------------------------------------
\* The connections that are served are those to be joined, and there are none once the services
\* are shut down; a begin() is its connection's; the sessions are closed in the order of the code.
Early == Accepting \cup {"Draining"}
Phased ==
    CASE server \in Early \cup {"Crawls", "Collections", "Live"} -> closing = "No"
      [] server = "LiveDrains" -> closing = "Draining"
      [] server \in {"Station", "Reported"} -> closing = "Done"
      [] OTHER -> TRUE
ServerInv ==
    /\ LiveInv
    /\ server \in Early \cup Over \cup {"Crawls", "Collections", "Live", "LiveDrains", "Station"}
    /\ conn \in [Connections -> {"None", "Reading", "Handling", "Beginning", "Writing",
                                 "Farewell", "Sending", "Done"}]
    /\ joinSet \subseteq Connections
    /\ \A c \in Connections : conn[c] \notin {"None", "Done"} => c \in joinSet
    /\ server \notin Early => joinSet = {}
    /\ \A c \in Connections : opening[c].at \in Awaits => conn[c] = "Beginning"
    /\ Phased

\* The server begins.
LEMMA ServerStarts == ServerInit => ServerInv
  BY LiveStarts
     DEF ServerInit, AcceptInit, LiveInit, ServerInv, Early, Accepting, Over, Phased, Awaits

\* Dropping connections.
LEMMA AbortKeeps ==
  ASSUME ServerInv, Aborted(joinSet)
  PROVE  /\ LiveInv'
         /\ conn' \in [Connections -> {"None", "Reading", "Handling", "Beginning", "Writing",
                                       "Farewell", "Sending", "Done"}]
         /\ \A c \in Connections : conn'[c] \in {"None", "Done"}
         /\ \A c \in Connections : opening'[c].at \notin Awaits
         /\ closing' = closing
<1>1. /\ opening' \in [Connections -> [at : {"New", "Entered", "Gone"} \cup Awaits,
                                      id : LiveIds \cup {NoSession}]]
      /\ \A c \in Connections : opening'[c].at \notin Awaits
  BY DEF ServerInv, LiveInv, Aborted, Awaits
<1>2. UNCHANGED <<liveAccepting, sessions, liveReader, departing, closing>>
  BY DEF Aborted
<1>3. Entered' = Entered
  BY <1>2 DEF Entered
<1>4. LiveInv'
  BY <1>1, <1>2, <1>3 DEF ServerInv, LiveInv
<1> QED BY <1>1, <1>2, <1>4 DEF ServerInv, Aborted

\* The accept loop.
LEMMA LoopKeeps ==
  ASSUME ServerInv,
         \/ Loop \/ Receive \/ SeesShutdown \/ AskShutdown \/ PipeFails \/ DrainEnds
         \/ DrainTimesOut
         \/ \E c \in Connections : Connect(c) \/ Join(c)
  PROVE  ServerInv'
<1>1. CASE Loop \/ Receive \/ SeesShutdown \/ AskShutdown \/ DrainEnds
  <2>1. UNCHANGED <<liveVars, conn, joinSet>>
    BY <1>1 DEF Loop, Receive, SeesShutdown, AskShutdown, DrainEnds, ServerGoes
  <2>2. server' \in Early \/ (server' = "Crawls" /\ joinSet = {})
    BY <1>1 DEF Loop, Receive, SeesShutdown, AskShutdown, DrainEnds, ServerGoes, AllJoined, Early,
       Accepting
  <2>3. server \in Early
    BY <1>1 DEF Loop, Receive, SeesShutdown, AskShutdown, DrainEnds, Early, Accepting
  <2>4. LiveInv'
    BY <2>1, LiveStays DEF liveVars, ServerInv
  <2> QED BY <2>1, <2>2, <2>3, <2>4 DEF ServerInv, Phased, Early, Accepting, liveVars
<1>2. CASE PipeFails \/ DrainTimesOut
  <2>1. /\ Aborted(joinSet) /\ joinSet' = {}
        /\ server' = "Failed" \/ (server' = "Crawls" /\ server \in Early)
    BY <1>2 DEF PipeFails, DrainTimesOut, Early
  <2>2. Phased'
    BY <2>1, AbortKeeps DEF ServerInv, Phased, Early, Accepting
  <2> QED BY <2>1, <2>2, AbortKeeps DEF ServerInv, Over, Early
<1>3. ASSUME NEW c \in Connections, Connect(c) PROVE ServerInv'
  <2>1. LiveInv' /\ UNCHANGED liveVars
    BY <1>3, LiveStays DEF liveVars, ServerInv, Connect
  <2> QED BY <1>3, <2>1 DEF Connect, ConnectionGoes, ServerInv, Phased, Early, Accepting, liveVars
<1>4. ASSUME NEW c \in Connections, Join(c) PROVE ServerInv'
  <2>1. LiveInv' /\ UNCHANGED liveVars
    BY <1>4, LiveStays DEF liveVars, ServerInv, Join
  <2> QED BY <1>4, <2>1 DEF Join, ServerInv, Phased, Early, Accepting, liveVars
<1> QED BY <1>1, <1>2, <1>3, <1>4

\* A connection that is served; its begin() is no other's.
LEMMA ConnectionKeeps ==
  ASSUME NoSessionIsNone, ServerInv, NEW c \in Connections, ConnectionStep(c) \/ LiveStep(c)
  PROVE  ServerInv'
<1>0. UNCHANGED <<server, joinSet, closing>>
  BY DEF ConnectionStep, LiveStep, serverVars, Requests, Leaves, Begins, Handled, Writes, Sends,
     ConnectionStays, liveVars, BeginChecks, BeginStep, BeginLeases, BeginNavigates, BeginEnters,
     BeginFails, StopsLive, Read, Event, ReaderEnds, TimePasses
<1>1. LiveInv'
  <2>1. CASE LiveStep(c)
    BY <2>1, ReadersKeep DEF LiveStep, ServerInv
  <2>2. CASE Requests(c)
    <3>1. ASSUME NEW i \in LiveIds, Read(i, 1) PROVE LiveInv'
      BY <3>1, ClientsKeep DEF ServerInv
    <3> QED BY <2>2, <3>1, LiveStays, BeginKeeps, ClientsKeep DEF Requests, ServerInv, liveVars
  <2>3. CASE Begins(c)
    BY <2>3, LiveStays, BeginKeeps DEF Begins, ServerInv, liveVars
  <2>4. CASE Leaves(c) \/ Handled(c) \/ Writes(c) \/ Sends(c)
    BY <2>4, LiveStays DEF liveVars, Leaves, Handled, Writes, Sends, ServerInv
  <2> QED BY <2>1, <2>2, <2>3, <2>4 DEF ConnectionStep
<1>2. /\ conn' \in [Connections -> {"None", "Reading", "Handling", "Beginning", "Writing",
                                    "Farewell", "Sending", "Done"}]
      /\ \A e \in Connections \ {c} : conn'[e] = conn[e]
      /\ conn'[c] # conn[c] => conn[c] \notin {"None", "Done"}
  BY DEF ServerInv, ConnectionStep, LiveStep, serverVars, Requests, Leaves, Begins, Handled, Writes,
     Sends, ConnectionGoes
<1>3. /\ \A e \in Connections \ {c} : opening'[e] = opening[e]
      /\ opening'[c].at \in Awaits => conn'[c] = "Beginning"
  <2>1. CASE LiveStep(c)
    BY <2>1 DEF LiveStep, serverVars, Event, ReaderEnds, TimePasses, ServerInv
  <2>2. CASE Requests(c)
    BY <2>2 DEF Requests, ConnectionGoes, ServerInv, LiveInv, liveVars, BeginChecks, Goes,
       StopsLive, Read
  <2>3. CASE Begins(c)
    BY <2>3 DEF Begins, ConnectionGoes, ServerInv, LiveInv, liveVars, BeginStep, BeginLeases,
       BeginNavigates, BeginEnters, BeginFails, Goes
  <2>4. CASE Leaves(c) \/ Handled(c) \/ Writes(c) \/ Sends(c)
    BY <2>4 DEF Leaves, Handled, Writes, Sends, ConnectionGoes, ServerInv, liveVars
  <2> QED BY <2>1, <2>2, <2>3, <2>4 DEF ConnectionStep
<1>4. \A e \in Connections : opening'[e].at \in Awaits => conn'[e] = "Beginning"
  BY <1>2, <1>3 DEF ServerInv
<1>5. \A e \in Connections : conn'[e] \notin {"None", "Done"} => e \in joinSet'
  BY <1>0, <1>2 DEF ServerInv
<1> QED BY <1>0, <1>1, <1>2, <1>4, <1>5 DEF ServerInv, Phased, Early

\* The services, one after the other.
LEMMA ServicesKeep ==
  ASSUME NoSessionIsNone, ServerInv,
         CrawlsShutDown \/ CollectionsShutDown \/ LiveShutsDown \/ StationShutsDown
  PROVE  ServerInv'
<1>1. UNCHANGED <<conn, joinSet, opening>>
  BY DEF CrawlsShutDown, CollectionsShutDown, LiveShutsDown, StationShutsDown, ServerGoes, liveVars,
     CloseLive, LiveClosed
<1>2. CASE CrawlsShutDown \/ CollectionsShutDown \/ StationShutsDown
  <2>1. LiveInv' /\ closing' = closing
    BY <1>2, LiveStays
       DEF liveVars, CrawlsShutDown, CollectionsShutDown, StationShutsDown, ServerInv, liveVars
  <2> QED BY <1>1, <1>2, <2>1 DEF CrawlsShutDown, CollectionsShutDown, StationShutsDown, ServerGoes,
         ServerInv, Phased, Early, Accepting, Over
<1>3. CASE LiveShutsDown
  <2>1. LiveInv'
    BY <1>3, ClosingKeeps DEF LiveShutsDown, ServerInv
  <2> QED BY <1>1, <1>3, <2>1 DEF LiveShutsDown, CloseLive, LiveClosed, ServerGoes,
         ServerInv, Phased, Early, Accepting, Over
<1> QED BY <1>2, <1>3

\* With connections begun and dropped by the server as well; and when the station is shut down,
\* nobody is left who could use it (ServicesOutliveTheirUsers): run_windows_server().
THEOREM ServicesOutlive ==
    NoSessionIsNone /\ ServerSpec => [](ReadersAreOwned /\ ServicesOutliveTheirUsers)
<1> SUFFICES ASSUME NoSessionIsNone
             PROVE  ServerSpec => [](ReadersAreOwned /\ ServicesOutliveTheirUsers)
  OBVIOUS
<1>1. ServerInv /\ UNCHANGED <<liveVars, serverVars>> => ServerInv'
  BY LiveStays DEF liveVars, ServerInv, Phased, liveVars, serverVars
<1>2. ServerInv /\ [ServerNext]_<<liveVars, serverVars>> => ServerInv'
  BY <1>1, LoopKeeps, ConnectionKeeps, ServicesKeep DEF ServerNext, ServerStep
<1>3. ServerInv => ReadersAreOwned
  BY LiveOwned DEF ServerInv
<1>4. ServerInv => ServicesOutliveTheirUsers
  <2> SUFFICES ASSUME ServerInv PROVE ServicesOutliveTheirUsers
    OBVIOUS
  <2>1. server \notin Accepting \cup {"Draining", "Failed"} =>
            \A c \in Connections : conn[c] \in {"None", "Done"}
    BY DEF ServerInv, Early
  <2>2. ASSUME server \in {"Station", "Reported"}, NEW c \in Connections, Held(c)
        PROVE  liveReader[c] = "Aborted"
    <3>1. closing = "Done" /\ conn[c] \in {"None", "Done"}
      BY <2>1, <2>2 DEF ServerInv, Phased, Early, Accepting
    <3> QED BY <2>2, <3>1 DEF ServerInv, LiveInv, Held, Awaits
  <2> QED BY <2>1, <2>2 DEF ServicesOutliveTheirUsers
<1> QED BY <1>2, <1>3, <1>4, ServerStarts, PTL DEF ServerSpec
=============================================================================
