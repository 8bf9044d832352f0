------------------------------ MODULE CrawlJob ------------------------------
(***************************************************************************)
(* The durable state of a crawl job and what each operation of the crawl   *)
(* engine makes of it (crates/dig2browser-crawler/src/engine.rs): the      *)
(* frontier of discovered pages with their leases and attempts, the event  *)
(* log, and how the job ended.  CrawlEngine runs these operators for       *)
(* workers that share an engine, CrawlService for the station's runner;    *)
(* the lemmas say what each makes of a sound snapshot, for both.           *)
(*                                                                         *)
(* Abstracted: a page is its canonical address; the pages one completion   *)
(* discovers have one rank (the order of links on a page is arbitrary);    *)
(* of an event only that it was logged.                                    *)
(***************************************************************************)
EXTENDS Naturals, FiniteSets, FiniteSetTheorems, TLAPS

CONSTANTS
    Urls,          \* the addresses that occur
    Seeds,         \* spec.seeds
    Scope,         \* the addresses spec.allows
    MaxPages,      \* budget.max_pages
    MaxDepth,      \* budget.max_depth
    MaxFailures,   \* budget.max_failures
    MaxAttempts,   \* budget.max_attempts_per_url
    MaxEvents,     \* MAX_EVENTS of the log
    NoToken

ASSUME JobAssumption ==
    /\ IsFiniteSet(Urls)
    /\ Seeds \subseteq Scope /\ Scope \subseteq Urls /\ Seeds # {}
    /\ MaxPages \in Nat /\ Cardinality(Seeds) <= MaxPages
    /\ MaxDepth \in Nat
    /\ MaxFailures \in Nat \ {0} /\ MaxFailures <= MaxPages
    /\ MaxAttempts \in Nat \ {0}
    /\ MaxEvents \in Nat
    /\ NoToken \notin [url : Urls, attempt : Nat, expires : Nat]

PageStates == {"Unknown", "Pending", "InFlight", "Completed", "Failed"}

\* attempts: claims of the page.  rank: when it was discovered.  expires: of its lease.
Jobs == [page : [Urls -> PageStates], attempts : [Urls -> Nat], depth : [Urls -> Nat],
         rank : [Urls -> Nat], expires : [Urls -> Nat],
         cancelled : BOOLEAN, failed : BOOLEAN, events : Nat]

In(j, st) == {u \in Urls : j.page[u] = st}
Frontier(j) == Urls \ In(j, "Unknown")

\* status(): what the job is, from its pages.
Phase(j) ==
    IF j.failed THEN "Failed"
    ELSE IF j.cancelled THEN "Cancelled"
    ELSE IF Cardinality(In(j, "Failed")) >= MaxFailures THEN "FailureBudgetExhausted"
    ELSE IF In(j, "Pending") \cup In(j, "InFlight") # {} THEN "Running"
    ELSE IF In(j, "Failed") = {} THEN "Completed" ELSE "CompletedWithFailures"

\* ensure_job_mutable
\* Mutant: a cancelled job is, too.
MutableUnlessFailed(j) == ~ j.failed
Mutable(j) == ~ j.failed /\ ~ j.cancelled

-----------------------------------------------------------------------------
Created ==
    [page |-> [u \in Urls |-> IF u \in Seeds THEN "Pending" ELSE "Unknown"],
     attempts |-> [u \in Urls |-> 0], depth |-> [u \in Urls |-> 0],
     rank |-> [u \in Urls |-> 0], expires |-> [u \in Urls |-> 0],
     cancelled |-> FALSE, failed |-> FALSE, events |-> 1 + Cardinality(Seeds)]

\* claim_next: the pages it may hand out, all of the first rank that is left.
Claimable(j) ==
    LET open == {u \in In(j, "Pending") : j.attempts[u] < MaxAttempts}
    IN  IF Cardinality(In(j, "Failed")) >= MaxFailures THEN {}
        ELSE {u \in open : \A v \in open : j.rank[u] <= j.rank[v]}

Claimed(j, u, expiry) ==
    [j EXCEPT !.page[u] = "InFlight", !.attempts[u] = @ + 1,
              !.expires[u] = expiry, !.events = @ + 1]

\* The token of a page in flight; a token is live if it is that of the active lease.
Token(j, u) == [url |-> u, attempt |-> j.attempts[u], expires |-> j.expires[u]]
\* Mutant: any token of the page is.
LiveAny(j, t) == j.page[t.url] = "InFlight"
Live(j, t) == j.page[t.url] = "InFlight" /\ t = Token(j, t.url)

Renewed(j, u, expiry) == [j EXCEPT !.expires[u] = expiry, !.events = @ + 1]

\* complete_inner: the links that are new, in scope and not too deep, as many as the
\* page budget has room for.
Welcome(j, u, links) ==
    IF j.depth[u] >= MaxDepth THEN {} ELSE links \cap Scope \cap In(j, "Unknown")

Discoveries(j, u, links) ==
    {new \in SUBSET Welcome(j, u, links) :
        /\ Cardinality(Frontier(j)) + Cardinality(new) <= MaxPages
        /\ \/ new = Welcome(j, u, links)
           \/ Cardinality(Frontier(j)) + Cardinality(new) = MaxPages}

Completed(j, u, new) ==
    [j EXCEPT !.page = [v \in Urls |-> IF v = u THEN "Completed"
                                       ELSE IF v \in new THEN "Pending" ELSE @[v]],
              !.depth = [v \in Urls |-> IF v \in new THEN j.depth[u] + 1 ELSE @[v]],
              !.rank = [v \in Urls |-> IF v \in new THEN Cardinality(Frontier(j)) ELSE @[v]],
              !.events = @ + 1 + Cardinality(new)]

\* Mutant: the last attempt is not counted.
MayRetryOnceMore(j, u, retryable) ==
    /\ retryable
    /\ j.attempts[u] <= MaxAttempts
    /\ Cardinality(In(j, "Failed")) < MaxFailures

MayRetry(j, u, retryable) ==
    /\ retryable
    /\ j.attempts[u] < MaxAttempts
    /\ Cardinality(In(j, "Failed")) < MaxFailures

Failed(j, u, retryable) ==
    [j EXCEPT !.page[u] = IF MayRetry(j, u, retryable) THEN "Pending" ELSE "Failed",
              !.events = @ + 1]

\* requeue_failed
MayRequeue(j, u) == j.page[u] = "Failed" /\ j.attempts[u] < MaxAttempts
Requeued(j, u) == [j EXCEPT !.page[u] = "Pending", !.events = @ + 1]

\* recover_leases, of the pages whose lease is lost.
Recovered(j, lost) ==
    [j EXCEPT !.page = [u \in Urls |->
                           IF u \notin lost THEN @[u]
                           ELSE IF j.attempts[u] >= MaxAttempts THEN "Failed" ELSE "Pending"],
              !.events = @ + Cardinality(lost)]

Cancelled(j) == [j EXCEPT !.cancelled = TRUE, !.events = @ + 1]
JobFailed(j) == [j EXCEPT !.failed = TRUE, !.events = @ + 1]

-----------------------------------------------------------------------------
\* validate_snapshot, and apart from it the limit of the event log.
Valid(j) ==
    /\ Cardinality(Frontier(j)) <= MaxPages
    /\ ~ (j.cancelled /\ j.failed)
    /\ Frontier(j) \subseteq Scope
    /\ \A u \in Frontier(j) : j.depth[u] <= MaxDepth
    /\ \A u \in In(j, "InFlight") : j.attempts[u] > 0
    /\ \A u \in Seeds : u \in Frontier(j) /\ j.depth[u] = 0

LogFits(j) == j.events <= MaxEvents

-----------------------------------------------------------------------------
(* What the operations make of a sound snapshot *)

\* A snapshot whose attempts fit the state of its pages.
Sound(j) ==
    /\ j \in Jobs
    /\ \A u \in Urls :
         /\ j.attempts[u] <= MaxAttempts
         /\ j.page[u] = "InFlight" => j.attempts[u] > 0
         /\ j.page[u] = "Pending" => j.attempts[u] < MaxAttempts
         /\ j.page[u] = "Unknown" => j.attempts[u] = 0

\* n is sound and takes nothing of j back.
Supersedes(j, n) ==
    /\ Sound(n)
    /\ \A u \in Urls : /\ j.attempts[u] <= n.attempts[u]
                       /\ j.page[u] = "Completed" => n.page[u] = "Completed"


\* Sets of pages are finite, so that counting them gives numbers.
LEMMA PagesAreFinite ==
    ASSUME NEW S \in SUBSET Urls
    PROVE  IsFiniteSet(S) /\ Cardinality(S) \in Nat
BY JobAssumption, FS_Subset, FS_CardinalityType DEF JobAssumption

\* The fields of a snapshot.
LEMMA Fields ==
    ASSUME NEW j \in Jobs
    PROVE  /\ j.page \in [Urls -> PageStates] /\ j.attempts \in [Urls -> Nat]
           /\ j.expires \in [Urls -> Nat] /\ j.events \in Nat
BY DEF Jobs

\* The snapshot of a new job is sound.
LEMMA CreatedIsSound == Sound(Created)
<1>1. 1 + Cardinality(Seeds) \in Nat /\ MaxAttempts \in Nat \ {0}
  BY JobAssumption, PagesAreFinite DEF JobAssumption
<1>2. Created \in Jobs
  BY <1>1 DEF Created, Jobs, PageStates
<1> QED
  BY <1>1, <1>2 DEF Created, Sound

\* A claim counts as an attempt, and only a page with attempts left is claimed.
LEMMA ClaimedFollows ==
    ASSUME NEW j, Sound(j), NEW u \in Claimable(j), NEW e \in Nat
    PROVE  u \in Urls /\ Supersedes(j, Claimed(j, u, e))
           /\ Claimed(j, u, e).attempts = [j.attempts EXCEPT ![u] = @ + 1]
<1>1. u \in Urls /\ j.attempts[u] < MaxAttempts /\ j.page[u] = "Pending"
  BY DEF Claimable, In
<1>2. MaxAttempts \in Nat
  BY JobAssumption DEF JobAssumption
<1>3. Claimed(j, u, e) \in Jobs
  <2> DEFINE page == [j.page EXCEPT ![u] = "InFlight"]
             attempts == [j.attempts EXCEPT ![u] = @ + 1]
             expires == [j.expires EXCEPT ![u] = e]
             events == j.events + 1
  <2>1. page \in [Urls -> PageStates] /\ attempts \in [Urls -> Nat] /\ expires \in [Urls -> Nat] /\ events \in Nat
    BY <1>1, Fields DEF Sound, PageStates
  <2>2. Claimed(j, u, e) = [j EXCEPT !.page = page, !.attempts = attempts, !.expires = expires,
                                       !.events = events]
    BY DEF Claimed
  <2>3. j \in Jobs
    BY DEF Sound
  <2> HIDE DEF page, attempts, expires, events
  <2> QED
    BY <2>1, <2>2, <2>3 DEF Jobs
<1> QED
  BY <1>1, <1>2, <1>3 DEF Claimed, Sound, Supersedes, Jobs

\* A renewal changes the expiry only.
LEMMA RenewedFollows ==
    ASSUME NEW j, Sound(j), NEW u \in Urls, NEW e \in Nat
    PROVE  Supersedes(j, Renewed(j, u, e)) /\ Renewed(j, u, e).attempts = j.attempts
           /\ Renewed(j, u, e).expires[u] = e
<1>1. Renewed(j, u, e) \in Jobs
  <2> DEFINE expires == [j.expires EXCEPT ![u] = e]
             events == j.events + 1
  <2>1. expires \in [Urls -> Nat] /\ events \in Nat
    BY Fields DEF Sound, PageStates
  <2>2. Renewed(j, u, e) = [j EXCEPT !.expires = expires, !.events = events]
    BY DEF Renewed
  <2>3. j \in Jobs
    BY DEF Sound
  <2> HIDE DEF expires, events
  <2> QED
    BY <2>1, <2>2, <2>3 DEF Jobs
<1> QED
  BY <1>1 DEF Renewed, Sound, Supersedes, Jobs

\* A completion enters pages that were unknown, which have no attempt yet.
LEMMA CompletedFollows ==
    ASSUME NEW j, Sound(j), NEW u \in Urls, NEW links,
           NEW new \in Discoveries(j, u, links), j.page[u] = "InFlight"
    PROVE  Supersedes(j, Completed(j, u, new)) /\ Completed(j, u, new).attempts = j.attempts
           /\ Completed(j, u, new).page[u] = "Completed"
<1>1. new \subseteq Urls /\ \A v \in new : j.page[v] = "Unknown"
  BY DEF Discoveries, Welcome, In
<1>2. Cardinality(new) \in Nat /\ Cardinality(Frontier(j)) \in Nat
  BY <1>1, PagesAreFinite DEF Frontier
<1>3. MaxAttempts \in Nat \ {0}
  BY JobAssumption DEF JobAssumption
<1>4. /\ j.page \in [Urls -> PageStates] /\ j.attempts \in [Urls -> Nat]
      /\ j.depth \in [Urls -> Nat] /\ j.rank \in [Urls -> Nat] /\ j.events \in Nat
  BY DEF Sound, Jobs
<1> DEFINE n == Completed(j, u, new)
           page == [v \in Urls |-> IF v = u THEN "Completed"
                                   ELSE IF v \in new THEN "Pending" ELSE j.page[v]]
           depth == [v \in Urls |-> IF v \in new THEN j.depth[u] + 1 ELSE j.depth[v]]
           rank == [v \in Urls |-> IF v \in new THEN Cardinality(Frontier(j)) ELSE j.rank[v]]
<1>5. n = [j EXCEPT !.page = page, !.depth = depth, !.rank = rank,
                    !.events = j.events + 1 + Cardinality(new)]
  BY DEF Completed
<1>6. /\ page \in [Urls -> PageStates] /\ depth \in [Urls -> Nat] /\ rank \in [Urls -> Nat]
      /\ j.events + 1 + Cardinality(new) \in Nat
  BY <1>2, <1>4 DEF PageStates
<1>7. n \in Jobs /\ n.page = page /\ n.attempts = j.attempts
  <2> HIDE DEF n, page, depth, rank
  <2> QED
    BY <1>5, <1>6 DEF Sound, Jobs
<1>8. Sound(n)
  BY <1>1, <1>3, <1>4, <1>7 DEF Sound
<1> QED
  BY <1>1, <1>4, <1>7, <1>8 DEF Supersedes

\* A failed page is pending again only while it has attempts left.
LEMMA FailedFollows ==
    ASSUME NEW j, Sound(j), NEW u \in Urls, j.page[u] = "InFlight", NEW retryable \in BOOLEAN
    PROVE  Supersedes(j, Failed(j, u, retryable)) /\ Failed(j, u, retryable).attempts = j.attempts
<1>1. Failed(j, u, retryable) \in Jobs
  <2> DEFINE page == [j.page EXCEPT ![u] =
                           IF MayRetry(j, u, retryable) THEN "Pending" ELSE "Failed"]
             events == j.events + 1
  <2>1. page \in [Urls -> PageStates] /\ events \in Nat
    BY Fields DEF Sound, PageStates
  <2>2. Failed(j, u, retryable) = [j EXCEPT !.page = page, !.events = events]
    BY DEF Failed
  <2>3. j \in Jobs
    BY DEF Sound
  <2> HIDE DEF page, events
  <2> QED
    BY <2>1, <2>2, <2>3 DEF Jobs
<1> QED
  BY <1>1 DEF Failed, Sound, Supersedes, Jobs, MayRetry

\* So is one that is requeued.
LEMMA RequeuedFollows ==
    ASSUME NEW j, Sound(j), NEW u \in Urls, MayRequeue(j, u)
    PROVE  Supersedes(j, Requeued(j, u)) /\ Requeued(j, u).attempts = j.attempts
<1>1. Requeued(j, u) \in Jobs
  <2> DEFINE page == [j.page EXCEPT ![u] = "Pending"]
             events == j.events + 1
  <2>1. page \in [Urls -> PageStates] /\ events \in Nat
    BY Fields DEF Sound, PageStates
  <2>2. Requeued(j, u) = [j EXCEPT !.page = page, !.events = events]
    BY DEF Requeued
  <2>3. j \in Jobs
    BY DEF Sound
  <2> HIDE DEF page, events
  <2> QED
    BY <2>1, <2>2, <2>3 DEF Jobs
<1> QED
  BY <1>1 DEF Requeued, Sound, Supersedes, Jobs, MayRequeue

\* And one whose lease is lost.
LEMMA RecoveredFollows ==
    ASSUME NEW j, Sound(j), NEW lost \in SUBSET In(j, "InFlight")
    PROVE  Supersedes(j, Recovered(j, lost)) /\ Recovered(j, lost).attempts = j.attempts
<1>1. lost \subseteq Urls /\ \A u \in lost : j.page[u] = "InFlight"
  BY DEF In
<1>2. Cardinality(lost) \in Nat /\ MaxAttempts \in Nat
  BY <1>1, PagesAreFinite, JobAssumption DEF JobAssumption
<1>3. /\ j.page \in [Urls -> PageStates] /\ j.attempts \in [Urls -> Nat] /\ j.events \in Nat
  BY DEF Sound, Jobs
<1> DEFINE n == Recovered(j, lost)
           page == [u \in Urls |-> IF u \notin lost THEN j.page[u]
                                   ELSE IF j.attempts[u] >= MaxAttempts THEN "Failed"
                                   ELSE "Pending"]
<1>4. n = [j EXCEPT !.page = page, !.events = j.events + Cardinality(lost)]
  BY DEF Recovered
<1>5. page \in [Urls -> PageStates] /\ j.events + Cardinality(lost) \in Nat
  BY <1>2, <1>3 DEF PageStates
<1>6. n \in Jobs /\ n.page = page /\ n.attempts = j.attempts
  <2> HIDE DEF n, page
  <2> QED
    BY <1>4, <1>5 DEF Sound, Jobs
<1> QED
  BY <1>1, <1>2, <1>3, <1>6 DEF Sound, Supersedes

\* The end of a job leaves its pages alone.
LEMMA EndFollows ==
    ASSUME NEW j, Sound(j)
    PROVE  /\ Supersedes(j, Cancelled(j)) /\ Cancelled(j).attempts = j.attempts
           /\ Supersedes(j, JobFailed(j)) /\ JobFailed(j).attempts = j.attempts
<1>1. Cancelled(j) \in Jobs /\ JobFailed(j) \in Jobs
  <2> DEFINE events == j.events + 1
  <2>1. events \in Nat /\ j \in Jobs
    BY Fields DEF Sound
  <2>2. /\ Cancelled(j) = [j EXCEPT !.cancelled = TRUE, !.events = events]
        /\ JobFailed(j) = [j EXCEPT !.failed = TRUE, !.events = events]
    BY DEF Cancelled, JobFailed
  <2>3. \A f \in BOOLEAN : /\ [j EXCEPT !.cancelled = f, !.events = events] \in Jobs
                           /\ [j EXCEPT !.failed = f, !.events = events] \in Jobs
    <3> HIDE DEF events
    <3> QED
      BY <2>1 DEF Jobs
  <2> QED
    BY <2>2, <2>3
<1> QED
  BY <1>1 DEF Cancelled, JobFailed, Sound, Supersedes, Jobs
=============================================================================
