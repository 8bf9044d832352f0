---------------------------- MODULE CrawlReading ----------------------------
(***************************************************************************)
(* What a client of the station gets to know of a crawl job: which request *)
(* began it, the pages and links that make its log, and the log as it is   *)
(* read, page by page, over restarts of the daemon                         *)
(* (crates/dig2browser-station/src/crawl.rs, begin, completion_for_page,   *)
(* read_events; crates/dig2browser-protocol/src/crawl.rs).  What the       *)
(* engine makes of the job is CrawlJob; here each step also names its      *)
(* events.  A page is fetched by one runner; how, is CrawlService.         *)
(*                                                                         *)
(* Abstracted: an address that the crawler keeps is itself, in Dotted if   *)
(* the protocol does not take it for canonical (a query with "/../" in it, *)
(* or one that ends in "?"), in Long if it is longer than                  *)
(* MAX_CRAWL_URL_BYTES; sizes are counted in units.                        *)
(***************************************************************************)
EXTENDS CrawlJob, SequencesExt

CONSTANTS
    Dotted, Long,  \* see above
    OriginOf,      \* the origin of each address
    Units,         \* what an event about an address takes of a page of events
    PageRoom,      \* MAX_REQUEST_BYTES, for a page of events
    Limits,        \* limits a reader asks for, 1..MAX_CRAWL_EVENTS
    Margin,        \* 64: links looked at beyond those there is room for
    Documents,     \* the links of a document, in its order, as they resolve
    CrawlRequests, \* what clients ask for under the job's id
    Settings,      \* the navigation policy and --allow-authenticated-crawl of a start
    MaxSeeds, MaxOrigins, PagesLimit, DepthLimit, RetryLimit,  \* MAX_CRAWL_*
    RequestRoom,   \* MAX_REQUEST_BYTES, for a request
    BindingExtra,  \* what encode_binding puts before the request
    NoUrl, NoJournal,
    MaxStarts, MaxWriteErrors  \* bounds: starts of the daemon, writes that fail

VARIABLES
    saved,     \* the journal of the job
    crawl,    \* the job in memory
    served,   \* "Down", "Opening", "Serving"
    setting,
    driver,   \* the runner: "Off", "Loop", "Busy" with the page in flight, "Dying"
    broken,   \* job.unavailable
    accepted,     \* requests that were accepted
    reading,  \* of one reader: its cursor, what it has read, whether that is complete, its refusal
    starts, writeErrors

readingVars == <<saved, crawl, served, setting, driver, broken, accepted, reading, starts, writeErrors>>

-----------------------------------------------------------------------------
(* Requests *)

\* validate_canonical_url, of an address the crawler keeps.
Canonical(u) == u \notin Dotted \cup Long

\* CrawlSpec::validate and, with the persona, CrawlRequest::validate.
ValidSpec(s) ==
    /\ s.seeds # {} /\ Cardinality(s.seeds) <= MaxSeeds /\ Cardinality(s.seeds) <= s.pages
    /\ s.origins # {} /\ Cardinality(s.origins) <= MaxOrigins
    /\ s.pages \in 1..PagesLimit /\ s.depth <= DepthLimit /\ s.retries <= RetryLimit
    /\ \A u \in s.seeds : Canonical(u) /\ OriginOf[u] \in s.origins
ValidRequest(r) == ValidSpec(r.spec) /\ r.size <= RequestRoom

\* validate_navigation_target
Permitted(u) == OriginOf[u] \in setting.origins
\* validate_wire_spec
PermittedSpec(s, at) ==
    /\ ValidSpec(s)
    /\ s.origins \subseteq at.origins
    /\ \A u \in s.seeds : OriginOf[u] \in at.origins

\* encode_binding: the request with the profile before it.
Binds(r) == r.size + BindingExtra <= RequestRoom

\* to_engine_spec: the request's spec as the constants of CrawlJob.
IsTheJob(s) ==
    /\ s.seeds = Seeds /\ Scope = {u \in Urls : OriginOf[u] \in s.origins}
    /\ s.pages = MaxPages /\ s.pages = MaxFailures
    /\ s.depth = MaxDepth /\ s.retries + 1 = MaxAttempts

-----------------------------------------------------------------------------
(* The journal *)

Event(kind, u, d, n) == [kind |-> kind, url |-> u, depth |-> d, attempt |-> n]
JobEvent(kind) == Event(kind, NoUrl, 0, 0)
EventKinds == {"JobCreated", "Enqueued", "Claimed", "Completed", "Failed", "Retried", "Recovered",
               "Cancelled", "JobFailed"}

Enqueued(list, d) == [i \in 1..Len(list) |-> Event("Enqueued", list[i], d, 0)]

CreatedBy(r) ==
    [held |-> r, job |-> Created, log |-> <<JobEvent("JobCreated")>> \o Enqueued(SetToSeq(Seeds), 0)]

Logged(next, events) == [crawl EXCEPT !.job = next, !.log = @ \o events]

\* commit(): memory follows once the store has the journal; a save that fails may have effect.
Saves(next) == saved' = next /\ crawl' = next /\ UNCHANGED writeErrors
SaveErrs(next) ==
    /\ writeErrors < MaxWriteErrors /\ writeErrors' = writeErrors + 1
    /\ saved' \in {saved, next} /\ UNCHANGED crawl

PhaseIs(name) == crawl # NoJournal /\ Phase(crawl.job) = name
InWork == CHOOSE u \in In(crawl.job, "InFlight") : TRUE
AboutWork(kind) ==
    <<Event(kind, InWork, crawl.job.depth[InWork], crawl.job.attempts[InWork])>>

-----------------------------------------------------------------------------
(* Begin *)

\* begin(): what it answers, in the order of its checks.
BeginAnswer(r) ==
    IF r.class # "Public" /\ ~ setting.authenticated THEN "AuthenticatedProfileUnsupported"
    ELSE IF ~ PermittedSpec(r.spec, setting) \/ ~ ValidRequest(r) THEN "Invalid"
    ELSE IF ~ Binds(r) THEN "InvalidBinding"
    ELSE IF crawl = NoJournal THEN IF saved # NoJournal THEN "JobConflict" ELSE "Creates"
    ELSE IF broken THEN "JobUnavailable"
    ELSE IF crawl.held = r THEN "Accepted" ELSE "JobConflict"

Begin(r) ==
    /\ served = "Serving"
    /\ \/ BeginAnswer(r) = "Accepted" /\ accepted' = accepted \cup {r}
          /\ UNCHANGED <<saved, crawl, driver, writeErrors>>
       \/ BeginAnswer(r) = "Creates"
          /\ \/ Saves(CreatedBy(r)) /\ accepted' = accepted \cup {r} /\ driver' = "Loop"
             \/ SaveErrs(CreatedBy(r)) /\ UNCHANGED <<accepted, driver>>
    /\ UNCHANGED <<served, setting, broken, reading, starts>>

-----------------------------------------------------------------------------
(* The runner *)

Step(next, after) ==
    /\ served = "Serving"
    /\ \/ Saves(next) /\ driver' = after
       \/ SaveErrs(next) /\ driver' = "Dying"
    /\ UNCHANGED <<served, setting, broken, accepted, reading, starts>>

Turn(after) ==
    /\ served = "Serving" /\ driver' = after
    /\ UNCHANGED <<saved, crawl, served, setting, broken, accepted, reading, starts, writeErrors>>

ClaimPage ==
    /\ driver = "Loop" /\ PhaseIs("Running")
    /\ \E u \in Claimable(crawl.job) :
          Step(Logged(Claimed(crawl.job, u, 0),
                      <<Event("Claimed", u, crawl.job.depth[u], crawl.job.attempts[u] + 1)>>),
               "Busy")

\* Nothing to claim, or the job was ended by somebody else.
RunnerStops ==
    \/ driver = "Loop" /\ (~ PhaseIs("Running") \/ Claimable(crawl.job) = {}) /\ Turn("Off")
    \/ driver = "Busy" /\ ~ PhaseIs("Running") /\ Turn("Off")

\* completion_for_page(): the first links of the document, as many as there may be room for and
\* some more; only then those that are too long or not permitted are left out.
LinksOf(doc) ==
    LET room == MaxPages - Cardinality(Frontier(crawl.job))
        first == IF room = 0 THEN 0
                 ELSE IF room + Margin < Len(doc) THEN room + Margin ELSE Len(doc)
    IN  SelectSeq(SubSeq(doc, 1, first), LAMBDA u : u \notin Long /\ Permitted(u))

\* complete_inner(): of those the ones that are new and in scope, while the budget lasts.
NewLinks(doc) ==
    LET welcome == Welcome(crawl.job, InWork, Urls)
        fresh == SelectSeq(LinksOf(doc), LAMBDA u : u \in welcome)
        room == MaxPages - Cardinality(Frontier(crawl.job))
    IN  SubSeq(fresh, 1, IF Len(fresh) < room THEN Len(fresh) ELSE room)

WithPage(doc) ==
    Logged(Completed(crawl.job, InWork, ToSet(NewLinks(doc))),
           AboutWork("Completed") \o Enqueued(NewLinks(doc), crawl.job.depth[InWork] + 1))

FinishPage ==
    /\ driver = "Busy" /\ PhaseIs("Running")
    /\ \E doc \in Documents : Step(WithPage(doc), "Loop")

\* A status outside 100..=599: complete() refuses it, and that ends the job.
OddStatus == driver = "Busy" /\ PhaseIs("Running") /\ Turn("Dying")

WithFailure(retryable) ==
    LET next == Failed(crawl.job, InWork, retryable)
    IN  Logged(next, AboutWork(IF next.page[InWork] = "Pending" THEN "Retried" ELSE "Failed"))

WithRecovery ==
    LET next == Recovered(crawl.job, {InWork})
    IN  Logged(next, AboutWork(IF next.page[InWork] = "Pending" THEN "Recovered" ELSE "Failed"))

\* fail(), or recover_leases() after the lease has expired.
MissPage ==
    /\ driver = "Busy" /\ PhaseIs("Running")
    /\ \/ \E retryable \in BOOLEAN : Step(WithFailure(retryable), "Loop")
       \/ Step(WithRecovery, "Loop")

\* persist_runner_failure()
RunnerFails ==
    /\ served = "Serving" /\ driver = "Dying" /\ driver' = "Off"
    /\ IF ~ PhaseIs("Running") THEN UNCHANGED <<saved, crawl, broken, writeErrors>>
       ELSE LET next == Logged(JobFailed(crawl.job), <<JobEvent("JobFailed")>>)
            IN  \/ Saves(next) /\ UNCHANGED broken
                \/ SaveErrs(next) /\ broken' = TRUE
    /\ UNCHANGED <<served, setting, accepted, reading, starts>>

CancelJob ==
    /\ served = "Serving" /\ ~ broken /\ PhaseIs("Running")
    /\ LET next == Logged(Cancelled(crawl.job), <<JobEvent("Cancelled")>>)
       IN  Saves(next) \/ SaveErrs(next)
    /\ UNCHANGED <<served, setting, driver, broken, accepted, reading, starts>>

-----------------------------------------------------------------------------
(* Start, shutdown and crash *)

\* open_deferred(): the spec of the stored job must pass the policy of this start.
Start ==
    /\ served = "Down" /\ starts < MaxStarts /\ starts' = starts + 1
    /\ \E s \in Settings :
          /\ saved # NoJournal => PermittedSpec(saved.held.spec, s)
          /\ setting' = s
    /\ served' = "Opening" /\ crawl' = saved /\ broken' = FALSE /\ driver' = "Off"
    /\ UNCHANGED <<saved, accepted, reading, writeErrors>>

\* reconcile_in_flight() and recover_leases(): the page in flight has a capture or is pending again.
Settled ==
    IF In(crawl.job, "InFlight") = {} THEN {crawl}
    ELSE {WithPage(doc) : doc \in Documents} \cup {WithRecovery}

Gone == served' = "Down" /\ crawl' = NoJournal

\* reconcile_and_recover() and start_runners()
MayRun == PhaseIs("Running") /\ (crawl.held.class = "Public" \/ setting.authenticated)
Recover ==
    /\ served = "Opening"
    /\ \/ ~ MayRun /\ served' = "Serving" /\ UNCHANGED <<driver, saved, crawl, writeErrors>>
       \/ MayRun /\ \E next \in Settled :
             \/ /\ IF next = crawl THEN UNCHANGED <<saved, crawl, writeErrors>> ELSE Saves(next)
                /\ served' = "Serving"
                /\ driver' = IF Phase(next.job) = "Running" THEN "Loop" ELSE "Off"
             \/ /\ next # crawl /\ writeErrors < MaxWriteErrors /\ writeErrors' = writeErrors + 1
                /\ saved' \in {saved, next} /\ Gone /\ UNCHANGED driver
    /\ UNCHANGED <<setting, broken, accepted, reading, starts>>

\* shutdown(), which settles a job that runs, and a crash at any moment.
Shutdown ==
    /\ served = "Serving" /\ Gone /\ driver' = "Off"
    /\ IF broken \/ ~ PhaseIs("Running") THEN UNCHANGED saved
       ELSE \E next \in Settled : saved' = next
    /\ UNCHANGED <<setting, broken, accepted, reading, starts, writeErrors>>

Crash ==
    /\ served \in {"Opening", "Serving"} /\ Gone /\ driver' = "Off"
    /\ UNCHANGED <<saved, setting, broken, accepted, reading, starts, writeErrors>>

-----------------------------------------------------------------------------
(* Reading *)

\* to_protocol_event()
WireKind ==
    [JobCreated |-> "JobStarted", Enqueued |-> "UrlQueued", Claimed |-> "PageStarted",
     Completed |-> "PageSucceeded", Failed |-> "PageFailed", Retried |-> "RetryScheduled",
     Recovered |-> "Recovered", Cancelled |-> "JobCancelled", JobFailed |-> "JobFailed"]
Wire(e) == [e EXCEPT !.kind = WireKind[@]]

\* CrawlEvent::validate, of an event of the log.
Representable(e) ==
    e.url # NoUrl =>
        /\ Canonical(e.url) /\ e.depth <= DepthLimit
        /\ IF e.kind = "UrlQueued" THEN e.attempt = 0 ELSE e.attempt \in 1 .. (RetryLimit + 1)

\* terminal_event(): after the last event of a job that ended by itself.
Terminal(j) ==
    CASE Phase(j.job) = "Completed" -> <<JobEvent("JobSucceeded")>>
      [] Phase(j.job) \in {"CompletedWithFailures", "FailureBudgetExhausted"} ->
            <<JobEvent("JobFailed")>>
      [] OTHER -> <<>>

\* All there is to read, and protocol_last_cursor.
Story(j) == [i \in 1..Len(j.log) |-> Wire(j.log[i])] \o Terminal(j)
LastCursor(j) == Len(Story(j))

Ended(j) == Phase(j.job) # "Running"

Weight(events) ==
    FoldLeft(LAMBDA sum, e : sum + 1 + (IF e.url = NoUrl THEN 0 ELSE Units[e.url]), 0, events)

\* read_events(): the events after the cursor, not more than asked for.
Batch(j, cursor, limit) ==
    LET end == IF cursor + limit < LastCursor(j) THEN cursor + limit ELSE LastCursor(j)
    IN  SubSeq(Story(j), cursor + 1, end)

\* The events are translated one by one, then the page is validated.
ReadAnswer(j, cursor, limit) ==
    IF cursor > LastCursor(j) THEN "InvalidCursor"
    ELSE LET batch == Batch(j, cursor, limit)
         IN  IF \E i \in 1..Len(batch) : ~ Representable(batch[i]) THEN "Unrepresentable"
             ELSE IF Weight(batch) > PageRoom THEN "TooLarge" ELSE "Events"

Read(limit) ==
    /\ served = "Serving" /\ crawl # NoJournal /\ ~ broken
    /\ LET answer == ReadAnswer(crawl, reading.cursor, limit)
           batch == Batch(crawl, reading.cursor, limit)
           next == reading.cursor + Len(batch)
       IN  reading' =
              IF answer # "Events" THEN [reading EXCEPT !.refused = answer]
              ELSE [cursor |-> next, seen |-> reading.seen \o batch, refused |-> "None",
                    complete |-> Ended(crawl) /\ next >= LastCursor(crawl)]
    /\ UNCHANGED <<saved, crawl, served, setting, driver, broken, accepted, starts, writeErrors>>

-----------------------------------------------------------------------------
ReadingInit ==
    /\ saved = NoJournal /\ crawl = NoJournal /\ served = "Down" /\ driver = "Off"
    /\ setting \in Settings /\ broken = FALSE /\ accepted = {}
    /\ reading = [cursor |-> 0, seen |-> <<>>, complete |-> FALSE, refused |-> "None"]
    /\ starts = 0 /\ writeErrors = 0

ReadingNext ==
    \/ \E r \in CrawlRequests : Begin(r)
    \/ ClaimPage \/ RunnerStops \/ FinishPage \/ OddStatus \/ MissPage \/ RunnerFails
    \/ CancelJob \/ Start \/ Recover \/ Shutdown \/ Crash
    \/ \E limit \in Limits : Read(limit)

ReadingSpec == ReadingInit /\ [][ReadingNext]_readingVars

-----------------------------------------------------------------------------
(* Properties *)

Journals == {NoJournal} \cup
    [held : CrawlRequests, job : Jobs,
     log : Seq([kind : EventKinds, url : Urls \cup {NoUrl}, depth : Nat, attempt : Nat])]

\* The types; and the constants of the job are those of any request that can begin it.
ReadingTypeOK ==
    /\ \A r \in CrawlRequests : ValidRequest(r) => IsTheJob(r.spec)
    /\ saved \in Journals /\ crawl \in Journals
    /\ served \in {"Down", "Opening", "Serving"} /\ setting \in Settings
    /\ driver \in {"Off", "Loop", "Busy", "Dying"} /\ broken \in BOOLEAN
    /\ accepted \subseteq CrawlRequests
    /\ reading.cursor = Len(reading.seen) /\ reading.complete \in BOOLEAN
    /\ reading.refused \in {"None", "Unrepresentable", "TooLarge", "InvalidCursor"}

\* What a reader has read is how the story of the job begins, whatever was written, lost or
\* recovered since: no event is changed, skipped or read twice, and a cursor the daemon gave
\* stays one it takes (read_events, CrawlEventPage::validate_after).
ReaderSeesTheStory ==
    (served = "Serving" /\ crawl # NoJournal) =>
        /\ reading.refused # "InvalidCursor"
        /\ reading.cursor <= LastCursor(crawl)
        /\ reading.seen = SubSeq(Story(crawl), 1, reading.cursor)

\* A reader that was told its events are complete has them all for ever (is_terminal,
\* protocol_last_cursor).
CompleteIsFinal ==
    (reading.complete /\ served = "Serving") => reading.cursor = LastCursor(crawl)

\* What is read of an address is a history: queued, started, ended or to be started again, each
\* under the attempt that goes with it; after the end of the job there is nothing.
AboutUrl(events, u) == SelectSeq(events, LAMBDA e : e.url = u)
Follows(e, f) ==
    CASE f.kind = "PageStarted" ->
            /\ e.kind \in {"UrlQueued", "RetryScheduled", "Recovered"} /\ f.attempt = e.attempt + 1
      [] OTHER -> e.kind = "PageStarted" /\ f.attempt = e.attempt
SeenIsAHistory ==
    /\ \A u \in Urls :
          LET events == AboutUrl(reading.seen, u)
          IN  /\ events # <<>> => events[1].kind = "UrlQueued"
              /\ \A i \in 2..Len(events) :
                    events[i].kind # "UrlQueued" /\ Follows(events[i - 1], events[i])
    /\ \A i \in 1..Len(reading.seen) :
          reading.seen[i].kind \in {"JobSucceeded", "JobFailed", "JobCancelled"} =>
              i = Len(reading.seen)

\* The status can be told (CrawlStatus::validate): the pages that are retried are as many as the
\* protocol allows, with those that restarts recovered.
StatusIsValid ==
    crawl # NoJournal =>
        Len(SelectSeq(crawl.log, LAMBDA e : e.kind \in {"Retried", "Recovered"}))
            <= MaxPages * (MaxAttempts - 1)

\* A job serves the request that began it: repeated it is accepted again, and it is the only one
\* (begin(), decode_binding()).
RetriesAreAccepted ==
    (served = "Serving" /\ ~ broken) =>
        \A r \in accepted : r.class = "Public" \/ setting.authenticated =>
            /\ BeginAnswer(r) = "Accepted"
            /\ \A s \in CrawlRequests : BeginAnswer(s) = "Accepted" => s = r

\* Violated by the code: who asks for one event at a time gets the next one.
NextEventFits ==
    (served = "Serving" /\ crawl # NoJournal /\ ~ broken) =>
        ReadAnswer(crawl, reading.cursor, 1) = "Events"

\* Violated by the code: the daemon starts under whatever policy it is given.
StartsAlways == \A s \in Settings : saved # NoJournal => PermittedSpec(saved.held.spec, s)
=============================================================================
