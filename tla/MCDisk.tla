------------------------------- MODULE MCDisk -------------------------------
(***************************************************************************)
(* What outlives a process or is shared by several: the crawl store, the   *)
(* monitors, the runtime mirror and the directory it is made of, the       *)
(* filters on its executables, what a profile says of its identity and who *)
(* owns it, the rows read out of what was captured, what is read of a      *)
(* crawl job, the files of a collection and their readers.  They share     *)
(* nothing, so a behaviour is one of any of them: "part" is chosen at      *)
(* first and only that part moves.                                         *)
(***************************************************************************)
EXTENDS CrawlStore, Containment, TLC

CONSTANTS
    s1, s2, i1, i2, p1, p2, p3, payload, d1, d2, d3, r1, r2, f1, f2, x1, c1, c2,
    Monitors, Payloads, MaxFrames, MaxWriteFaults, MaxCrashes,
    Processes, NoMirror, MaxBuilds, RemovalInterrupted,
    Identities, Plain, Unbound, Tears, MaxAppends, MaxInterrupts,
    Launches, Firefox, External, Nobody, Quarantine,
    MaxCaptures, RowLimits, WideCell, CrawlRoom, RowRoom,
    MaxDepth, MaxAttempts, MaxEvents, NoToken, NoUrl, NoJournal, PageRoom, MaxStarts,
    MaxWriteErrors, Results, MaxTroubles, MaxChanges,
    Parts

VARIABLES
    part,
    journal, cas, daemon, unreconciled, sink, begin, reader, sessions, accepting, stopping,
    writeFaults, crashes, told,
    mirror, staging, proc, builds,
    manifests, temporary, abandoned, used, binding, states, opened, interrupts, bound, possible,
    at, owner, tree, asked, waiting,
    source, schema, captures, growing, rowCursor, rows, finished, failure,
    saved, crawl, served, setting, driver, broken, accepted, reading, starts, writeErrors,
    files, store, damaged, receipts, litter, clock, ledger, admits, unrecorded, running, work,
    trace, copy, shown, opens, faults, setbacks,
    directory, written, time, stamp, earlier, changes, published, builder

M == INSTANCE Monitor
R == INSTANCE RuntimeMirror WITH Absent <- NoMirror
U == INSTANCE MirrorSource WITH Builders <- {"builder"}, Absent <- NoMirror, source <- directory,
                                content <- written
P == INSTANCE ProfileRecords
O == INSTANCE ProfileOwner

\* Documents with items, with a status and without, with texts that are wide and too wide; JSON
\* frames and one that is none.
Document(whole, items, status) ==
    [html |-> TRUE, whole |-> whole, items |-> items, status |-> status, json |-> FALSE]
Frame(whole, items, json) ==
    [html |-> FALSE, whole |-> whole, items |-> items, status |-> FALSE, json |-> json]
MCCaptures ==
    { Document("Word", <<"Digits", "Absent">>, TRUE), Document("Absent", <<"Wide">>, FALSE),
      Document("Digits", <<"Huge", "True">>, FALSE),
      Frame("Number", <<"Null", "Number", "Bool">>, TRUE), Frame("List", <<"Digits", "List">>, TRUE),
      Frame("Wide", <<"Word">>, TRUE), Frame("Absent", <<>>, FALSE) }

\* One column of every type, extractor and policy; two, of which the first or the second misses;
\* a constant of another type; a name twice, no column.
Column(name, type, extractor, policy) ==
    [name |-> name, type |-> type, extractor |-> extractor, policy |-> policy,
     value |-> <<"Integer", "Digits">>]
MCColumns ==
    {<<Column("a", type, extractor, policy)>> : type \in {"Text", "Integer", "Boolean", "Blob"},
        extractor \in {"CssText", "CssExists", "Json"}, policy \in {"Null", "DropRow", "Fail"}}
    \cup {<<Column("a", "Integer", "Meta", first), Column("b", "Timestamp", "Regex", second)>> :
              first \in {"Null", "DropRow", "Fail"}, second \in {"Null", "DropRow", "Fail"}}
    \cup {<<Column("a", "Text", "Const", "Fail"), Column("b", "Real", "CssText", "DropRow")>>,
          <<Column("a", "Text", "Const", "Fail"), Column("a", "Text", "CssText", "Null")>>, <<>>}
MCSchemas == [cardinality : {"PageLevel", "Css", "Pointer"}, columns : MCColumns]

S == INSTANCE Shaping
        WITH ShapeSources <- {"Collection", "Crawl", "Monitor"}, ShapeSchemas <- MCSchemas,
             Captures <- MCCaptures

\* Addresses of one origin, one that the protocol does not take and one that is too long for it,
\* and one elsewhere; requests of two clients, and some with a flaw; documents whose links are
\* found, are not, and are found and cannot be told.
ReadUrls == {"seed", "page", "dotted", "long", "away"}
ReadOrigin == [u \in ReadUrls |-> IF u = "away" THEN "there" ELSE "here"]
ReadUnits == [u \in ReadUrls |-> IF u \in {"page", "long"} THEN 3 ELSE 1]
ReadSpec(seeds, depth) ==
    [seeds |-> seeds, origins |-> {"here"}, pages |-> 2, depth |-> depth, retries |-> 1]
Asked(class, spec, size) == [class |-> class, spec |-> spec, size |-> size]
ReadRequests ==
    {Asked("Authenticated", ReadSpec({"seed"}, 1), 1)}
    \cup {Asked("Public", ReadSpec({"seed"}, 1), size) : size \in {4, 5}}
    \cup {Asked("Public", ReadSpec(seeds, 1), 1) : seeds \in {{"dotted"}, {"seed", "away"}}}
    \cup {Asked("Public", ReadSpec({"seed"}, 3), 1)}
ReadDocuments == {<<"away", "page">>, <<"long", "dotted">>}
ReadSettings ==
    {[origins |-> {"here"}, authenticated |-> TRUE],
     [origins |-> {"here", "there"}, authenticated |-> FALSE],
     [origins |-> {"there"}, authenticated |-> FALSE]}

V == INSTANCE CrawlReading
        WITH Urls <- ReadUrls, Seeds <- {"seed"}, Scope <- ReadUrls \ {"away"},
             MaxPages <- 2, MaxFailures <- 2, Dotted <- {"dotted"}, Long <- {"long"},
             OriginOf <- ReadOrigin, Units <- ReadUnits, Limits <- {1, 4}, Margin <- 1,
             Documents <- ReadDocuments, CrawlRequests <- ReadRequests, Settings <- ReadSettings,
             MaxSeeds <- 2, MaxOrigins <- 2, PagesLimit <- 2, DepthLimit <- 2, RetryLimit <- 1,
             RequestRoom <- 4, BindingExtra <- 1

\* Two steps, each captured with an image, whose bytes are the same; no capture; a page that no
\* receipt can be about; one whose address is none of http; a task that was cancelled.
Captured(n, html, png) == [step |-> n, html |-> html, png |-> png]
Result(end, pages, page) == [end |-> end, captures |-> pages, page |-> page]
MCResults ==
    {Result("Ok", <<Captured(0, "html", "png"), Captured(1, "html", "png")>>, "Plain"),
     Result("Ok", <<>>, "Plain"),
     Result("Ok", <<Captured(0, "png", "none")>>, "Unbounded"),
     Result("Ok", <<Captured(0, "html", "none")>>, "NoHttp"),
     Result("Cancelled", <<>>, "Plain")}

L == INSTANCE TraceLedger
        WITH Ids <- {"collection"}, Required <- {"collection"},
             DigestOf <- [i \in {"collection"} |-> "digest"],
             StepCount <- 2, MaxSteps <- 2, MaxFiles <- 6, PageRoom <- 2, ChunkRoom <- 1,
             Contents <- {"html", "png"}, NoContent <- "none",
             LengthOf <- [content \in {"html", "png"} |-> IF content = "html" THEN 2 ELSE 1],
             NoReceipt <- [digest |-> "none"], Times <- {1, 2},
             served <- ledger, accepting <- admits, broken <- unrecorded, told <- shown,
             starts <- opens

monitor == <<journal, cas, daemon, unreconciled, sink, begin, reader, sessions, accepting,
             stopping, writeFaults, crashes, told>>
mirrors == <<mirror, staging, proc, builds>>
profile == <<manifests, temporary, abandoned, used, binding, states, opened, interrupts, bound, possible>>
owners == <<at, owner, tree, asked, waiting>>
shaping == <<source, schema, captures, growing, rowCursor, rows, finished, failure>>
readings == <<saved, crawl, served, setting, driver, broken, accepted, reading, starts, writeErrors>>
traces == <<files, store, damaged, receipts, litter, clock, ledger, admits, unrecorded, running,
            work, trace, copy, shown, opens, faults, setbacks>>
sources == <<directory, written, time, stamp, earlier, changes, published, builder>>
diskVars ==
    <<part, vars, monitor, mirrors, profile, owners, containmentVars, shaping, readings, traces,
      sources>>

\* The other parts.
Rest(name) ==
    /\ name # "Store" => UNCHANGED vars
    /\ name # "Monitor" => UNCHANGED monitor
    /\ name # "Mirror" => UNCHANGED mirrors
    /\ name # "Filters" => UNCHANGED containmentVars
    /\ name # "Profile" => UNCHANGED profile
    /\ name # "Owner" => UNCHANGED owners
    /\ name # "Rows" => UNCHANGED shaping
    /\ name # "Reading" => UNCHANGED readings
    /\ name # "Ledger" => UNCHANGED traces
    /\ name # "Source" => UNCHANGED sources

DiskInit ==
    /\ part \in Parts
    /\ Init /\ M!MonitorInit /\ R!MirrorInit /\ P!ProfileInit /\ O!OwnerInit /\ ContainmentInit
    /\ IF part = "Rows" THEN TRUE
       ELSE source = "Crawl" /\ schema = CHOOSE s \in MCSchemas : TRUE
    /\ S!ShapingInit
    /\ IF part = "Reading" THEN TRUE ELSE setting = CHOOSE s \in ReadSettings : TRUE
    /\ V!ReadingInit /\ L!LedgerInit /\ U!SourceInit

DiskNext ==
    /\ UNCHANGED part
    /\ \/ part = "Store" /\ Next /\ Rest("Store")
       \/ part = "Monitor" /\ M!MonitorNext /\ Rest("Monitor")
       \/ part = "Mirror" /\ R!MirrorNext /\ Rest("Mirror")
       \/ part = "Filters" /\ ContainmentNext /\ Rest("Filters")
       \/ part = "Profile" /\ P!ProfileNext /\ Rest("Profile")
       \/ part = "Owner" /\ O!OwnerNext /\ Rest("Owner")
       \/ part = "Rows" /\ S!ShapingNext /\ Rest("Rows")
       \/ part = "Reading" /\ V!ReadingNext /\ Rest("Reading")
       \/ part = "Ledger" /\ L!LedgerNext /\ Rest("Ledger")
       \/ part = "Source" /\ U!SourceNext /\ Rest("Source")

DiskSpec == DiskInit /\ [][DiskNext]_diskVars

Symmetry == Permutations(Processes)
AllParts == {"Store", "Monitor", "Mirror", "Filters", "Profile", "Owner", "Rows", "Reading",
             "Ledger", "Source"}
MonitorPart == {"Monitor"}
MirrorPart == {"Mirror"}
ProfilePart == {"Profile"}
OwnerPart == {"Owner"}
RowsPart == {"Rows"}
ReadingPart == {"Reading"}
LedgerPart == {"Ledger"}
SourcePart == {"Source"}

\* Two daemons serve the same profiles root one after the other.
MCScopeOf == (d1 :> r1) @@ (d2 :> r1) @@ (d3 :> r2)

MCPlain == "desktop"
MCIdentities ==
    { [class |-> "Public", persona |-> MCPlain, compiled |-> FALSE],
      [class |-> "Authenticated", persona |-> MCPlain, compiled |-> FALSE],
      [class |-> "Authenticated", persona |-> "other", compiled |-> TRUE],
      [class |-> "Public", persona |-> "other", compiled |-> FALSE] }

-----------------------------------------------------------------------------
(* Properties *)

\* Each part's variables keep their types.
TypesOK ==
    CASE part = "Store" -> TypeOK
      [] part = "Monitor" -> M!MonitorTypeOK
      [] part = "Mirror" -> R!MirrorTypeOK
      [] part = "Filters" -> ContainmentTypeOK
      [] part = "Profile" -> P!ProfileTypeOK
      [] part = "Owner" -> O!OwnerTypeOK
      [] part = "Rows" -> S!ShapingTypeOK
      [] part = "Reading" -> V!ReadingTypeOK
      [] part = "Ledger" -> L!LedgerTypeOK
      [] part = "Source" -> U!SourceTypeOK

\* What was recorded holds.  Monitor, whatever crashes, if no append fails: a record that a
\* client has read keeps its place under its cursor (MonitorJournal), and after stop() has
\* returned nobody holds the journal and it can be read.  Profile: it serves the identity it
\* was first bound to and its manifests stay readable, wherever binding it stops; its session is
\* in the state of the last acknowledged transition or of a later one, and a record that was cut
\* short is passed over, as long as no other is appended behind it (bind_identity_contract,
\* append_session_status).  Shaping: the rows that were read are a prefix of the rows there are,
\* as their schema declares them, and a source that cannot be shaped is refused as a whole
\* (read_shaped, shape, shape_json).
\* CrawlReading: what a reader has read is how the story of the job begins, it is a history, and
\* complete for ever once that was said; the status can be told, and a request that began the
\* job is the only one and can be repeated (read_events(), begin(), CrawlStatus::validate()).
\* TraceLedger: the files of a collection can be read again whatever cut them off, a reader of
\* its trace or its artifacts gets them as they are and whole, and a receipt is given out of a
\* collection that succeeded; unless a receipt was written that its reader refuses, one is
\* given out of each, and the next start comes to serve (append_kind(), replay(), read_trace(),
\* read_artifact(), read_receipt(), reconcile_successor()).
RecordsHold ==
    CASE part = "Monitor" -> M!CursorsHold /\ M!StoppedIsReadable
      [] part = "Profile" -> P!ProfileKeepsIdentity /\ P!BoundIsReadable /\ P!StatusIsTheLast
      [] part = "Rows" -> S!RowsAreAPrefix /\ S!CellsAreTyped /\ S!FailureIsWhole
      [] part = "Reading" -> /\ V!ReaderSeesTheStory /\ V!CompleteIsFinal /\ V!SeenIsAHistory
                             /\ V!StatusIsValid /\ V!RetriesAreAccepted
      [] part = "Ledger" -> /\ L!FilesReplay /\ L!TraceIsAHistory /\ L!CopiesAreWhole
                            /\ L!AnswersArrive /\ L!LedgerTakesTheEnd /\ L!ReceiptsAreProofs
                            /\ L!ReceiptsDecode => L!StartsAlways /\ L!SucceededHasReceipt
      [] OTHER -> TRUE

\* Monitor: each journal can be opened again, so the daemon can start (open_at()).
JournalsStayConsistent == M!JournalsStayConsistent

\* What several processes use is kept for who uses it.  RuntimeMirror: who leases a mirror has
\* the browser's complete directory in it (materialize(), remove()).  ProfileOwner: a running
\* browser's launch owns the profile or nobody can, Firefox keeps it until its end is known,
\* and a launch that is over leaves neither a browser nor an owner
\* (ProfileOwnershipGuard, Drop for BiDiBrowserBackend and CdpBrowserBackend).
\* MirrorSource: a mirror is given out with what the browser's directory had in it at one
\* instant, whatever an updater changed meanwhile (fingerprint_open_source_tree()).
SharedFilesAreKept ==
    CASE part = "Mirror" -> R!LeasedMirrorIsComplete
      [] part = "Owner" -> O!RunningIsOwned /\ O!FirefoxKeepsOwnership /\ O!NothingIsLeftBehind
      [] part = "Source" -> U!MirrorIsASnapshot /\ U!MirrorIsItsSource
      [] OTHER -> TRUE

\* MirrorSource: what is leased stays as it was (open_relative_lease()).
LeasedIsUnchanged == part = "Source" => U!LeasedIsUnchanged

\* ProfileOwner: no browser has a free profile open (Drop for CdpBrowserBackend).
FreeIsEmpty == O!FreeIsEmpty

\* Profile: also with others behind it, a record cut short is passed over or the journal
\* refused (decode).
StatusIsNeverWrong == P!StatusIsNeverWrong

\* Profile: a binding cut short can be made again (bind_identity_contract).
InterruptedCanBeBound == P!InterruptedCanBeBound

\* Shaping: every row can be read, a read is refused for a cause, and who is told that this is
\* all has all (RowPage, probe_schema_compiles).
NextRowFits == S!NextRowFits
RefusedForCause == S!RefusedForCause
FinishedIsAll == S!FinishedIsAll

\* CrawlReading: the next event can be read, and the daemon starts under any policy.
NextEventFits == V!NextEventFits
StartsAlways == V!StartsAlways

\* TraceLedger: every receipt can be read, a start whose files are undamaged serves, one damaged artifact does not keep the
\* daemon from serving the other collections, no result of a task closes the admission, a
\* shutdown leaves no collection open, and "not ready" is not for ever.
LedgerOpens == L!StartsAlways
ReceiptsDecode == L!ReceiptsDecode
DamageIsContained == L!DamageIsContained
BoundsKeepAdmission == L!BoundsKeepAdmission
InterruptIsWritten == L!InterruptIsWritten
NotReadyMeansOpen == L!NotReadyMeansOpen
=============================================================================
