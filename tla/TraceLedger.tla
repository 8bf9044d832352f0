---------------------------- MODULE TraceLedger ----------------------------
(***************************************************************************)
(* The files a collection leaves, and what is read from them: the event    *)
(* files of its directory, the store of artifacts by their content, and    *)
(* its receipt (crates/dig2browser-trace/src/lib.rs,                       *)
(* crates/dig2browser-protocol/src/trace.rs and the readers of             *)
(* crates/dig2browser-station/src/collection.rs).  Every operation of the  *)
(* ledger reads the files anew and judges them.  Who admits, cancels and   *)
(* interrupts collections is Collection; here the files carry their        *)
(* contents, their times, and the clock they come from, which may be set   *)
(* back.                                                                   *)
(*                                                                         *)
(* Abstracted: bytes are named by their digest; a content that the medium  *)
(* damaged keeps its name and its length.  persist_collection_result()     *)
(* holds the mutex of the ledger, so that readers wait; a crash does not.  *)
(***************************************************************************)
EXTENDS Naturals, FiniteSets, SequencesExt

CONSTANTS
    Ids,
    Required,      \* collections of the crawl service, which need a receipt
    DigestOf,      \* the digest of the task a client asks for under an id
    StepCount,     \* steps of a task
    MaxSteps,      \* MAX_TRACE_STEP_SUMMARIES
    Results,       \* what a task may come to, see Commits
    Contents, NoContent,
    LengthOf,      \* of each content, in units
    ChunkRoom,     \* MAX_ARTIFACT_CHUNK_BYTES
    PageRoom,      \* MAX_TRACE_EVENTS
    MaxFiles,      \* MAX_COLLECTION_EVENTS
    Times,         \* what the clock shows
    NoReceipt,
    MaxStarts,
    MaxTroubles    \* bound: writes that fail, contents damaged, clocks set back, in all

VARIABLES
    files,     \* the event files of each collection; none if there is no directory
    store,     \* contents in the store
    damaged,   \* those whose bytes are not what they were
    receipts,
    litter,    \* directories with a temporary file that a crash left
    clock,
    served,    \* "Opening", "Serving", "Stopping", "Closed" by a shutdown, "Down"
    accepting,
    broken,    \* terminal_failures
    running,   \* collections whose task runs
    work,      \* what persist_collection_result() is at
    trace,     \* a reader of a trace: what it has seen, and whether that is all
    copy,      \* a reader of an artifact
    told,      \* receipts that were given out
    starts, faults, setbacks

disk == <<files, store, damaged, receipts, litter>>
manager == <<served, accepting, broken, running>>
readers == <<trace, copy, told>>
bounds == <<starts, faults, setbacks>>
ledgerVars == <<disk, clock, manager, work, readers, bounds>>

-----------------------------------------------------------------------------
(* Events *)

Started(d, n) == [is |-> "Started", digest |-> d, steps |-> n]
Committed(step, role, c) ==
    [is |-> "ArtifactCommitted", step |-> step, role |-> role, content |-> c]
Ended(outcome, steps) == [is |-> "Terminal", outcome |-> outcome, steps |-> steps]
Cut(reason) == [is |-> "Interrupted", reason |-> reason]

At(t, kind) == [time |-> t, kind |-> kind]
KindOf(e) == e.kind.is

\* What an event may be at all: TraceEvent::new, and again whenever it is decoded.
WellFormed(kind) ==
    CASE kind.is = "Started" -> kind.steps \in 1..MaxSteps
      [] kind.is = "ArtifactCommitted" ->
            kind.step < MaxSteps /\ kind.role \in {"Html", "ViewportPng"}
      [] kind.is = "Terminal" ->
            /\ kind.outcome \in {"Succeeded", "Failed", "Cancelled"}
            /\ \A s \in kind.steps : s < MaxSteps
      [] kind.is = "Interrupted" -> kind.reason \in {"SuccessorReconciliation", "ShutdownTimeout"}

\* What is in the directory of a collection, but for temporary files.
Listed(i) == files[i]
Exists(i) == files[i] # <<>>

Terminal(events) == events # <<>> /\ KindOf(Last(events)) \in {"Terminal", "Interrupted"}
References(events) == SelectSeq(events, LAMBDA e : KindOf(e) = "ArtifactCommitted")
StepsOf(events) == Head(events).kind.steps
Taken(events, step, role) ==
    \E e \in ToSet(References(events)) : e.kind.step = step /\ e.kind.role = role

\* validate_kind: a kind after these events.
Follows(events, kind) ==
    /\ ~ Terminal(events)
    /\ (kind.is = "Started") <=> (events = <<>>)
    /\ kind.is = "ArtifactCommitted" =>
          kind.step < StepsOf(events) /\ ~ Taken(events, kind.step, kind.role)
    /\ kind.is = "Terminal" => \A s \in kind.steps : s < StepsOf(events)

\* validate_artifact_file
Valid(c) == c \in store \ damaged
AllValid(events) == \A e \in ToSet(References(events)) : Valid(e.kind.content)

\* apply_event, over all files.
InOrder(events) ==
    \A n \in 1..Len(events) :
        /\ WellFormed(events[n].kind)
        /\ Follows(SubSeq(events, 1, n - 1), events[n].kind)
        /\ n > 1 => events[n].time >= events[n - 1].time

\* replay()
Replay(i) ==
    IF ~ Exists(i) THEN "CollectionNotFound"
    ELSE IF Len(Listed(i)) > MaxFiles THEN "EventLimitExceeded"
    ELSE IF ~ InOrder(Listed(i)) THEN "Corrupt"
    ELSE IF Terminal(Listed(i)) /\ ~ AllValid(Listed(i)) THEN "Corrupt"
    ELSE "Ok"
IsOpen(i) == Replay(i) = "Ok" /\ ~ Terminal(files[i])

\* append_kind()
AppendAnswer(i, t, kind) ==
    IF Replay(i) # "Ok" THEN Replay(i)
    ELSE IF Terminal(files[i]) THEN "InvalidTransition"
    ELSE IF Len(files[i]) >= MaxFiles THEN "EventLimitExceeded"
    ELSE IF t < Last(files[i]).time THEN "InvalidTransition"
    ELSE IF ~ Follows(files[i], kind) THEN "InvalidTransition"
    ELSE IF ~ WellFormed(kind) THEN "InvalidCollectionPayload"
    ELSE "Ok"
With(i, t, kind) == [files EXCEPT ![i] = Append(@, At(t, kind))]

\* finish_collection()
FinishAnswer(i, t, kind) ==
    IF Replay(i) = "Ok" /\ ~ Terminal(files[i]) /\ ~ AllValid(files[i])
    THEN "Corrupt" ELSE AppendAnswer(i, t, kind)

-----------------------------------------------------------------------------
(* Faults *)

Trouble == faults + setbacks + Cardinality(damaged) < MaxTroubles

\* A write that fails, with or without effect.
Fault == Trouble /\ faults' = faults + 1

SetClock ==
    /\ \E t \in Times \ {clock} :
          /\ clock' = t
          /\ IF t < clock THEN Trouble /\ setbacks' = setbacks + 1
                          ELSE UNCHANGED setbacks
    /\ UNCHANGED <<disk, manager, work, readers, starts, faults>>

Damage(c) ==
    /\ c \in store \ damaged /\ Trouble
    /\ damaged' = damaged \cup {c}
    /\ UNCHANGED <<files, store, receipts, litter, clock, manager, work, readers, bounds>>

-----------------------------------------------------------------------------
(* A collection begins *)

NoWork == [at |-> "None"]
LedgerFree == work = NoWork
Healthy(i) == i \notin broken

\* begin_collection(), of a collection that is not there.
BeginAnswer(i) ==
    IF ~ accepting THEN "AdmissionClosed"
    ELSE IF ~ Healthy(i) THEN "TerminalPersistenceFailed"
    ELSE IF Exists(i) THEN "CollectionExists"
    ELSE "Begins"

Begin(i) ==
    /\ served = "Serving" /\ LedgerFree
    /\ BeginAnswer(i) = "Begins"
    /\ LET written == [files EXCEPT ![i] = <<At(clock, Started(DigestOf[i], StepCount))>>] IN
       \/ /\ files' = written /\ running' = running \cup {i}
          /\ UNCHANGED faults
       \/ /\ Fault /\ files' \in {files, written}
          /\ UNCHANGED running
    /\ UNCHANGED <<store, damaged, receipts, litter, clock, served, accepting, broken, work,
                   readers, starts, setbacks>>

-----------------------------------------------------------------------------
(* persist_collection_result: bytes, reference, and so on, receipt, end *)

\* The artifacts of a result, in the order they are committed.
Commits(result) ==
    FlattenSeq([n \in 1..Len(result.captures) |->
        LET capture == result.captures[n]
            html == [step |-> capture.step, role |-> "Html", content |-> capture.html]
        IN  IF capture.png = NoContent THEN <<html>>
            ELSE <<html, [step |-> capture.step, role |-> "ViewportPng",
                          content |-> capture.png]>>])
AllSteps == 0..(StepCount - 1)
Success == Ended("Succeeded", AllSteps)
Failure(steps) == Ended("Failed", steps)

Working(i, result, at) == [at |-> at, id |-> i, result |-> result, left |-> Commits(result)]

\* What comes first, by what the task came to.
FirstOf(i, result) ==
    IF result.end = "Cancelled" THEN "Cancelled"
    ELSE IF result.end = "Failed" THEN "Failed"
    ELSE IF result.captures # <<>> THEN "Bytes"
    ELSE IF i \in Required THEN "Unproven"
    ELSE "Succeeded"

TaskEnds(i, result) ==
    /\ served \in {"Serving", "Stopping"} /\ LedgerFree /\ i \in running
    /\ running' = running \ {i}
    /\ work' = Working(i, result, FirstOf(i, result))
    /\ UNCHANGED <<disk, clock, served, accepting, broken, readers, bounds>>

Goes(at) == work' = [work EXCEPT !.at = at]
NextCommit == Head(work.left)

\* commit_artifact(): a content that is there is looked at, not written again.
CommitAnswer ==
    IF ~ IsOpen(work.id) THEN "InvalidTransition"
    ELSE IF Taken(files[work.id], NextCommit.step, NextCommit.role) THEN "InvalidTransition"
    ELSE IF NextCommit.content \in damaged THEN "Corrupt"
    ELSE "Ok"

WriteBytes ==
    /\ work.at = "Bytes"
    /\ IF CommitAnswer # "Ok" THEN Goes("Unproven") /\ UNCHANGED <<store, faults>>
       ELSE \/ Goes("Reference") /\ store' = store \cup {NextCommit.content} /\ UNCHANGED faults
            \/ /\ Goes("Unproven") /\ Fault /\ NextCommit.content \notin store
               /\ store' \in {store, store \cup {NextCommit.content}}
    /\ UNCHANGED <<files, damaged, receipts, litter, clock, manager, readers, starts, setbacks>>

WriteReference ==
    /\ work.at = "Reference"
    /\ LET kind == Committed(NextCommit.step, NextCommit.role, NextCommit.content)
           done == [work EXCEPT !.left = Tail(@),
                                !.at = IF Tail(work.left) = <<>> THEN "Receipt" ELSE "Bytes"]
       IN  IF AppendAnswer(work.id, clock, kind) # "Ok" \/ ~ Valid(NextCommit.content)
           THEN Goes("Unproven") /\ UNCHANGED <<files, faults>>
           ELSE \/ work' = done /\ files' = With(work.id, clock, kind) /\ UNCHANGED faults
                \/ Goes("Unproven") /\ Fault /\ files' \in {files, With(work.id, clock, kind)}
    /\ UNCHANGED <<store, damaged, receipts, litter, clock, manager, readers, starts, setbacks>>

\* The receipt is about the last capture, and holds the time the collection is to end at.
ReceiptOf(i, result, t) ==
    LET capture == Last(result.captures) IN
    [digest |-> DigestOf[i], time |-> t, html |-> capture.html, png |-> capture.png,
     page |-> result.page]

\* encode_capture_receipt: a title or an address may be too long, a status odd.
Encodes(receipt) == receipt.page # "Unbounded"
\* CollectionReceipt: the address is one of http, the sizes are within bounds.
ValidReceipt(receipt) == receipt.page \notin {"NoHttp", "Unbounded"}
\* read_capture_receipt: both.
Decodes(receipt) == Encodes(receipt) /\ ValidReceipt(receipt)

WriteReceipt ==
    /\ work.at = "Receipt"
    /\ LET receipt == ReceiptOf(work.id, work.result, clock)
           written == [receipts EXCEPT ![work.id] = receipt]
       IN  IF ~ Encodes(receipt) THEN Goes("Disowned") /\ UNCHANGED <<receipts, faults>>
           ELSE \/ work' = [work EXCEPT !.at = "Proven"] /\ receipts' = written /\ UNCHANGED faults
                \/ Goes("Disowned") /\ Fault /\ receipts' \in {receipts, written}
    /\ UNCHANGED <<files, store, damaged, litter, clock, manager, readers, starts, setbacks>>

\* The event that ends the collection, by what was reached.
EndOf(at) ==
    CASE at \in {"Proven", "Succeeded"} -> Success
      [] at = "Cancelled" -> Ended("Cancelled", {})
      [] at = "Failed" -> Failure({})
      [] OTHER -> Failure(AllSteps)
EndTime == IF work.at = "Proven" THEN receipts[work.id].time ELSE clock

\* A result that could not be made durable closes the admission.
Breaks == accepting' = FALSE /\ broken' = broken \cup {work.id}

WriteEnd ==
    /\ work.at \in {"Proven", "Succeeded", "Cancelled", "Failed", "Unproven", "Disowned"}
    /\ work' = NoWork
    /\ LET written == With(work.id, EndTime, EndOf(work.at)) IN
       IF FinishAnswer(work.id, EndTime, EndOf(work.at)) # "Ok"
       THEN Breaks /\ UNCHANGED <<files, faults>>
       ELSE \/ /\ files' = written /\ UNCHANGED faults
               /\ IF work.at = "Disowned" THEN Breaks ELSE UNCHANGED <<accepting, broken>>
            \/ Fault /\ files' \in {files, written} /\ Breaks
    /\ UNCHANGED <<store, damaged, receipts, litter, clock, served, running, readers, starts,
                   setbacks>>

-----------------------------------------------------------------------------
(* The daemon stops, dies, and starts again *)

Stop ==
    /\ served = "Serving"
    /\ served' = "Stopping" /\ accepting' = FALSE
    /\ UNCHANGED <<disk, clock, broken, running, work, readers, bounds>>

\* interrupt_collection() after the time limit of shutdown(): a refusal of the
\* transition is taken for a collection that has ended.
Interrupt(i) ==
    /\ served = "Stopping" /\ LedgerFree /\ i \in running
    /\ running' = running \ {i}
    /\ LET written == With(i, clock, Cut("ShutdownTimeout")) IN
       IF AppendAnswer(i, clock, Cut("ShutdownTimeout")) # "Ok"
       THEN UNCHANGED <<files, served, faults>>
       ELSE \/ files' = written /\ UNCHANGED <<served, faults>>
            \/ files' \in {files, written} /\ Fault /\ served' = "Down"
    /\ UNCHANGED <<store, damaged, receipts, litter, clock, accepting, broken, work,
                   readers, starts, setbacks>>

Stopped ==
    /\ served = "Stopping" /\ LedgerFree /\ running = {}
    /\ served' = "Closed"
    /\ UNCHANGED <<disk, clock, accepting, broken, running, work, readers, bounds>>

\* A crash leaves the temporary file of the write it cuts off, of an event or of a new
\* directory; no later operation removes it.  (Others are never listed.)
Cutting ==
    CASE work.at = "None" -> {"collections"}
      [] work.at \in {"Bytes", "Receipt"} -> {}
      [] OTHER -> {work.id}
Crash ==
    /\ served \notin {"Closed", "Down"}
    /\ served' = "Down" /\ accepting' = FALSE /\ broken' = {} /\ running' = {}
    /\ work' = NoWork
    /\ litter' \in {litter, litter \cup Cutting}
    /\ UNCHANGED <<files, store, damaged, receipts, clock, readers, bounds>>

Start ==
    /\ served \in {"Closed", "Down"} /\ starts < MaxStarts
    /\ starts' = starts + 1
    /\ served' = "Opening" /\ accepting' = FALSE /\ broken' = {} /\ running' = {}
    /\ UNCHANGED <<disk, clock, work, readers, faults, setbacks>>

-----------------------------------------------------------------------------
(* Reading *)

\* read_trace()
PageFrom(i, cursor, limit) ==
    LET end == IF cursor + limit < Len(files[i]) THEN cursor + limit ELSE Len(files[i]) IN
    [is |-> "TracePage", from |-> cursor, next |-> end,
     events |-> SubSeq(files[i], cursor + 1, end),
     complete |-> Terminal(files[i]) /\ end = Len(files[i])]

\* TracePage::new and ArtifactChunk::new
ValidPage(page) ==
    /\ Len(page.events) <= PageRoom
    /\ page.events # <<>> => page.next = page.from + Len(page.events)
ValidChunk(chunk) ==
    /\ chunk.bytes <= ChunkRoom /\ chunk.offset + chunk.bytes <= chunk.total
    /\ chunk.eof <=> chunk.offset + chunk.bytes = chunk.total
    /\ chunk.bytes = 0 => chunk.eof
\* An answer is built anew where it arrives, under the same rules.
Arrives(answer) ==
    CASE answer.is = "TracePage" -> ValidPage(answer)
      [] answer.is = "ArtifactChunk" -> ValidChunk(answer)

\* CollectionRequest::validate: what may be asked for.
AskedEvents == 1..PageRoom
AskedBytes == 1..ChunkRoom

TraceAnswer(i, cursor) ==
    IF ~ Healthy(i) THEN "TerminalPersistenceFailed"
    ELSE IF Replay(i) # "Ok" THEN Replay(i)
    ELSE IF cursor > Len(files[i]) THEN "InvalidCursor"
    ELSE "Ok"

Readable == served \in {"Serving", "Stopping"} /\ LedgerFree

ReadTrace(i, limit) ==
    /\ Readable /\ ~ trace.complete
    /\ trace.of \in {i, NoContent}
    /\ TraceAnswer(i, Len(trace.seen)) = "Ok"
    /\ LET page == PageFrom(i, Len(trace.seen), limit) IN
       /\ Arrives(page)
       /\ trace' = [of |-> i, seen |-> trace.seen \o page.events, complete |-> page.complete]
    /\ UNCHANGED <<disk, clock, manager, work, copy, told, bounds>>

\* read_artifact(): for a reference that the collection has, from an offset within it.
Referenced(i) == {e.kind.content : e \in ToSet(References(files[i]))}
ChunkAnswer(i, c, offset) ==
    IF ~ Healthy(i) THEN "TerminalPersistenceFailed"
    ELSE IF Replay(i) # "Ok" THEN Replay(i)
    ELSE IF c \notin Referenced(i) THEN "ArtifactNotCommitted"
    ELSE IF offset > LengthOf[c] THEN "InvalidCursor"
    ELSE IF ~ Valid(c) THEN "Corrupt"
    ELSE "Ok"
ChunkFrom(c, offset, room) ==
    LET left == LengthOf[c] - offset
        taken == IF left < room THEN left ELSE room
    IN  [is |-> "ArtifactChunk", offset |-> offset, total |-> LengthOf[c], bytes |-> taken,
         eof |-> offset + taken = LengthOf[c], bad |-> c \in damaged]

\* read_verified_artifact_bytes(), or a client who heard of the content in the trace.
Heard == {e.kind.content : e \in ToSet(References(trace.seen))}
ReadChunk(c, room) ==
    /\ Readable /\ trace.of \in Ids /\ c \in Heard
    /\ copy.of \in {c, NoContent} /\ ~ copy.eof
    /\ ChunkAnswer(trace.of, c, copy.offset) = "Ok"
    /\ LET chunk == ChunkFrom(c, copy.offset, room) IN
       /\ Arrives(chunk)
       /\ copy' = [of |-> c, offset |-> copy.offset + chunk.bytes, eof |-> chunk.eof,
                   bad |-> copy.bad \/ chunk.bad]
    /\ UNCHANGED <<disk, clock, manager, work, trace, told, bounds>>

\* terminal_outcome(): an interruption is no outcome.
OutcomeOf(i) ==
    IF Terminal(files[i]) /\ KindOf(Last(files[i])) = "Terminal"
    THEN Last(files[i]).kind.outcome ELSE "None"

\* verify_receipt_artifact
Backs(i, c) == ChunkAnswer(i, c, 0) = "Ok"
Proves(i, receipt) ==
    Backs(i, receipt.html) /\ (receipt.png # NoContent => Backs(i, receipt.png))

\* read_receipt()
ReceiptAnswer(i) ==
    IF ~ Healthy(i) THEN "TerminalPersistenceFailed"
    ELSE IF Replay(i) # "Ok" THEN Replay(i)
    ELSE IF OutcomeOf(i) = "None" THEN "ReceiptNotReady"
    ELSE IF OutcomeOf(i) # "Succeeded" THEN "ReceiptUnavailable"
    ELSE IF receipts[i] = NoReceipt THEN "ReceiptUnavailable"
    ELSE IF ~ Decodes(receipts[i]) THEN "CorruptReceipt"
    ELSE IF receipts[i].digest # Head(files[i]).kind.digest THEN "CorruptReceipt"
    ELSE IF ~ Proves(i, receipts[i]) THEN "Corrupt"
    ELSE "Ok"

ReadReceipt(i) ==
    /\ Readable /\ ReceiptAnswer(i) = "Ok" /\ i \notin told
    /\ told' = told \cup {i}
    /\ UNCHANGED <<disk, clock, manager, work, trace, copy, bounds>>

-----------------------------------------------------------------------------
(* What a start, or a crawl that asks again, makes of a receipt *)

\* reconcile_completed_receipt()
ReconcileAnswer(i) ==
    IF ~ Healthy(i) THEN "TerminalPersistenceFailed"
    ELSE IF Replay(i) = "CollectionNotFound" THEN "None"
    ELSE IF Replay(i) # "Ok" THEN Replay(i)
    ELSE IF Head(files[i]).kind.digest # DigestOf[i] THEN "CollectionConflict"
    ELSE IF receipts[i] = NoReceipt THEN "None"
    ELSE IF ~ Decodes(receipts[i]) THEN "CorruptReceipt"
    ELSE IF receipts[i].digest # DigestOf[i] THEN "CollectionConflict"
    ELSE IF ~ Proves(i, receipts[i]) THEN "Corrupt"
    ELSE IF OutcomeOf(i) = "Succeeded" THEN "Reconciled"
    ELSE IF OutcomeOf(i) # "None" THEN "CorruptTrace"
    ELSE "Finishes"

Later(s, t) == IF s > t THEN s ELSE t
Reconciled(i) == With(i, Later(receipts[i].time, Last(files[i]).time), Success)
Reconcilable(i) ==
    FinishAnswer(i, Later(receipts[i].time, Last(files[i]).time), Success) = "Ok"

\* incomplete_collection_ids(), over directories that are no temporary ones.
Incomplete == {i \in Ids : IsOpen(i)}
Unreadable == {i \in Ids : Exists(i) /\ Replay(i) # "Ok"}

\* reconcile_successor()
WithReceipt == {i \in Incomplete : receipts[i] # NoReceipt}
StartAnswer ==
    IF Unreadable # {} THEN "Corrupt"
    ELSE IF \E i \in WithReceipt : ReconcileAnswer(i) # "Finishes" \/ ~ Reconcilable(i)
    THEN "Corrupt" ELSE "Ok"

Recover(i) ==
    /\ served = "Opening" /\ StartAnswer = "Ok" /\ i \in Incomplete
    /\ WithReceipt # {} => i \in WithReceipt
    /\ LET written == IF i \in WithReceipt THEN Reconciled(i)
                      ELSE With(i, Later(clock, Last(files[i]).time),
                                Cut("SuccessorReconciliation"))
       IN  \/ files' = written /\ UNCHANGED <<faults, served>>
           \/ Fault /\ files' \in {files, written} /\ served' = "Down"
    /\ UNCHANGED <<store, damaged, receipts, litter, clock, accepting, broken, running, work,
                   readers, starts, setbacks>>

Serve ==
    /\ served = "Opening" /\ StartAnswer = "Ok" /\ Incomplete = {}
    /\ served' = "Serving" /\ accepting' = TRUE
    /\ UNCHANGED <<disk, clock, broken, running, work, readers, bounds>>

\* A crawl that executes the same task again after a start.
Reask(i) ==
    /\ served = "Serving" /\ LedgerFree /\ accepting /\ i \in Required \ running
    /\ ReconcileAnswer(i) = "Reconciled" /\ i \notin told
    /\ told' = told \cup {i}
    /\ UNCHANGED <<disk, clock, manager, work, trace, copy, bounds>>

-----------------------------------------------------------------------------
LedgerInit ==
    /\ files = [i \in Ids |-> <<>>] /\ store = {} /\ damaged = {}
    /\ receipts = [i \in Ids |-> NoReceipt] /\ litter = {}
    /\ clock \in Times /\ \A t \in Times : t <= clock
    /\ served = "Serving" /\ accepting = TRUE /\ broken = {} /\ running = {}
    /\ work = NoWork
    /\ trace = [of |-> NoContent, seen |-> <<>>, complete |-> FALSE]
    /\ copy = [of |-> NoContent, offset |-> 0, eof |-> FALSE, bad |-> FALSE]
    /\ told = {}
    /\ starts = 1 /\ faults = 0 /\ setbacks = 0

LedgerNext ==
    \/ SetClock \/ \E c \in Contents : Damage(c)
    \/ \E i \in Ids : Begin(i) \/ Interrupt(i) \/ Recover(i)
    \/ \E i \in Ids, result \in Results : TaskEnds(i, result)
    \/ WriteBytes \/ WriteReference \/ WriteReceipt \/ WriteEnd
    \/ Stop \/ Stopped \/ Crash \/ Start \/ Serve
    \/ \E i \in Ids, limit \in AskedEvents : ReadTrace(i, limit)
    \/ \E c \in Contents, room \in AskedBytes : ReadChunk(c, room)
    \/ \E i \in Ids : ReadReceipt(i) \/ Reask(i)

LedgerSpec == LedgerInit /\ [][LedgerNext]_ledgerVars

-----------------------------------------------------------------------------
LedgerTypeOK ==
    /\ \A i \in Ids : Len(files[i]) <= MaxFiles
    /\ store \subseteq Contents /\ damaged \subseteq store
    /\ DOMAIN receipts = Ids
    /\ litter \subseteq Ids \cup {"collections"}
    /\ clock \in Times
    /\ served \in {"Opening", "Serving", "Stopping", "Closed", "Down"} /\ accepting \in BOOLEAN
    /\ broken \subseteq Ids /\ running \subseteq Ids /\ told \subseteq Ids
    /\ work = NoWork \/ work.id \in Ids
    /\ trace.of \in Ids \cup {NoContent} /\ copy.of \in Contents \cup {NoContent}

\* Whatever fails, wherever the daemon dies, and however its clock is set: the files of
\* a collection are never such that replay() refuses them, unless the medium damaged a
\* content, and then only the collections that refer to it.
FilesReplay ==
    \A i \in Ids : Exists(i) /\ Replay(i) # "Ok" => Referenced(i) \cap damaged # {}

\* A reader of a trace, over restarts, sees the events in the order they were made
\* durable; when it is told that the trace is complete, nothing is ever added to it.
TraceIsAHistory ==
    trace.of \in Ids =>
        /\ IsPrefix(trace.seen, files[trace.of])
        /\ trace.complete => trace.seen = files[trace.of] /\ Terminal(files[trace.of])

\* Bytes that were damaged are never given out; a copy that is at its end is whole; and
\* content that a trace referred to stays in the store.
CopiesAreWhole ==
    /\ ~ copy.bad
    /\ copy.of \in Contents => copy.offset <= LengthOf[copy.of]
    /\ copy.eof => copy.offset = LengthOf[copy.of]
    /\ Heard \subseteq store

\* A receipt is given out only of a collection that succeeded, for good, and the trace
\* has what it refers to, of the task that was begun.
ReceiptsAreProofs ==
    \A i \in told :
        /\ OutcomeOf(i) = "Succeeded" /\ receipts[i] # NoReceipt
        /\ receipts[i].digest = Head(files[i]).kind.digest
        /\ {receipts[i].html, receipts[i].png} \subseteq Referenced(i) \cup {NoContent}

\* A collection of the crawl service that succeeded has its receipt, which can be read as
\* long as the medium keeps what it refers to and the process knows of no failed write.
SucceededHasReceipt ==
    \A i \in Required :
        (Exists(i) /\ OutcomeOf(i) = "Succeeded" /\ Healthy(i)
            /\ Referenced(i) \cap damaged = {}) =>
        ReceiptAnswer(i) = "Ok"

\* Whatever a valid request asks of a healthy collection arrives.
AnswersArrive ==
    \A i \in Ids : Replay(i) = "Ok" =>
        /\ \A cursor \in 0..Len(files[i]), limit \in AskedEvents : Arrives(PageFrom(i, cursor, limit))
        /\ \A c \in Referenced(i), room \in AskedBytes :
              \A offset \in 0..LengthOf[c] : Arrives(ChunkFrom(c, offset, room))

\* As long as nothing fails, is damaged or set back, the ledger takes every event that the
\* end of a task calls for: each of its captures, and the end; what cannot be recorded as a
\* success, for its page, is recorded as a failure.
LedgerTakesTheEnd ==
    (faults = 0 /\ setbacks = 0 /\ damaged = {}) =>
        /\ work.at = "Unproven" => work.result.captures = <<>>
        /\ \A i \in broken : OutcomeOf(i) = "Failed"

\* A receipt that was written can be read (encode_capture_receipt, read_capture_receipt).
ReceiptsDecode == \A i \in Ids : receipts[i] # NoReceipt => Decodes(receipts[i])

\* A start whose files are undamaged comes to serve.
StartsAlways == (served = "Opening" /\ damaged = {}) => StartAnswer = "Ok"

\* A start with one damaged content serves the other collections.
DamageIsContained == served = "Opening" => StartAnswer = "Ok"

\* As long as no write fails and the clock is not set back, the admission stays open.
BoundsKeepAdmission ==
    (served = "Serving" /\ faults = 0 /\ setbacks = 0 /\ damaged = {}) => accepting

\* A shutdown leaves no collection open whose writes succeeded.
InterruptIsWritten ==
    (served = "Closed" /\ faults = 0 /\ broken = {}) => Incomplete = {}

\* "Not ready" is said of collections that may yet get a receipt.
NotReadyMeansOpen ==
    \A i \in Ids : Readable /\ ReceiptAnswer(i) = "ReceiptNotReady" => IsOpen(i)
=============================================================================
