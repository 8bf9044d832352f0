----------------------------- MODULE Collection -----------------------------
(***************************************************************************)
(* Collections of the station daemon: a task run on a lease whose result   *)
(* is kept in three places on disk, the artifact store, the receipt and    *)
(* the trace ledger, in that order                                         *)
(* (crates/dig2browser-station/src/collection.rs over                      *)
(* crates/dig2browser-trace/src/lib.rs).  A collection is begun by a       *)
(* client, which gets its id and reads the outcome later, or executed by   *)
(* the crawl service, which waits for it.                                  *)
(*                                                                         *)
(* persist_collection_result() holds the ledger's mutex from its first     *)
(* write to its last, so in the process nothing comes in between; a crash  *)
(* does, and any write may fail with or without having taken effect.       *)
(* Abstracted: a capture is one artifact (the viewport image is a second   *)
(* one with the same fate), a task is its digest.                          *)
(***************************************************************************)
EXTENDS Naturals, FiniteSets

CONSTANTS
    Ids,
    Tasks,        \* digests of tasks
    NoTask,
    MaxActive,    \* MAX_ACTIVE_COLLECTIONS
    MaxFaults,    \* bound: writes that fail
    MaxStarts     \* bound: starts of the daemon

VARIABLES
    \* On disk
    begun,        \* the digest in each Started event
    outcome,      \* how the events of each collection end
    artifact,     \* collections whose ledger refers to a captured artifact
    blob,         \* collections whose captured artifact is in the store
    receipt,      \* the digest in each receipt
    \* In the process
    phase,        \* "Down", "Recovering", "Serving", "Closing", "Waiting" or "Interrupting"
    accepting,
    admission,    \* who holds the admission lock, and where
    pc,           \* of the task that runs each collection
    executed,     \* collections the crawl service waits for
    active,       \* the table of collections that were begun
    cancelled,    \* the cancellation flags that are set
    failures,     \* terminal_failures
    leaving,      \* what shutdown() took out of the table
    \* Bounds and history
    faults, starts,
    stray         \* open collections that no table and no caller knows

disk == <<begun, outcome, artifact, blob, receipt>>
manager == <<phase, accepting, admission, executed, active, cancelled, failures, leaving>>
vars == <<disk, manager, pc, faults, starts, stray>>

Ends == {"Succeeded", "Failed", "Cancelled", "Interrupted"}
Nobody == [at |-> "Free"]
Holders == {Nobody} \cup
    [at : {"Lease", "Insert"}, id : Ids, task : Tasks, execute : BOOLEAN]
Persisting == {"Blob", "Reference", "Receipt", "Disown"} \cup Ends

TypeOK ==
    /\ begun \in [Ids -> Tasks \cup {NoTask}]
    /\ outcome \in [Ids -> {"Unused", "Open"} \cup Ends]
    /\ artifact \subseteq Ids /\ blob \subseteq Ids
    /\ receipt \in [Ids -> Tasks \cup {NoTask}]
    /\ phase \in {"Down", "Recovering", "Serving", "Closing", "Waiting", "Interrupting"}
    /\ accepting \in BOOLEAN
    /\ admission \in Holders
    /\ pc \in [Ids -> {"None", "Running", "Ended"} \cup Persisting]
    /\ executed \subseteq Ids /\ active \subseteq Ids /\ Cardinality(active) <= MaxActive
    /\ cancelled \subseteq Ids
    /\ failures \subseteq Ids /\ leaving \subseteq Ids
    /\ faults \in Nat /\ starts \in Nat /\ stray \subseteq Ids

Init ==
    /\ begun = [i \in Ids |-> NoTask] /\ outcome = [i \in Ids |-> "Unused"]
    /\ artifact = {} /\ blob = {} /\ receipt = [i \in Ids |-> NoTask]
    /\ phase = "Recovering" /\ accepting = FALSE /\ admission = Nobody
    /\ pc = [i \in Ids |-> "None"]
    /\ executed = {} /\ active = {} /\ cancelled = {} /\ failures = {} /\ leaving = {}
    /\ faults = 0 /\ starts = 1 /\ stray = {}

Up == phase # "Down"
LedgerFree == \A i \in Ids : pc[i] \notin Persisting
Healthy(i) == i \notin failures
Open == {i \in Ids : outcome[i] = "Open"}
Finished == {i \in Ids : pc[i] \in {"None", "Ended"}}

-----------------------------------------------------------------------------
(* Admission *)

\* Mutant: the collection that is asked for is not counted.
HasRoomForOneMore(table) == Cardinality(table) <= MaxActive
HasRoom(table) == Cardinality(table) < MaxActive

\* begin() and execute(), up to the lease of a browser.  reap_finished() comes first.
Admit(i, t, execute) ==
    /\ phase = "Serving" /\ accepting /\ admission = Nobody /\ LedgerFree
    /\ active' = active \ Finished
    /\ Healthy(i) /\ outcome[i] = "Unused"
    /\ execute \/ HasRoom(active')
    /\ admission' = [at |-> "Lease", id |-> i, task |-> t, execute |-> execute]
    /\ UNCHANGED <<disk, phase, accepting, executed, cancelled, failures, leaving, pc, faults,
                   starts, stray>>

\* The lease is there: the Started event, and the task runs.  execute() gives the lock up.
Start ==
    /\ Up /\ admission.at = "Lease" /\ LedgerFree
    /\ LET i == admission.id IN
          /\ begun' = [begun EXCEPT ![i] = admission.task]
          /\ outcome' = [outcome EXCEPT ![i] = "Open"]
          /\ pc' = [pc EXCEPT ![i] = "Running"]
          /\ IF admission.execute
             THEN admission' = Nobody /\ executed' = executed \cup {i}
             ELSE admission' = [admission EXCEPT !.at = "Insert"] /\ UNCHANGED executed
    /\ UNCHANGED <<artifact, blob, receipt, phase, accepting, active, cancelled, failures,
                   leaving, faults, starts, stray>>

\* No lease, or a caller that is gone.
Refuse ==
    /\ Up /\ admission.at = "Lease"
    /\ admission' = Nobody
    /\ UNCHANGED <<disk, phase, accepting, executed, active, cancelled, failures, leaving, pc,
                   faults, starts, stray>>

\* The directory of the collection is in place, but not known to be: begin_collection()
\* fails and nobody runs the task.
StartFails ==
    /\ Up /\ admission.at = "Lease" /\ LedgerFree /\ faults < MaxFaults
    /\ faults' = faults + 1
    /\ begun' = [begun EXCEPT ![admission.id] = admission.task]
    /\ outcome' = [outcome EXCEPT ![admission.id] = "Open"]
    /\ stray' = stray \cup {admission.id}
    /\ admission' = Nobody
    /\ UNCHANGED <<artifact, blob, receipt, phase, accepting, executed, active, cancelled,
                   failures, leaving, pc, starts>>

\* begin() enters its task in the table.
Enter ==
    /\ Up /\ admission.at = "Insert"
    /\ active' = active \cup {admission.id}
    /\ admission' = Nobody
    /\ UNCHANGED <<disk, phase, accepting, executed, cancelled, failures, leaving, pc, faults,
                   starts, stray>>

\* The caller's future is dropped before the table knows the task, or in the task.
DropBegin ==
    /\ Up /\ admission.at = "Insert"
    /\ stray' = stray \cup {admission.id}
    /\ admission' = Nobody
    /\ UNCHANGED <<disk, phase, accepting, executed, active, cancelled, failures, leaving, pc,
                   faults, starts>>

DropExecute(i) ==
    /\ Up /\ i \in executed /\ pc[i] = "Running"
    /\ pc' = [pc EXCEPT ![i] = "Ended"]
    /\ stray' = stray \cup {i}
    /\ UNCHANGED <<disk, manager, faults, starts>>

\* cancel(): a collection that is not in the table is left alone.
Cancel(i) ==
    /\ Up /\ Healthy(i) /\ outcome[i] # "Unused"
    /\ active' = active \ Finished
    /\ cancelled' = IF i \in active' THEN cancelled \cup {i} ELSE cancelled
    /\ active' # active \/ cancelled' # cancelled
    /\ UNCHANGED <<disk, phase, accepting, admission, executed, failures, leaving, pc, faults,
                   starts, stray>>

-----------------------------------------------------------------------------
(* persist_collection_result *)

TaskEnds(i, result) ==
    /\ Up /\ pc[i] = "Running" /\ LedgerFree
    /\ result = "Cancelled" => i \in cancelled
    /\ pc' = [pc EXCEPT ![i] =
                CASE result = "Captured" -> "Blob"
                  [] result = "NoCapture" -> IF i \in executed THEN "Failed" ELSE "Succeeded"
                  [] OTHER -> result]
    /\ UNCHANGED <<disk, manager, faults, starts, stray>>

\* The bytes come before the event that refers to them, and both before the receipt.
\* Mutant: the receipt comes before the reference.
AfterSwapped(at) == [Blob |-> "Receipt", Receipt |-> "Reference", Reference |-> "Succeeded"][at]
After(at) == [Blob |-> "Reference", Reference |-> "Receipt", Receipt |-> "Succeeded"][at]

\* One durable write: done, or failed with or without effect.
Writes(i, failed, write, none) ==
    \/ write /\ pc' = [pc EXCEPT ![i] = After(@)] /\ UNCHANGED faults
    \/ /\ faults < MaxFaults /\ faults' = faults + 1
       /\ pc' = [pc EXCEPT ![i] = failed]
       /\ write \/ none

WriteBlob(i) ==
    /\ pc[i] = "Blob"
    /\ Writes(i, "Failed", blob' = blob \cup {i}, UNCHANGED blob)
    /\ UNCHANGED <<begun, outcome, artifact, receipt, manager, starts, stray>>

WriteReference(i) ==
    /\ pc[i] = "Reference"
    /\ Writes(i, "Failed", artifact' = artifact \cup {i}, UNCHANGED artifact)
    /\ UNCHANGED <<begun, outcome, blob, receipt, manager, starts, stray>>

WriteReceipt(i) ==
    /\ pc[i] = "Receipt"
    /\ Writes(i, "Disown", receipt' = [receipt EXCEPT ![i] = begun[i]], UNCHANGED receipt)
    /\ UNCHANGED <<begun, outcome, artifact, blob, manager, starts, stray>>

\* A failed terminal write closes the manager; so does a failed receipt, whatever
\* becomes of the Failed event that follows it.
Poison(i) ==
    /\ accepting' = FALSE
    /\ failures' = failures \cup {i}
    /\ UNCHANGED <<phase, admission, executed, active, cancelled, leaving>>

Finish(i) ==
    /\ pc[i] \in Ends
    /\ pc' = [pc EXCEPT ![i] = "Ended"]
    /\ \/ /\ outcome' = [outcome EXCEPT ![i] = pc[i]]
          /\ UNCHANGED <<faults, manager>>
       \/ /\ faults < MaxFaults /\ faults' = faults + 1
          /\ outcome' \in {outcome, [outcome EXCEPT ![i] = pc[i]]}
          /\ Poison(i)
    /\ UNCHANGED <<begun, artifact, blob, receipt, starts, stray>>

Disown(i) ==
    /\ pc[i] = "Disown"
    /\ pc' = [pc EXCEPT ![i] = "Ended"]
    /\ outcome' \in {[outcome EXCEPT ![i] = "Failed"]}
                    \cup (IF faults < MaxFaults THEN {outcome} ELSE {})
    /\ Poison(i)
    /\ UNCHANGED <<begun, artifact, blob, receipt, faults, starts, stray>>

-----------------------------------------------------------------------------
(* shutdown *)

Close ==
    /\ phase = "Serving"
    /\ phase' = "Closing" /\ accepting' = FALSE
    /\ UNCHANGED <<disk, admission, executed, active, cancelled, failures, leaving, pc, faults,
                   starts, stray>>

\* With the admission lock nobody is between the ledger and the table.
AdmissionHeld == admission = Nobody

Drain ==
    /\ phase = "Closing" /\ AdmissionHeld
    /\ phase' = "Waiting"
    /\ leaving' = active /\ active' = {}
    /\ cancelled' = cancelled \cup active
    /\ UNCHANGED <<disk, accepting, admission, executed, failures, pc, faults, starts, stray>>

\* Everything ended in time.
Drained ==
    /\ phase = "Waiting" /\ leaving \subseteq Finished
    /\ phase' = "Down" /\ leaving' = {}
    /\ UNCHANGED <<disk, accepting, admission, executed, active, cancelled, failures, pc,
                   faults, starts, stray>>

\* The time is up: tasks are aborted at their next await, never inside a persist.
Abort ==
    /\ phase = "Waiting" /\ ~ (leaving \subseteq Finished)
    /\ \A i \in leaving : pc[i] \notin Persisting
    /\ phase' = "Interrupting"
    /\ pc' = [i \in Ids |-> IF i \in leaving THEN "Ended" ELSE pc[i]]
    /\ UNCHANGED <<disk, accepting, admission, executed, active, cancelled, failures, leaving,
                   faults, starts, stray>>

\* interrupt_collection(): a collection that has ended by now is left as it is.
\* Mutant: it is not.
MayInterruptAny(i) == TRUE
MayInterrupt(i) == outcome[i] = "Open"

Interrupt(i) ==
    /\ phase = "Interrupting" /\ i \in leaving /\ LedgerFree
    /\ outcome' = IF MayInterrupt(i) THEN [outcome EXCEPT ![i] = "Interrupted"] ELSE outcome
    /\ failures' = failures \ {i}
    /\ leaving' = leaving \ {i}
    /\ UNCHANGED <<begun, artifact, blob, receipt, phase, accepting, admission, executed, active,
                   cancelled, pc, faults, starts, stray>>

\* An interruption that cannot be written ends the shutdown with an error.
InterruptFails(i) ==
    /\ phase = "Interrupting" /\ i \in leaving /\ LedgerFree /\ MayInterrupt(i)
    /\ faults < MaxFaults /\ faults' = faults + 1
    /\ outcome' \in {outcome, [outcome EXCEPT ![i] = "Interrupted"]}
    /\ phase' = "Down"
    /\ UNCHANGED <<begun, artifact, blob, receipt, accepting, admission, executed, active,
                   cancelled, failures, leaving, pc, starts, stray>>

Interrupted ==
    /\ phase = "Interrupting" /\ leaving = {}
    /\ phase' = "Down"
    /\ UNCHANGED <<disk, accepting, admission, executed, active, cancelled, failures, leaving,
                   pc, faults, starts, stray>>

-----------------------------------------------------------------------------
(* The next start, after a shutdown or a crash *)

Restart ==
    /\ starts < MaxStarts /\ starts' = starts + 1
    /\ phase' = "Recovering" /\ accepting' = FALSE /\ admission' = Nobody
    /\ pc' = [i \in Ids |-> "None"]
    /\ executed' = {} /\ active' = {} /\ cancelled' = {} /\ failures' = {} /\ leaving' = {}
    /\ UNCHANGED <<disk, faults, stray>>

\* reconcile_successor(): a collection with a receipt did succeed.
Backed(i) == i \in artifact /\ i \in blob /\ receipt[i] = begun[i]
Unclaimed == {i \in Open : receipt[i] # NoTask}

Recover(i) ==
    /\ phase = "Recovering" /\ i \in Unclaimed /\ Backed(i)
    /\ outcome' = [outcome EXCEPT ![i] = "Succeeded"]
    /\ UNCHANGED <<begun, artifact, blob, receipt, manager, pc, faults, starts, stray>>

\* reconcile_at(): whatever is still open was interrupted.  Receipts come first.
Abandoned == IF Unclaimed = {} THEN Open ELSE {}

Abandon(i) ==
    /\ phase = "Recovering" /\ i \in Abandoned
    /\ outcome' = [outcome EXCEPT ![i] = "Interrupted"]
    /\ UNCHANGED <<begun, artifact, blob, receipt, manager, pc, faults, starts, stray>>

Serve ==
    /\ phase = "Recovering" /\ Open = {}
    /\ phase' = "Serving" /\ accepting' = TRUE
    /\ UNCHANGED <<disk, admission, executed, active, cancelled, failures, leaving, pc, faults,
                   starts, stray>>

Persist(i) ==
    Up /\ (WriteBlob(i) \/ WriteReference(i) \/ WriteReceipt(i) \/ Finish(i) \/ Disown(i))

Next ==
    \/ \E i \in Ids, t \in Tasks, execute \in BOOLEAN : Admit(i, t, execute)
    \/ Start \/ StartFails \/ Refuse \/ Enter \/ DropBegin
    \/ \E i \in Ids : DropExecute(i) \/ Cancel(i)
    \/ \E i \in Ids, result \in {"Captured", "NoCapture", "Cancelled", "Failed"} :
           TaskEnds(i, result)
    \/ \E i \in Ids : Persist(i)
    \/ Close \/ Drain \/ Drained \/ Abort \/ Interrupted
    \/ \E i \in Ids : Interrupt(i) \/ InterruptFails(i)
    \/ Restart \/ Serve
    \/ \E i \in Ids : Recover(i) \/ Abandon(i)

Spec == Init /\ [][Next]_vars

-----------------------------------------------------------------------------
(* Properties *)

\* Whenever the daemon dies, a receipt on disk stands for an artifact that is there and
\* that the ledger refers to, of the task the ledger began; and a collection executed for
\* the crawl service does not succeed without one.  As long as no write fails, no ending
\* but success gets into the ledger of a collection with a receipt.
ReceiptsAreBacked ==
    \A i \in Ids :
        /\ receipt[i] # NoTask => Backed(i)
        /\ i \in artifact => i \in blob
        /\ (i \in executed /\ outcome[i] = "Succeeded") => receipt[i] # NoTask
        /\ (faults = 0 /\ receipt[i] # NoTask) => outcome[i] \in {"Open", "Succeeded"}

\* How a collection ended is never rewritten: not by the interruption of a shutdown that
\* waited for it, and not by the recovery of the next start.
OutcomeIsFinal == [][\A i \in Ids : outcome[i] \in Ends => outcome'[i] = outcome[i]]_vars

\* A shutdown that is through leaves no collection open that a client began, except
\* those that nothing but the ledger knows or whose ledger failed.
ShutdownSettles ==
    phase = "Down" => Open \subseteq executed \cup stray \cup failures \cup leaving
=============================================================================
