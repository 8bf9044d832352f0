------------------------------- MODULE Monitor -------------------------------
(***************************************************************************)
(* Durable monitors: one append-only journal per monitor and a store of    *)
(* frame payloads they share                                               *)
(* (crates/dig2browser-station/src/monitor.rs over journal.rs and sink.rs  *)
(* of crates/dig2browser-trace/src).  A reader task records frames while   *)
(* clients read and stop the monitor; the process may die between any two  *)
(* durable steps, and appends may fail.                                    *)
(*                                                                         *)
(* A record is its cursor and what it says; the bytes of a record that are *)
(* not all there are an entry "Torn".  Nothing holds the sink's mutex      *)
(* across an await, so the reader has it from the store to the journal.    *)
(***************************************************************************)
EXTENDS Integers, SequencesExt

CONSTANTS
    Monitors,
    Payloads,
    MaxFrames,         \* bound: records of a journal
    MaxWriteFaults,    \* bound: appends that fail
    MaxCrashes         \* bound: starts of the daemon after the first

VARIABLES
    \* On disk
    journal, cas,
    \* In the process
    daemon,        \* "Opening", "Serving", "Refused": it cannot start
    unreconciled,  \* the journals reconcile_journals() has yet to open
    sink,          \* the records each open sink holds
    begin,         \* begin() of each monitor: "New", "Opened", "Spawned", "Entered", "Gone"
    reader,        \* its reader task: "None", "Idle", or with a frame
    sessions, accepting,
    stopping,      \* stop() of each monitor: "No", "Removed", "Recorded", "Returned"
    \* Bounds and history
    writeFaults, crashes,
    told           \* the records a client of each monitor has read

durable == <<journal, cas>>
process == <<daemon, unreconciled, sink, begin, reader, sessions, accepting, stopping>>
monitorVars == <<durable, process, writeFaults, crashes, told>>

Kinds == {"Started", "Stopped"} \cup Payloads
Entries == [cursor : Nat, kind : Kinds] \cup {[cursor |-> 0, kind |-> "Torn"]}
TornRecord == [cursor |-> 0, kind |-> "Torn"]
IdleReader == [at |-> "Idle"]
NoReader == [at |-> "None"]

MonitorTypeOK ==
    /\ journal \in [Monitors -> Seq(Entries)] /\ sink \in [Monitors -> Seq(Entries)]
    /\ cas \subseteq Payloads
    /\ daemon \in {"Opening", "Serving", "Refused"}
    /\ unreconciled \subseteq Monitors /\ sessions \subseteq Monitors
    /\ begin \in [Monitors -> {"New", "Opened", "Spawned", "Entered", "Gone"}]
    /\ reader \in [Monitors -> {NoReader, IdleReader} \cup
                               [at : {"Frame", "Stored"}, payload : Payloads]]
    /\ accepting \in BOOLEAN
    /\ stopping \in [Monitors -> {"No", "Removed", "Recorded", "Returned"}]
    /\ writeFaults \in Nat /\ crashes \in Nat
    /\ told \in [Monitors -> Seq(Entries)]

MonitorInit ==
    /\ journal = [i \in Monitors |-> <<>>] /\ cas = {}
    /\ daemon = "Serving" /\ unreconciled = {}
    /\ sink = [i \in Monitors |-> <<>>]
    /\ begin = [i \in Monitors |-> "New"]
    /\ reader = [i \in Monitors |-> NoReader]
    /\ sessions = {} /\ accepting = TRUE
    /\ stopping = [i \in Monitors |-> "No"]
    /\ writeFaults = 0 /\ crashes = 0
    /\ told = [i \in Monitors |-> <<>>]

-----------------------------------------------------------------------------
(* MonitorJournal *)

IsTerminal(records) == records # <<>> /\ Last(records).kind = "Stopped"

\* validate_scanned(), of the first n entries.
Sound(entries, n) ==
    \A k \in 1..n :
        /\ entries[k].cursor = k
        /\ entries[k].kind = "Started" <=> k = 1
        /\ k > 1 => entries[k - 1].kind # "Stopped"

Intact(entries) ==
    LET torn == {k \in 1..Len(entries) : entries[k] = TornRecord}
    IN  IF torn = {} THEN Len(entries) ELSE (CHOOSE k \in torn : \A j \in torn : k <= j) - 1

\* Bytes after a torn record are taken for its rest: it is incomplete, or corrupt.
MayReplay(entries) == Sound(entries, Intact(entries))
MayBeCorrupt(entries) == ~ MayReplay(entries) \/ Intact(entries) + 1 < Len(entries)

Replayed(entries) == SubSeq(entries, 1, Intact(entries))

\* open_deferred(): the torn tail is cut off the file.
Cut(entries) == Replayed(entries)

\* append_kind(): what is refused.  The clock may have gone back as well.
MayAppend(records, kind) ==
    /\ ~ IsTerminal(records)
    /\ kind = "Started" <=> records = <<>>

RecordAfter(records, kind) == [cursor |-> Len(records) + 1, kind |-> kind]

Appended(i, kind) ==
    /\ MayAppend(sink[i], kind)
    /\ journal' = [journal EXCEPT ![i] = Append(@, RecordAfter(sink[i], kind))]
    /\ sink' = [sink EXCEPT ![i] = Append(@, RecordAfter(@, kind))]
    /\ UNCHANGED writeFaults

AppendFails(i, kind) ==
    /\ MayAppend(sink[i], kind)
    /\ writeFaults < MaxWriteFaults /\ writeFaults' = writeFaults + 1
    /\ \E left \in {<<>>, <<TornRecord>>, <<RecordAfter(sink[i], kind)>>} :
           journal' = [journal EXCEPT ![i] = @ \o left]
    /\ UNCHANGED sink

AppendRefused == UNCHANGED <<journal, sink, writeFaults>>

-----------------------------------------------------------------------------
(* DurableMonitorManager *)

\* begin(), from the subscription on: nothing durable happens before.
BeginStarts(i) ==
    /\ daemon = "Serving" /\ begin[i] = "New" /\ accepting
    /\ \/ Appended(i, "Started") /\ begin' = [begin EXCEPT ![i] = "Opened"]
       \/ AppendFails(i, "Started") /\ begin' = [begin EXCEPT ![i] = "Gone"]
    /\ UNCHANGED <<cas, daemon, unreconciled, reader, sessions, accepting, stopping, crashes, told>>

BeginSpawns(i) ==
    /\ daemon = "Serving" /\ begin[i] = "Opened"
    /\ begin' = [begin EXCEPT ![i] = "Spawned"]
    /\ reader' = [reader EXCEPT ![i] = IdleReader]
    /\ UNCHANGED <<durable, daemon, unreconciled, sink, sessions, accepting, stopping,
                   writeFaults, crashes, told>>

\* A begin() that finds the admission closed takes its reader down and records nothing.
BeginEnters(i) ==
    /\ daemon = "Serving" /\ begin[i] = "Spawned"
    /\ IF accepting
       THEN sessions' = sessions \cup {i} /\ begin' = [begin EXCEPT ![i] = "Entered"]
       ELSE begin' = [begin EXCEPT ![i] = "Gone"] /\ UNCHANGED sessions
    /\ UNCHANGED <<durable, daemon, unreconciled, sink, reader, accepting, stopping, writeFaults,
                   crashes, told>>

\* The stopped flag of a session.
Flagged(i) == stopping[i] \in {"Recorded", "Returned"} \/ begin[i] = "Gone"

\* run_reader(): the flag is read before the frame is parsed and the mutex taken.
ReaderTakes(i) ==
    /\ daemon = "Serving" /\ reader[i] = IdleReader /\ ~ Flagged(i) /\ Len(sink[i]) < MaxFrames
    /\ \E p \in Payloads : reader' = [reader EXCEPT ![i] = [at |-> "Frame", payload |-> p]]
    /\ UNCHANGED <<durable, daemon, unreconciled, sink, begin, sessions, accepting, stopping,
                   writeFaults, crashes, told>>

\* record_frame(): the payload is in the store before a record refers to it.
\* Mutant: a frame whose payload the store refused is recorded as well.
RefusedRecorded(i) == UNCHANGED cas /\ reader' = [reader EXCEPT ![i].at = "Stored"]
StoreRefuses(i) == UNCHANGED cas /\ reader' = [reader EXCEPT ![i] = IdleReader]

ReaderStores(i) ==
    /\ daemon = "Serving" /\ reader[i].at = "Frame"
    /\ \/ cas' = cas \cup {reader[i].payload} /\ reader' = [reader EXCEPT ![i].at = "Stored"]
       \/ StoreRefuses(i)
    /\ UNCHANGED <<journal, daemon, unreconciled, sink, begin, sessions, accepting, stopping,
                   writeFaults, crashes, told>>

ReaderRecords(i) ==
    /\ daemon = "Serving" /\ reader[i].at = "Stored"
    /\ Appended(i, reader[i].payload) \/ AppendFails(i, reader[i].payload) \/ AppendRefused
    /\ reader' = [reader EXCEPT ![i] = IdleReader]
    /\ UNCHANGED <<cas, daemon, unreconciled, begin, sessions, accepting, stopping, crashes, told>>

\* Between two events an abort, the flag or the end of the browser ends it.
ReaderEnds(i) ==
    /\ daemon = "Serving" /\ reader[i] = IdleReader
    /\ reader' = [reader EXCEPT ![i] = NoReader]
    /\ UNCHANGED <<durable, daemon, unreconciled, sink, begin, sessions, accepting, stopping,
                   writeFaults, crashes, told>>

\* stop() finds the session in the map, and takes it out.
StopRemoves(i) ==
    /\ daemon = "Serving" /\ i \in sessions /\ stopping[i] = "No"
    /\ sessions' = sessions \ {i}
    /\ stopping' = [stopping EXCEPT ![i] = "Removed"]
    /\ UNCHANGED <<durable, daemon, unreconciled, sink, begin, reader, accepting, writeFaults,
                   crashes, told>>

MutexFree(i) == reader[i].at # "Stored"

StopRecords(i) ==
    /\ daemon = "Serving" /\ stopping[i] = "Removed" /\ MutexFree(i)
    /\ Appended(i, "Stopped") \/ AppendFails(i, "Stopped") \/ AppendRefused
    /\ stopping' = [stopping EXCEPT ![i] = "Recorded"]
    /\ UNCHANGED <<cas, daemon, unreconciled, begin, reader, sessions, accepting, crashes, told>>

\* The reader is awaited: its share of the session goes with it.
Awaited(i) == reader[i] = NoReader

StopReturns(i) ==
    /\ daemon = "Serving" /\ stopping[i] = "Recorded" /\ Awaited(i)
    /\ stopping' = [stopping EXCEPT ![i] = "Returned"]
    /\ UNCHANGED <<durable, daemon, unreconciled, sink, begin, reader, sessions, accepting,
                   writeFaults, crashes, told>>

\* shutdown() and abandon(): the sessions leave the map together, and are stopped (or only
\* flagged) one after the other.
Drain(record) ==
    /\ daemon = "Serving" /\ accepting
    /\ accepting' = FALSE /\ sessions' = {}
    /\ stopping' = [i \in Monitors |->
                      IF i \in sessions THEN IF record THEN "Removed" ELSE "Recorded"
                      ELSE stopping[i]]
    /\ UNCHANGED <<durable, daemon, unreconciled, sink, begin, reader, writeFaults, crashes, told>>

\* The lock on a journal is held as long as somebody has its session.
Locked(i) ==
    \/ begin[i] \in {"Opened", "Spawned"} \/ i \in sessions
    \/ stopping[i] \in {"Removed", "Recorded"} \/ reader[i] # NoReader

\* read(), of a resident monitor or of its file.
Read(i) ==
    /\ daemon = "Serving"
    /\ IF i \in sessions
       THEN MutexFree(i) /\ told' = [told EXCEPT ![i] = sink[i]] /\ UNCHANGED journal
       ELSE /\ ~ Locked(i) /\ MayReplay(journal[i])
            /\ journal' = [journal EXCEPT ![i] = Cut(@)]
            /\ told' = [told EXCEPT ![i] = Replayed(journal[i])]
    /\ UNCHANGED <<cas, process, writeFaults, crashes>>

-----------------------------------------------------------------------------
(* Start of the daemon *)

\* What open_at() has to add to a journal that was left open.
Owed(entries) == Replayed(entries) # <<>> /\ ~ IsTerminal(Replayed(entries))

\* A crash may tear the record that is being appended.
Tearable(i) == Locked(i) \/ (i \in unreconciled /\ Owed(journal[i]))

DaemonDies ==
    /\ crashes < MaxCrashes /\ crashes' = crashes + 1
    /\ \E torn \in SUBSET {i \in Monitors : Tearable(i)} :
           journal' = [i \in Monitors |->
                         IF i \notin torn THEN journal[i]
                         ELSE Append(IF Locked(i) THEN journal[i] ELSE Cut(journal[i]), TornRecord)]
    /\ daemon' = "Opening" /\ unreconciled' = Monitors
    /\ sink' = [i \in Monitors |-> <<>>]
    /\ begin' = [i \in Monitors |-> IF begin[i] = "New" THEN "New" ELSE "Gone"]
    /\ reader' = [i \in Monitors |-> NoReader]
    /\ sessions' = {} /\ accepting' = TRUE
    /\ stopping' = [i \in Monitors |-> "No"]
    /\ UNCHANGED <<cas, writeFaults, told>>

\* open_at(): what was left open is closed.
Closed(entries) ==
    IF Owed(entries) THEN Append(Cut(entries), RecordAfter(Replayed(entries), "Stopped"))
    ELSE Cut(entries)

Reconcile(i) ==
    /\ daemon = "Opening" /\ i \in unreconciled
    /\ \/ /\ MayReplay(journal[i])
          /\ journal' = [journal EXCEPT ![i] = Closed(@)]
          /\ unreconciled' = unreconciled \ {i} /\ UNCHANGED daemon
       \/ /\ MayBeCorrupt(journal[i])
          /\ daemon' = "Refused" /\ UNCHANGED <<journal, unreconciled>>
    /\ UNCHANGED <<cas, sink, begin, reader, sessions, accepting, stopping, writeFaults, crashes,
                   told>>

Serve ==
    /\ daemon = "Opening" /\ unreconciled = {}
    /\ daemon' = "Serving"
    /\ UNCHANGED <<durable, unreconciled, sink, begin, reader, sessions, accepting, stopping,
                   writeFaults, crashes, told>>

MonitorNext ==
    \/ \E i \in Monitors :
          \/ BeginStarts(i) \/ BeginSpawns(i) \/ BeginEnters(i)
          \/ ReaderTakes(i) \/ ReaderStores(i) \/ ReaderRecords(i) \/ ReaderEnds(i)
          \/ StopRemoves(i) \/ StopRecords(i) \/ StopReturns(i)
          \/ Read(i) \/ Reconcile(i)
    \/ \E record \in BOOLEAN : Drain(record)
    \/ DaemonDies \/ Serve

MonitorSpec == MonitorInit /\ [][MonitorNext]_monitorVars

-----------------------------------------------------------------------------
(* Properties *)

\* A record that a client has read keeps its place: whatever crashes, no record under its
\* cursor is lost, renumbered or followed by something else, and the payloads of frames are
\* there to be read.
CursorsHold ==
    \A i \in Monitors :
        /\ IsPrefix(told[i], journal[i])
        /\ \A k \in 1..Len(journal[i]) :
               journal[i][k].kind \in Payloads => journal[i][k].kind \in cas

\* After stop() has returned, the monitor can be read: nobody holds its journal.
StoppedIsReadable ==
    \A i \in Monitors :
        (stopping[i] = "Returned" /\ daemon = "Serving") => ~ Locked(i) /\ MayReplay(journal[i])

\* Each journal can be opened again, and so the daemon can start.  A failed append leaves
\* bytes behind that break this.
JournalsStayConsistent == daemon # "Refused"
=============================================================================
