---------------------------- MODULE LiveSessions ----------------------------
(***************************************************************************)
(* Live sessions of the station daemon                                     *)
(* (crates/dig2browser-station/src/live.rs): a client begins a session on  *)
(* a lease of its own, a reader task puts the page's events in a bounded   *)
(* ring, and the client reads them by cursor.  begin() looks at the table, *)
(* awaits a lease, a navigation and a subscription, and looks again; other *)
(* begins, the expiry of idle sessions and shutdown() come in between.     *)
(*                                                                         *)
(* A session is named after the connection that begins it.  It owns a      *)
(* lease, which goes with the last of those who hold the session: the      *)
(* table, its reader, shutdown().  An event is its cursor; whether one     *)
(* passes the session's filter, and what it says, are left out.            *)
(***************************************************************************)
EXTENDS Naturals, FiniteSets, SequencesExt

CONSTANTS
    Connections,
    LiveIds,         \* session ids clients choose
    NoSession,
    MaxSessions,     \* MAX_LIVE_SESSIONS
    RingCapacity,    \* MAX_LIVE_RING_CAPACITY
    MaxCursor        \* bound: events of a session

VARIABLES
    liveAccepting,
    opening,         \* begin() of each connection: where it is, and the id it asked for
    sessions,        \* the table
    liveReader,      \* the reader task of each session
    stopped,         \* the sessions told to stop
    idle,            \* sessions nobody touched for LIVE_SESSION_IDLE_TTL_MS
    log,             \* each session's ring, sequence and count of dropped events
    closing,         \* shutdown(): "No", "Draining", "Done"
    departing,       \* the sessions shutdown() took out of the table
    \* History
    refused,         \* cursors given to events that could not be built
    lastRead         \* the next cursor and the drops each session's client was last told

liveVars == <<liveAccepting, opening, sessions, liveReader, stopped, idle, log, closing,
              departing, refused, lastRead>>

Awaits == {"Leasing", "Navigating", "Subscribing"}
Entered == {sessions[i] : i \in LiveIds} \ {NoSession}

LiveTypeOK ==
    /\ liveAccepting \in BOOLEAN
    /\ opening \in [Connections -> [at : {"New", "Entered", "Gone"} \cup Awaits,
                                    id : LiveIds \cup {NoSession}]]
    /\ sessions \in [LiveIds -> Connections \cup {NoSession}]
    /\ Cardinality(Entered) <= MaxSessions
    /\ liveReader \in [Connections -> {"None", "Running", "Aborted", "Ended"}]
    /\ stopped \subseteq Connections /\ idle \subseteq Connections
    /\ departing \subseteq Connections
    /\ \A c \in Connections :
           /\ log[c].ring \in Seq(1..MaxCursor) /\ Len(log[c].ring) <= RingCapacity
           /\ log[c].sequence \in 0..MaxCursor /\ log[c].dropped \in 0..MaxCursor
    /\ closing \in {"No", "Draining", "Done"}
    /\ refused \in [Connections -> SUBSET (1..MaxCursor)]
    /\ lastRead \in [Connections -> [cursor : 0..MaxCursor, dropped : 0..MaxCursor]]

LiveInit ==
    /\ liveAccepting = TRUE
    /\ opening = [c \in Connections |-> [at |-> "New", id |-> NoSession]]
    /\ sessions = [i \in LiveIds |-> NoSession]
    /\ liveReader = [c \in Connections |-> "None"]
    /\ stopped = {} /\ idle = {} /\ departing = {}
    /\ log = [c \in Connections |-> [ring |-> <<>>, sequence |-> 0, dropped |-> 0]]
    /\ closing = "No"
    /\ refused = [c \in Connections |-> {}]
    /\ lastRead = [c \in Connections |-> [cursor |-> 0, dropped |-> 0]]

\* Who keeps the lease of a session.
Held(c) ==
    \/ opening[c].at \in {"Navigating", "Subscribing"}
    \/ c \in Entered \cup departing
    \/ liveReader[c] \in {"Running", "Aborted"}

Goes(c, at) == opening' = [opening EXCEPT ![c].at = at]

\* stop_session(): the reader is told, and not waited for.
Stops(gone) ==
    /\ stopped' = stopped \cup gone
    /\ liveReader' = [c \in Connections |->
                        IF c \in gone /\ liveReader[c] = "Running" THEN "Aborted"
                        ELSE liveReader[c]]

\* reap_expired()
Reaped == [i \in LiveIds |-> IF sessions[i] \in idle THEN NoSession ELSE sessions[i]]
Expired == Entered \cap idle

\* What begin() looks at twice.
Admits(table, id) ==
    /\ table[id] = NoSession
    /\ Cardinality({i \in LiveIds : table[i] # NoSession}) < MaxSessions

-----------------------------------------------------------------------------
(* begin *)

BeginChecks(c, id) ==
    /\ opening[c].at = "New"
    /\ IF liveAccepting
       THEN /\ sessions' = Reaped
            /\ Stops(Expired)
            /\ opening' = [opening EXCEPT ![c] =
                             [at |-> IF Admits(Reaped, id) THEN "Leasing" ELSE "Gone",
                              id |-> id]]
       ELSE Goes(c, "Gone") /\ UNCHANGED <<sessions, stopped, liveReader>>
    /\ UNCHANGED <<liveAccepting, idle, log, closing, departing, refused, lastRead>>

BeginLeases(c) ==
    /\ opening[c].at = "Leasing"
    /\ Goes(c, "Navigating")
    /\ UNCHANGED <<liveAccepting, sessions, liveReader, stopped, idle, log, closing, departing,
                   refused, lastRead>>

BeginNavigates(c) ==
    /\ opening[c].at = "Navigating"
    /\ Goes(c, "Subscribing")
    /\ UNCHANGED <<liveAccepting, sessions, liveReader, stopped, idle, log, closing, departing,
                   refused, lastRead>>

\* The subscription is there: the reader runs, and the session is entered or stopped.
BeginEnters(c) ==
    /\ opening[c].at = "Subscribing"
    /\ LET id == opening[c].id IN
          IF liveAccepting /\ Admits(sessions, id)
          THEN /\ Goes(c, "Entered")
               /\ sessions' = [sessions EXCEPT ![id] = c]
               /\ liveReader' = [liveReader EXCEPT ![c] = "Running"]
               /\ UNCHANGED stopped
          ELSE /\ Goes(c, "Gone")
               /\ liveReader' = [liveReader EXCEPT ![c] = "Aborted"]
               /\ stopped' = stopped \cup {c}
               /\ UNCHANGED sessions
    /\ UNCHANGED <<liveAccepting, idle, log, closing, departing, refused, lastRead>>

\* An await that fails, or a begin() that is dropped in one, gives its lease back.
BeginFails(c) ==
    /\ opening[c].at \in Awaits
    /\ Goes(c, "Gone")
    /\ UNCHANGED <<liveAccepting, sessions, liveReader, stopped, idle, log, closing, departing,
                   refused, lastRead>>

-----------------------------------------------------------------------------
(* The reader, and the clients of a session *)

\* push_event(): the oldest event makes room and is counted.
\* Mutant: it is not counted.
PushUncounted(entry, cursor) ==
    [entry EXCEPT !.sequence = cursor,
                  !.ring = Append(IF Len(@) < RingCapacity THEN @ ELSE Tail(@), cursor)]
Push(entry, cursor) ==
    [entry EXCEPT !.sequence = cursor,
                  !.ring = Append(IF Len(@) < RingCapacity THEN @ ELSE Tail(@), cursor),
                  !.dropped = IF Len(entry.ring) < RingCapacity THEN @ ELSE @ + 1]

\* translate_event() takes a cursor before it builds the event, which LiveEvent::validate()
\* may refuse (a status outside 100..=599, an empty console level).
Event(c) ==
    /\ liveReader[c] = "Running" /\ c \notin stopped
    /\ log[c].sequence < MaxCursor
    /\ LET cursor == log[c].sequence + 1 IN
          \/ log' = [log EXCEPT ![c] = Push(@, cursor)] /\ UNCHANGED refused
          \/ /\ log' = [log EXCEPT ![c].sequence = cursor]
             /\ refused' = [refused EXCEPT ![c] = @ \cup {cursor}]
    /\ UNCHANGED <<liveAccepting, opening, sessions, liveReader, stopped, idle, closing,
                   departing, lastRead>>

\* The page's events end, or the abort arrives.  A reader that ends by itself leaves its
\* session, and the lease, in the table.
ReaderEnds(c) ==
    /\ liveReader[c] \in {"Running", "Aborted"}
    /\ liveReader' = [liveReader EXCEPT ![c] = "Ended"]
    /\ UNCHANGED <<liveAccepting, opening, sessions, stopped, idle, log, closing, departing,
                   refused, lastRead>>

TimePasses(c) ==
    /\ c \in Entered \ idle
    /\ idle' = idle \cup {c}
    /\ UNCHANGED <<liveAccepting, opening, sessions, liveReader, stopped, log, closing,
                   departing, refused, lastRead>>

\* The events behind a cursor, and what LiveEventPage::validate() wants of them.
PageAfter(c, cursor, limit) ==
    LET behind == SelectSeq(log[c].ring, LAMBDA e : e > cursor)
    IN  SubSeq(behind, 1, IF Len(behind) < limit THEN Len(behind) ELSE limit)

Contiguous(events) == \A k \in 1..Len(events) - 1 : events[k + 1] = events[k] + 1

\* read_events(), at the cursor its client was last told.
Read(i, limit) ==
    /\ sessions' = Reaped
    /\ Stops(Expired)
    /\ LET c == Reaped[i] IN
          IF c = NoSession
          THEN UNCHANGED <<idle, lastRead>>
          ELSE LET events == PageAfter(c, lastRead[c].cursor, limit) IN
               /\ idle' = idle \ {c}
               /\ lastRead' = IF Contiguous(events)
                          THEN [lastRead EXCEPT ![c] =
                                  [cursor |-> IF events = <<>> THEN @.cursor ELSE Last(events),
                                   dropped |-> log[c].dropped]]
                          ELSE lastRead
    /\ UNCHANGED <<liveAccepting, opening, log, closing, departing, refused>>

StopsLive(i) ==
    /\ sessions[i] # NoSession
    /\ Stops({sessions[i]})
    /\ sessions' = [sessions EXCEPT ![i] = NoSession]
    /\ UNCHANGED <<liveAccepting, opening, idle, log, closing, departing, refused,
                   lastRead>>

-----------------------------------------------------------------------------
(* shutdown *)

CloseLive ==
    /\ closing = "No"
    /\ closing' = "Draining"
    /\ liveAccepting' = FALSE
    /\ departing' = Entered
    /\ sessions' = [i \in LiveIds |-> NoSession]
    /\ Stops(Entered)
    /\ UNCHANGED <<opening, idle, log, refused, lastRead>>

\* The readers have ended, or the time is over.
LiveClosed(timedOut) ==
    /\ closing = "Draining"
    /\ timedOut \/ \A c \in departing : liveReader[c] = "Ended"
    /\ closing' = "Done"
    /\ departing' = {}
    /\ UNCHANGED <<liveAccepting, opening, sessions, liveReader, stopped, idle, log, refused,
                   lastRead>>

BeginStep(c) == BeginLeases(c) \/ BeginNavigates(c) \/ BeginEnters(c) \/ BeginFails(c)

LiveNext ==
    \/ \E c \in Connections :
          \/ \E id \in LiveIds : BeginChecks(c, id)
          \/ BeginStep(c) \/ Event(c) \/ ReaderEnds(c) \/ TimePasses(c)
    \/ \E i \in LiveIds : StopsLive(i) \/ \E limit \in 1..RingCapacity : Read(i, limit)
    \/ CloseLive \/ \E timedOut \in BOOLEAN : LiveClosed(timedOut)

LiveSpec == LiveInit /\ [][LiveNext]_liveVars

-----------------------------------------------------------------------------
(* Properties *)

\* No reader runs, and no lease is kept, for a session that is in nobody's table: two
\* begins of one id, or a begin in flight at shutdown(), leave none behind (begin() looks
\* at the table again after its awaits).
ReadersAreOwned ==
    /\ \A c \in Connections : liveReader[c] = "Running" => c \in Entered
    /\ closing # "No" => Entered = {}
    /\ closing = "Done" => \A c \in Connections :
           Held(c) => liveReader[c] = "Aborted" \/ opening[c].at \in Awaits

\* "A consumer diffs successive values to learn how many events were lost"
\* (LiveEventPage::dropped()): of the events that were built since the client's cursor,
\* no more are missing than the count has grown by.
Missing(c) ==
    {cursor \in lastRead[c].cursor + 1 .. log[c].sequence :
        cursor \notin refused[c] /\ ~ Contains(log[c].ring, cursor)}
LossIsCounted ==
    \A c \in Connections : Cardinality(Missing(c)) <= log[c].dropped - lastRead[c].dropped

\* Whatever a session's client is due can be sent as one page: "a gap means older events
\* were dropped" (LiveEventPage::validate_after()), and inside a page there is none.
PagesAreReadable ==
    \A c \in Entered : Contiguous(PageAfter(c, lastRead[c].cursor, RingCapacity))
=============================================================================
