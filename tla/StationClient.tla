--------------------------- MODULE StationClient ---------------------------
(***************************************************************************)
(* One client of the station shared by several callers                     *)
(* (crates/dig2browser-client/src/lib.rs).  A fair mutex holds the pipe; a *)
(* call connects when there is none, writes its request and reads one      *)
(* response, within a time limit that gives the pipe up.  A call that is   *)
(* dropped gives the mutex up but leaves the pipe as it is: what it wrote, *)
(* and what will be answered, stay in it.  The calls with progress then    *)
(* wait for the mutex once more and disconnect.                            *)
(*                                                                         *)
(* The server reads the requests of a pipe in their order and answers      *)
(* each, or ends the pipe; StationServer is what it does.  A frame that    *)
(* was written or read in part makes what follows unreadable.              *)
(***************************************************************************)
EXTENDS Integers, SequencesExt

CONSTANTS
    Sharers,     \* the callers
    PlainDrops,  \* may a call without progress be dropped as well?
    MaxPipes,    \* bounds for the checker
    MaxRequests

VARIABLES
    lock,        \* who holds the mutex, and who waits for it, in their order
    stream,      \* the pipe in the mutex, or 0
    pipe,        \* each pipe: requests and responses under way, whether frames are whole
    nextRequest, nextPipe,
    sharer,      \* each caller: where it is, its request, what it got
    abandoned    \* requests of calls that were dropped

clientVars == <<lock, stream, pipe, nextRequest, nextPipe, sharer, abandoned>>

Pipes == 1..MaxPipes
Ids == 1..MaxRequests
HasLock == {"Connecting", "Writing", "Reading"}

ClientTypeOK ==
    /\ lock \in Seq(Sharers) /\ Len(lock) <= MaxRequests
    /\ stream \in 0..MaxPipes
    /\ pipe \in [Pipes -> [sent : Seq(Ids), replies : Seq(Ids), open : BOOLEAN, cut : BOOLEAN]]
    /\ nextRequest \in 1..(MaxRequests + 1) /\ nextPipe \in 1..(MaxPipes + 1)
    /\ sharer \in [Sharers ->
            [at : {"Idle", "Queued", "Leaving"} \cup HasLock, id : 0..MaxRequests,
             got : 0..MaxRequests, desynced : BOOLEAN]]
    /\ abandoned \subseteq Ids

ClientInit ==
    /\ lock = <<>> /\ stream = 0 /\ abandoned = {}
    /\ pipe = [p \in Pipes |-> [sent |-> <<>>, replies |-> <<>>, open |-> FALSE, cut |-> FALSE]]
    /\ nextRequest = 1 /\ nextPipe = 1
    /\ sharer = [c \in Sharers |-> [at |-> "Idle", id |-> 0, got |-> 0, desynced |-> FALSE]]

Goes(c, at) == sharer' = [sharer EXCEPT ![c].at = at]
Returns(c, got) == sharer' = [sharer EXCEPT ![c] = [@ EXCEPT !.at = "Idle", !.got = got]]
Fails(c) == Returns(c, 0)
Without(c) == {RemoveAt(lock, i) : i \in {n \in DOMAIN lock : lock[n] = c}}
Unlocks(c) == lock' \in Without(c)
Holds(c) == lock # <<>> /\ Head(lock) = c

-----------------------------------------------------------------------------
(* call() *)

CallBegins(c) ==
    /\ sharer[c].at = "Idle" /\ nextRequest \in Ids
    /\ sharer' = [sharer EXCEPT ![c] = [at |-> "Queued", id |-> nextRequest, got |-> 0,
                                        desynced |-> FALSE]]
    /\ nextRequest' = nextRequest + 1
    /\ lock' = Append(lock, c)
    /\ UNCHANGED <<stream, pipe, nextPipe, abandoned>>

Locks(c) ==
    /\ sharer[c].at = "Queued" /\ Holds(c)
    /\ Goes(c, IF stream = 0 THEN "Connecting" ELSE "Writing")
    /\ UNCHANGED <<lock, stream, pipe, nextRequest, nextPipe, abandoned>>

\* connect_pipe() retries until its time is over.
Connects(c) ==
    /\ sharer[c].at = "Connecting"
    /\ \/ /\ nextPipe \in Pipes
          /\ stream' = nextPipe /\ nextPipe' = nextPipe + 1
          /\ pipe' = [pipe EXCEPT ![nextPipe].open = TRUE]
          /\ Goes(c, "Writing") /\ UNCHANGED lock
       \/ Fails(c) /\ Unlocks(c) /\ UNCHANGED <<stream, pipe, nextPipe>>
    /\ UNCHANGED <<nextRequest, abandoned>>

Writes(c) ==
    /\ sharer[c].at = "Writing" /\ pipe[stream].open
    /\ pipe' = [pipe EXCEPT ![stream].sent = Append(@, sharer[c].id)]
    /\ Goes(c, "Reading")
    /\ UNCHANGED <<lock, stream, nextRequest, nextPipe, abandoned>>

\* An error on the pipe, or the request's time is over: the pipe is given up.
CallFails(c) ==
    /\ sharer[c].at \in {"Writing", "Reading"}
    /\ stream' = 0
    /\ Fails(c) /\ Unlocks(c)
    /\ UNCHANGED <<pipe, nextRequest, nextPipe, abandoned>>

\* The response is that of another request: the pipe is given up too.
Reads(c) ==
    /\ sharer[c].at = "Reading" /\ pipe[stream].replies # <<>> /\ ~ pipe[stream].cut
    /\ pipe' = [pipe EXCEPT ![stream].replies = Tail(@)]
    /\ IF Head(pipe[stream].replies) = sharer[c].id
       THEN Returns(c, sharer[c].id) /\ UNCHANGED stream
       ELSE /\ sharer' = [sharer EXCEPT ![c] = [@ EXCEPT !.at = "Idle", !.desynced = TRUE]]
            /\ stream' = 0
    /\ Unlocks(c)
    /\ UNCHANGED <<nextRequest, nextPipe, abandoned>>

\* The future of a call is dropped, between two frames or within one.  A call with progress
\* goes on to disconnect().
CallDropped(c) ==
    /\ sharer[c].at \in {"Queued"} \cup HasLock
    /\ abandoned' = abandoned \cup {sharer[c].id}
    /\ \/ UNCHANGED pipe
       \/ /\ sharer[c].at \in {"Writing", "Reading"}
          /\ pipe' = [pipe EXCEPT ![stream].cut = TRUE]
    /\ \/ PlainDrops /\ Fails(c) /\ Unlocks(c)
       \/ Goes(c, "Leaving") /\ lock' \in {Append(rest, c) : rest \in Without(c)}
    /\ UNCHANGED <<stream, nextRequest, nextPipe>>

Disconnects(c) ==
    /\ sharer[c].at = "Leaving" /\ Holds(c)
    /\ stream' = 0
    /\ Fails(c) /\ Unlocks(c)
    /\ UNCHANGED <<pipe, nextRequest, nextPipe, abandoned>>

-----------------------------------------------------------------------------
(* The other end *)

ServerAnswers(p) ==
    /\ pipe[p].open /\ ~ pipe[p].cut /\ pipe[p].sent # <<>>
    /\ pipe' = [pipe EXCEPT ![p].sent = Tail(@), ![p].replies = Append(@, Head(pipe[p].sent))]
    /\ UNCHANGED <<lock, stream, nextRequest, nextPipe, sharer, abandoned>>

\* It sees the pipe closed, or ends the connection.
ServerLeaves(p) ==
    /\ pipe[p].open
    /\ pipe' = [pipe EXCEPT ![p] = [sent |-> <<>>, replies |-> <<>>, open |-> FALSE, cut |-> FALSE]]
    /\ UNCHANGED <<lock, stream, nextRequest, nextPipe, sharer, abandoned>>

ClientNext ==
    \/ \E c \in Sharers :
          \/ CallBegins(c) \/ Locks(c) \/ Connects(c) \/ Writes(c) \/ Reads(c) \/ CallFails(c)
          \/ CallDropped(c) \/ Disconnects(c)
    \/ \E p \in Pipes : ServerAnswers(p) \/ ServerLeaves(p)

ClientSpec == ClientInit /\ [][ClientNext]_clientVars

-----------------------------------------------------------------------------
(* Properties *)

\* What is still to come on the pipe belongs to the call that holds it, or to one that was
\* dropped: a call that failed or timed out leaves nothing for the next one to read.
PipeIsInStep ==
    stream # 0 =>
        LET under == pipe[stream].sent \o pipe[stream].replies IN
        \A i \in DOMAIN under :
            \/ under[i] \in abandoned
            \/ \E c \in Sharers : sharer[c].at = "Reading" /\ sharer[c].id = under[i]

\* No call meets a late answer ("Cancelling drops the in-flight request and disconnects the
\* pipe so its late response cannot desync the next request").
NeverDesynced == \A c \in Sharers : ~ sharer[c].desynced

\* But by a call that was dropped: however many calls fail or time out, as long as none was
\* dropped no other meets what was meant for them (call()).
OnlyDropsDesync == abandoned = {} => NeverDesynced
=============================================================================
