---------------------------- MODULE CdpTransport ----------------------------
(***************************************************************************)
(* The CDP client (src/cdp/transport.rs): callers put commands in a        *)
(* bounded queue, a writer task registers each one and sends it, a reader  *)
(* task answers what it receives, and either task, or a close, ends the    *)
(* connection for all.  The WebSocket and the pipe differ in one thing:    *)
(* the pipe's reader ends at a frame it cannot parse, the WebSocket's      *)
(* drops it.                                                               *)
(*                                                                         *)
(* A call is its id; the peer answers what was sent, in any order, at most *)
(* once, or never.  watch::Receiver::changed() is ready once terminal is   *)
(* set, since every receiver is subscribed before.                         *)
(***************************************************************************)
EXTENDS Integers, SequencesExt

CONSTANTS
    Calls,
    Capacity      \* of the queue of commands

VARIABLES
    call,         \* each call: "New", "Admitted", "Waiting", "Returned", "Dropped"
    queue,        \* calls, and the command "Close"
    pending,      \* the calls that have an entry in the table
    answered,     \* the calls whose channel has a value, or lost its sender
    terminal,
    writer, cdpReader,
    sent,         \* the calls the peer has received and not yet answered
    lost          \* history: replies that found no entry while the connection was up

cdpVars == <<call, queue, pending, answered, terminal, writer, cdpReader, sent, lost>>

At(a) == [at |-> a]
On(a, c) == [at |-> a, call |-> c]

CdpTypeOK ==
    /\ call \in [Calls -> {"New", "Admitted", "Waiting", "Returned", "Dropped"}]
    /\ queue \in Seq(Calls \cup {"Close"}) /\ Len(queue) <= Capacity
    /\ pending \subseteq Calls /\ answered \subseteq Calls /\ sent \subseteq Calls
    /\ terminal \in BOOLEAN
    /\ writer \in [at : {"Receive", "Closing", "Mark", "Clear", "Gone"}]
                  \cup [at : {"Taken", "Registered", "Sending"}, call : Calls]
    /\ cdpReader \in {"Read", "Mark", "Clear", "Gone"}
    /\ lost \subseteq Calls

CdpInit ==
    /\ call = [c \in Calls |-> "New"]
    /\ queue = <<>> /\ pending = {} /\ answered = {} /\ terminal = FALSE
    /\ writer = At("Receive") /\ cdpReader = "Read"
    /\ sent = {} /\ lost = {}

-----------------------------------------------------------------------------
(* send, close_transport *)

Begin(c) ==
    /\ call[c] = "New"
    /\ call' = [call EXCEPT ![c] = IF terminal THEN "Returned" ELSE "Admitted"]
    /\ UNCHANGED <<queue, pending, answered, terminal, writer, cdpReader, sent, lost>>

\* The queue closes with the writer.
Enqueue(c) ==
    /\ call[c] = "Admitted"
    /\ \/ /\ writer = At("Gone")
          /\ call' = [call EXCEPT ![c] = "Returned"] /\ UNCHANGED queue
       \/ /\ writer # At("Gone") /\ Len(queue) < Capacity
          /\ call' = [call EXCEPT ![c] = "Waiting"] /\ queue' = Append(queue, c)
    /\ UNCHANGED <<pending, answered, terminal, writer, cdpReader, sent, lost>>

Return(c) ==
    /\ call[c] = "Waiting" /\ (terminal \/ c \in answered)
    /\ call' = [call EXCEPT ![c] = "Returned"]
    /\ UNCHANGED <<queue, pending, answered, terminal, writer, cdpReader, sent, lost>>

\* The caller's future is dropped, by a timeout around it.
DropCall(c) ==
    /\ call[c] \in {"Admitted", "Waiting"}
    /\ call' = [call EXCEPT ![c] = "Dropped"]
    /\ UNCHANGED <<queue, pending, answered, terminal, writer, cdpReader, sent, lost>>

Close ==
    /\ writer # At("Gone") /\ Len(queue) < Capacity /\ "Close" \notin ToSet(queue)
    /\ queue' = Append(queue, "Close")
    /\ UNCHANGED <<call, pending, answered, terminal, writer, cdpReader, sent, lost>>

-----------------------------------------------------------------------------
(* The writer task *)

\* The receiver of the queue goes with the task, and the commands left in it.
WriterGone ==
    /\ writer' = At("Gone")
    /\ answered' = answered \cup (ToSet(queue) \cap Calls)
    /\ queue' = <<>>

Receive ==
    /\ writer = At("Receive")
    /\ IF terminal THEN WriterGone
       ELSE /\ queue # <<>> /\ queue' = Tail(queue)
            /\ writer' = IF Head(queue) = "Close" THEN At("Closing") ELSE On("Taken", Head(queue))
            /\ UNCHANGED answered
    /\ UNCHANGED <<call, pending, terminal, cdpReader, sent, lost>>

CloseSent ==
    /\ writer = At("Closing") /\ writer' = At("Mark")
    /\ UNCHANGED <<call, queue, pending, answered, terminal, cdpReader, sent, lost>>

Register ==
    /\ writer.at = "Taken"
    /\ pending' = pending \cup {writer.call}
    /\ writer' = On("Registered", writer.call)
    /\ UNCHANGED <<call, queue, answered, terminal, cdpReader, sent, lost>>

\* The entry may have come after the end of the connection cleared the table.
\* Mutant: the writer goes by the look it took before it registered the call.
EndedUnderNot == FALSE
EndedUnder == terminal

Forget(c) ==
    /\ pending' = pending \ {c}
    /\ answered' = answered \cup {c} \cup (ToSet(queue) \cap Calls)
    /\ queue' = <<>> /\ writer' = At("Gone")

CheckTerminal ==
    /\ writer.at = "Registered"
    /\ IF EndedUnder THEN Forget(writer.call)
       ELSE writer' = On("Sending", writer.call) /\ UNCHANGED <<pending, answered, queue>>
    /\ UNCHANGED <<call, terminal, cdpReader, sent, lost>>

\* The peer has the command before the writer knows.
Transmit ==
    /\ writer.at = "Sending" /\ writer.call \notin sent
    /\ sent' = sent \cup {writer.call}
    /\ writer' = At("Receive")
    /\ UNCHANGED <<call, queue, pending, answered, terminal, cdpReader, lost>>

SendEnds ==
    /\ writer.at = "Sending"
    /\ \/ terminal /\ Forget(writer.call)
       \/ /\ pending' = pending \ {writer.call}      \* the send failed
          /\ answered' = answered \cup {writer.call}
          /\ writer' = At("Mark") /\ UNCHANGED queue
    /\ UNCHANGED <<call, terminal, cdpReader, sent, lost>>

\* mark_terminal(): the flag first, then the table.
Flag == terminal' = TRUE /\ UNCHANGED <<pending, answered>>

WriterFlags ==
    /\ writer = At("Mark") /\ writer' = At("Clear")
    /\ Flag
    /\ UNCHANGED <<call, queue, cdpReader, sent, lost>>

WriterClears ==
    /\ writer = At("Clear") /\ writer' = At("Gone")
    /\ pending' = {} /\ queue' = <<>>
    /\ answered' = answered \cup pending \cup (ToSet(queue) \cap Calls)
    /\ UNCHANGED <<call, terminal, cdpReader, sent, lost>>

-----------------------------------------------------------------------------
(* The reader task *)

Dispatch(c) ==
    /\ cdpReader = "Read" /\ c \in sent
    /\ sent' = sent \ {c}
    /\ pending' = pending \ {c}
    /\ answered' = IF c \in pending THEN answered \cup {c} ELSE answered
    /\ lost' = IF c \in pending \/ terminal THEN lost ELSE lost \cup {c}
    /\ UNCHANGED <<call, queue, terminal, writer, cdpReader>>

\* The peer closes, the connection breaks, or a frame on the pipe cannot be parsed.
ReadEnds ==
    /\ cdpReader = "Read" /\ cdpReader' = "Mark"
    /\ UNCHANGED <<call, queue, pending, answered, terminal, writer, sent, lost>>

ReaderFlags ==
    /\ cdpReader = "Mark" /\ cdpReader' = "Clear"
    /\ Flag
    /\ UNCHANGED <<call, queue, writer, sent, lost>>

ReaderClears ==
    /\ cdpReader = "Clear" /\ cdpReader' = "Gone"
    /\ pending' = {} /\ answered' = answered \cup pending
    /\ UNCHANGED <<call, queue, terminal, writer, sent, lost>>

CdpNext ==
    \/ \E c \in Calls : Begin(c) \/ Enqueue(c) \/ Return(c) \/ DropCall(c) \/ Dispatch(c)
    \/ Close
    \/ Receive \/ CloseSent \/ Register \/ CheckTerminal \/ Transmit \/ SendEnds
    \/ WriterFlags \/ WriterClears
    \/ ReadEnds \/ ReaderFlags \/ ReaderClears

CdpSpec == CdpInit /\ [][CdpNext]_cdpVars

-----------------------------------------------------------------------------
(* Properties *)

\* A reply finds the call it answers, and the end of the connection leaves no call in the
\* table, in whatever order the writer, the reader and the close come to it.
NoCallIsForgotten ==
    /\ lost = {}
    /\ (writer = At("Gone") /\ cdpReader = "Gone") => pending = {}
    /\ writer = At("Gone") => \A c \in Calls : call[c] = "Waiting" => terminal \/ c \in answered
=============================================================================
