---------------------------- MODULE BidiTransport ----------------------------
(***************************************************************************)
(* The WebDriver BiDi client (src/bidi/transport.rs).  Unlike the CDP      *)
(* client, the caller registers its own call and then waits for the answer *)
(* alone, without an eye on the end of the connection: it returns when its *)
(* entry is answered or thrown away.                                       *)
(***************************************************************************)
EXTENDS Integers, SequencesExt

CONSTANTS
    BidiCalls,
    Room          \* in the queue of commands

VARIABLES
    calls,        \* "New", "Admitted", "Registered", "Checked", "Waiting", "Returned", "Dropped"
    commands,     \* the queue
    entries,      \* the calls with an entry in the table
    settled,      \* the calls that were answered, or whose entry was thrown away
    accepting_commands, ended,
    sender, receiver,
    closer,       \* close_transport(): "No", "Asked", "Aborting", "Mark", "Clear", "Done"
    asked         \* the calls the peer has received

bidiVars == <<calls, commands, entries, settled, accepting_commands, ended, sender, receiver,
              closer, asked>>

TaskStates == {"Run", "Mark", "Clear", "Leaving", "Gone"}

BidiTypeOK ==
    /\ calls \in [BidiCalls ->
            {"New", "Admitted", "Registered", "Checked", "Waiting", "Returned", "Dropped"}]
    /\ commands \in Seq(BidiCalls) /\ Len(commands) <= Room
    /\ entries \subseteq BidiCalls /\ settled \subseteq BidiCalls /\ asked \subseteq BidiCalls
    /\ accepting_commands \in BOOLEAN /\ ended \in BOOLEAN
    /\ sender \in TaskStates \cup {"Closing"} /\ receiver \in TaskStates
    /\ closer \in {"No", "Asked", "Aborting", "Mark", "Clear", "Done"}

BidiInit ==
    /\ calls = [c \in BidiCalls |-> "New"]
    /\ commands = <<>> /\ entries = {} /\ settled = {} /\ asked = {}
    /\ accepting_commands = TRUE /\ ended = FALSE
    /\ sender = "Run" /\ receiver = "Run" /\ closer = "No"

-----------------------------------------------------------------------------
(* call *)

Open == accepting_commands /\ ~ ended
Becomes(c, s) == calls' = [calls EXCEPT ![c] = s]
CallerOnly == UNCHANGED <<accepting_commands, ended, sender, receiver, closer, asked>>

Admit(c) ==
    /\ calls[c] = "New"
    /\ Becomes(c, IF Open THEN "Admitted" ELSE "Returned")
    /\ CallerOnly /\ UNCHANGED <<commands, entries, settled>>

Enter(c) ==
    /\ calls[c] = "Admitted" /\ Becomes(c, "Registered")
    /\ entries' = entries \cup {c}
    /\ CallerOnly /\ UNCHANGED <<commands, settled>>

\* The connection may have ended since the first look.
\* Mutant: there is no second one.
StillOpenAssumed == TRUE
StillOpen == Open

Recheck(c) ==
    /\ calls[c] = "Registered"
    /\ IF StillOpen THEN Becomes(c, "Checked") /\ UNCHANGED entries
       ELSE Becomes(c, "Returned") /\ entries' = entries \ {c}
    /\ CallerOnly /\ UNCHANGED <<commands, settled>>

Send(c) ==
    /\ calls[c] = "Checked"
    /\ \/ /\ sender = "Gone" /\ Becomes(c, "Returned")
          /\ entries' = entries \ {c} /\ UNCHANGED commands
       \/ /\ sender # "Gone" /\ Len(commands) < Room
          /\ Becomes(c, "Waiting") /\ commands' = Append(commands, c) /\ UNCHANGED entries
    /\ CallerOnly /\ UNCHANGED settled

Answered(c) ==
    /\ calls[c] = "Waiting" /\ c \in settled
    /\ Becomes(c, "Returned")
    /\ CallerOnly /\ UNCHANGED <<commands, entries, settled>>

\* The future is dropped where it waits for room or for the answer.
GiveUp(c) ==
    /\ calls[c] \in {"Checked", "Waiting"} /\ Becomes(c, "Dropped")
    /\ CallerOnly /\ UNCHANGED <<commands, entries, settled>>

-----------------------------------------------------------------------------
(* mark_terminal: two steps, of three actors *)

\* The flag comes before the table.
\* Mutant: the table first.
MarksTable(step) == step = "Mark"
Marks(step) == step = "Clear"

Marking(step) ==
    IF Marks(step) THEN entries' = {} /\ settled' = settled \cup entries /\ UNCHANGED ended
    ELSE ended' = TRUE /\ UNCHANGED <<entries, settled>>

After(step) == IF step = "Mark" THEN "Clear" ELSE "Leaving"

-----------------------------------------------------------------------------
(* The tasks *)

SenderOnly == UNCHANGED <<calls, accepting_commands, receiver, closer>>

\* biased: the shutdown first, then the end of the connection, then the queue.
Forward ==
    /\ sender = "Run" /\ closer = "No" /\ ~ ended
    /\ commands # <<>> /\ commands' = Tail(commands)
    /\ \/ asked' = asked \cup {Head(commands)} /\ UNCHANGED sender
       \/ sender' = "Mark" /\ UNCHANGED asked            \* the send failed
    /\ SenderOnly /\ UNCHANGED <<entries, settled, ended>>

SenderEnds ==
    /\ sender = "Run" /\ (ended \/ closer # "No")
    /\ sender' = IF closer # "No" THEN "Closing" ELSE "Mark"
    /\ SenderOnly /\ UNCHANGED <<commands, entries, settled, ended, asked>>

CloseFrame ==
    /\ sender = "Closing" /\ sender' = "Mark"
    /\ SenderOnly /\ UNCHANGED <<commands, entries, settled, ended, asked>>

SenderMarks ==
    /\ sender \in {"Mark", "Clear"} /\ sender' = After(sender)
    /\ Marking(sender)
    /\ SenderOnly /\ UNCHANGED <<commands, asked>>

\* The end of the task closes the queue, with the commands in it.
SenderLeaves ==
    /\ sender = "Leaving" /\ sender' = "Gone" /\ commands' = <<>>
    /\ SenderOnly /\ UNCHANGED <<entries, settled, ended, asked>>

ReceiverOnly == UNCHANGED <<calls, commands, accepting_commands, sender, closer>>

Route(c) ==
    /\ receiver = "Run" /\ c \in asked
    /\ asked' = asked \ {c}
    /\ entries' = entries \ {c}
    /\ settled' = settled \cup ({c} \cap entries)
    /\ ReceiverOnly /\ UNCHANGED <<ended, receiver>>

\* The peer closes, the connection breaks, or the sender has ended it.
ReceiverEnds ==
    /\ receiver = "Run" /\ receiver' = "Mark"
    /\ ReceiverOnly /\ UNCHANGED <<entries, settled, ended, asked>>

ReceiverLeaves ==
    /\ receiver = "Leaving" /\ receiver' = "Gone"
    /\ ReceiverOnly /\ UNCHANGED <<entries, settled, ended, asked>>

ReceiverMarks ==
    /\ receiver \in {"Mark", "Clear"} /\ receiver' = After(receiver)
    /\ Marking(receiver)
    /\ ReceiverOnly /\ UNCHANGED asked

-----------------------------------------------------------------------------
(* close_transport *)

CloserOnly == UNCHANGED <<calls, asked>>

CloseTransport ==
    /\ closer = "No" /\ closer' = "Asked"
    /\ accepting_commands' = FALSE
    /\ CloserOnly /\ UNCHANGED <<commands, entries, settled, ended, sender, receiver>>

Joined ==
    /\ closer = "Asked" /\ sender = "Gone" /\ receiver = "Gone"
    /\ closer' = "Done"
    /\ CloserOnly /\ UNCHANGED <<commands, entries, settled, accepting_commands, ended, sender, receiver>>

\* The tasks do not stop in time: each is aborted where it awaits, never while it marks.
TimedOut ==
    /\ closer = "Asked" /\ {sender, receiver} # {"Gone"}
    /\ sender \in {"Run", "Closing", "Gone"} /\ receiver \in {"Run", "Gone"}
    /\ sender' = "Gone" /\ receiver' = "Gone" /\ closer' = "Mark"
    /\ commands' = <<>>
    /\ CloserOnly /\ UNCHANGED <<entries, settled, accepting_commands, ended>>

CloserMarks ==
    /\ closer \in {"Mark", "Clear"}
    /\ closer' = IF closer = "Mark" THEN "Clear" ELSE "Done"
    /\ Marking(closer)
    /\ CloserOnly /\ UNCHANGED <<commands, accepting_commands, sender, receiver>>

BidiNext ==
    \/ \E c \in BidiCalls :
          Admit(c) \/ Enter(c) \/ Recheck(c) \/ Send(c) \/ Answered(c) \/ GiveUp(c) \/ Route(c)
    \/ Forward \/ SenderEnds \/ CloseFrame \/ SenderMarks \/ SenderLeaves
    \/ ReceiverEnds \/ ReceiverMarks \/ ReceiverLeaves
    \/ CloseTransport \/ Joined \/ TimedOut \/ CloserMarks

BidiSpec == BidiInit /\ [][BidiNext]_bidiVars

-----------------------------------------------------------------------------
(* Properties *)

\* When the tasks are gone and whoever ended them is through, nobody waits for an answer
\* that cannot come any more: every waiting call was answered or lost its entry.
NoCallWaitsForNobody ==
    (sender = "Gone" /\ receiver = "Gone" /\ closer \in {"No", "Asked", "Done"}) =>
        \A c \in BidiCalls : calls[c] = "Waiting" => c \in settled
=============================================================================
