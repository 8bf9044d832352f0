--------------------------- MODULE BrowserStream ---------------------------
(***************************************************************************)
(* A node that streams its browser (src/browser_stream.rs): screenshots    *)
(* leave for C2, input comes back and is applied to the page.  run_node()  *)
(* ("First") applies the first input and proves what it did;               *)
(* run_login_node() ("Login") shows a login form and applies clicks until  *)
(* it has as many as expected; run_browse_node() ("Browse") applies all    *)
(* there is and logs it.  The node is one task; a writer and a reader task *)
(* own the two halves of its socket.  C2 and the peer behind it only       *)
(* forward, send and read.                                                 *)
(*                                                                         *)
(* A frame is the number of inputs the page had seen when it was taken.    *)
(***************************************************************************)
EXTENDS Integers, SequencesExt

CONSTANTS
    Scripts,         \* what a peer may send: sequences of InputEvents
    ExpectClicks,    \* LoginNodeOptions.expect_clicks
    SocketRoom,      \* messages the socket holds in either direction
    MaxFrames        \* bound: frames of the timer

VARIABLES
    mode, step,          \* which node, and where it is
    browser, form,       \* the browser, and which page it shows
    files,               \* what the node reads and writes: ready, targets, evidence
    link, inbox, outbox, \* the socket
    script, told,        \* what the peer sends, and how much of it it has
    seen,                \* the newest frame the peer has
    decoded, taken,      \* event_rx: every event decoded, how many were received from it
    reader, writing,     \* the reader and the writer task
    frames, sent,        \* frame_rx, frames_sent
    done, lines,         \* for each input the CDP lines the page saw, those the node recorded
    clicks, late, tail,  \* clicks_done, the deadline, tail_until
    pushes, proof,       \* frames to push after the first input, NodeProof
    result               \* what run_node() and run_login_node() return

streamed ==
    <<mode, step, browser, form, files, link, inbox, outbox, script, told, seen, decoded, taken,
      reader, writing, frames, sent, done, lines, clicks, late, tail, pushes, proof, result>>
socket == <<link, inbox, outbox, script, told, seen>>
tasks == <<decoded, reader, writing, sent>>
loop == <<taken, frames, done, lines, clicks, tail, pushes, proof>>

NoProof == [lines |-> <<>>, clicks |-> -1, frames |-> 0, kind |-> "None", fallback |-> FALSE]
Idle == [at |-> "Idle", frame |-> 0]
Stopped == [at |-> "Ended", frame |-> 0]
Login == mode = "Login"
First == mode = "First"
FrameRoom == IF First THEN 1 ELSE 2
LastPushes == 3
Failure == <<"Error">>

-----------------------------------------------------------------------------
(* Input *)

\* encode_input(): what a peer can put on the wire; a key, an address or a text has bytes, and
\* not too many.
Encodes(e) == e.kind \in {"Key", "Navigate", "Text"} => e.value \notin {"Empty", "TooLong"}

\* decode_input() of what encode_input() makes: the distances of a wheel are f32 on the wire.
Decoded(e) == IF e.kind = "Scroll" /\ e.value = "Fine" THEN [e EXCEPT !.value = "Rounded"] ELSE e

\* A message of the socket: an event, or what decode_input() refuses and the reader ignores,
\* which is what a peer sends for an event it cannot encode.
Says(e) == [sound |-> Encodes(e), event |-> e]

\* plan_cdp(): nothing for what has no mapping.
Plan(e) ==
    CASE e.kind = "Mouse" /\ e.action = "Move" -> <<"Moved">>
      [] e.kind = "Mouse" /\ e.action = "Down" /\ e.button = "Left" -> <<"LeftPressed">>
      [] e.kind = "Mouse" /\ e.action = "Up" /\ e.button = "Left" -> <<"LeftReleased">>
      [] e.kind = "Mouse" /\ e.action = "Click" /\ e.button = "Left" ->
             <<"LeftPressed", "LeftReleased">>
      [] e.kind = "Mouse" /\ e.action = "Click" /\ e.button = "Right" ->
             <<"RightPressed", "RightReleased">>
      [] e.kind = "Key" -> <<"KeyDown", "KeyUp">>
      [] e.kind = "Scroll" -> <<"Wheel">>
      [] e.kind = "Navigate" -> <<"Navigated">>
      [] e.kind = "Text" -> <<"Typed">>
      [] OTHER -> <<>>

IsClick(e) == e.kind = "Mouse" /\ e.action = "Click" /\ e.button = "Left"

-----------------------------------------------------------------------------
(* The node, up to its loop *)

\* `?`: the browser is dropped, the tasks are left to end by themselves.
Fails ==
    /\ step' = "Ended" /\ result' = "Error"
    /\ browser' = IF browser = "Running" THEN "Gone" ELSE browser

Open ==
    /\ step = "Opening"
    /\ \/ step' = "Launching" /\ UNCHANGED <<browser, result>>
       \/ Fails
    /\ UNCHANGED <<mode, form, files, socket, tasks, loop, late>>

Launch ==
    /\ step = "Launching"
    /\ \/ step' = "Painting" /\ browser' = "Running" /\ UNCHANGED result
       \/ Fails
    /\ UNCHANGED <<mode, form, files, socket, tasks, loop, late>>

\* goto_and_wait(), the attempt at try_url first if there is one; of a start_url it does not
\* matter whether it came.
Paint ==
    /\ step = "Painting"
    /\ \/ /\ step' = IF Login THEN "Probing" ELSE "Connecting"
          /\ form' \in {f \in {"Local", "Remote"} : Login \/ f = (IF First THEN "Local" ELSE "Remote")}
          /\ UNCHANGED <<browser, result>>
       \/ Fails /\ UNCHANGED form
    /\ UNCHANGED <<mode, files, socket, tasks, loop, late>>

\* probe_page(), login_usable(), write_targets(): a remote page is named after its address or
\* after what it calls itself, which may be anything.
Probe ==
    /\ step = "Probing"
    /\ \/ /\ step' = "Waiting"
          /\ \E kind \in IF form = "Local" THEN {"local-login-form"}
                         ELSE {"remote-login", "local-login-form"} :
                files' = [files EXCEPT !.targets = kind]
          /\ UNCHANGED <<browser, result>>
       \/ Fails /\ UNCHANGED files
    /\ UNCHANGED <<mode, form, socket, tasks, loop, late>>

\* wait_ready()
WaitReady ==
    /\ step = "Waiting"
    /\ \/ /\ files.ready # "None"
          /\ step' = "Connecting" /\ UNCHANGED <<browser, result>>
       \/ late /\ Fails
    /\ UNCHANGED <<mode, form, files, socket, tasks, loop, late>>

\* connect_ws(), 40 times; then the two tasks.
Connect ==
    /\ step = "Connecting"
    /\ \/ /\ step' = "Streaming" /\ link' = TRUE
          /\ reader' = "Running" /\ writing' = Idle
          /\ UNCHANGED <<browser, result>>
       \/ Fails /\ UNCHANGED <<link, reader, writing>>
    /\ UNCHANGED <<mode, form, files, inbox, outbox, script, told, seen, decoded, sent, loop,
                   late>>

-----------------------------------------------------------------------------
(* The node's loop *)

\* The head of the loop.
Continues(ends) == step' = IF late \/ ends THEN "Closing" ELSE "Streaming"
Busy == IF writing.at \in {"Header", "Png"} THEN 1 ELSE 0
HasRoom == Len(frames) < FrameRoom /\ writing.at # "Ended"

\* tick.tick(): a frame the writer has no room for is dropped; a screenshot may fail.  A node
\* that browses counts what it queues.
Tick ==
    /\ step = "Streaming"
    /\ \/ UNCHANGED <<frames, sent>>
       \/ /\ HasRoom /\ sent + (IF mode = "Browse" THEN 0 ELSE Len(frames) + Busy) < MaxFrames
          /\ frames' = Append(frames, Len(done))
          /\ sent' = IF mode = "Browse" THEN sent + 1 ELSE sent
    /\ Continues(tail = "Over")
    /\ UNCHANGED <<mode, browser, form, files, socket, decoded, reader, writing, taken, done, lines,
                   clicks, late, tail, pushes, proof, result>>

\* event_rx.recv(): not any more once the last click was applied.
Listens == Login => tail = "None" \/ clicks < ExpectClicks
Take ==
    /\ step = "Streaming" /\ Listens
    /\ taken < Len(decoded)
    /\ taken' = taken + 1 /\ step' = "Applying"
    /\ UNCHANGED <<mode, browser, form, files, socket, tasks, frames, done, lines, clicks, late,
                   tail, pushes, proof, result>>
EventsEnd ==
    /\ step = "Streaming" /\ Listens
    /\ taken = Len(decoded) /\ reader = "Ended"
    /\ step' = "Closing"
    /\ UNCHANGED <<mode, browser, form, files, socket, tasks, loop, late, result>>

\* apply_input(), or mouse_down() and mouse_up() of a click that counts.  The page may fail at
\* any of its lines, which ends the node unless it only browses.
Apply ==
    /\ step = "Applying"
    /\ LET e == decoded[taken]
           plan == Plan(e)
           counts == Login /\ IsClick(e)
       IN /\ clicks' = IF counts THEN clicks + 1 ELSE clicks
          /\ \/ /\ plan # <<>>
                /\ done' = Append(done, plan) /\ lines' = Append(lines, plan)
                /\ tail' = IF counts /\ clicks' >= ExpectClicks /\ tail = "None" THEN "Running"
                           ELSE tail
                /\ IF First THEN step' = "Reading" ELSE Continues(tail' = "Over")
                /\ UNCHANGED <<browser, result>>
             \/ /\ \E n \in 0..Len(plan) : done' = Append(done, SubSeq(plan, 1, n))
                /\ IF mode = "Browse"
                   THEN /\ lines' = Append(lines, Failure)
                        /\ Continues(FALSE) /\ UNCHANGED <<browser, result>>
                   ELSE Fails /\ UNCHANGED lines
                /\ UNCHANGED tail
    /\ UNCHANGED <<mode, form, files, socket, tasks, taken, frames, late, pushes, proof>>

\* eval_string() of what the page says now; then the proof.
Read ==
    /\ step = "Reading"
    /\ \/ /\ proof' = [NoProof EXCEPT !.lines = lines, !.frames = sent]
          /\ pushes' = LastPushes /\ step' = "Pushing"
          /\ UNCHANGED <<browser, result>>
       \/ Fails /\ UNCHANGED <<proof, pushes>>
    /\ UNCHANGED <<mode, form, files, socket, tasks, taken, frames, done, lines, clicks, late, tail>>

\* The page after the input, three times: frame_tx.send() waits for room, not for the deadline.
Shoot ==
    /\ step = "Pushing"
    /\ \/ step' = "Sending" /\ UNCHANGED pushes
       \/ /\ pushes' = pushes - 1
          /\ step' = IF pushes = 1 THEN "Closing" ELSE step
    /\ UNCHANGED <<mode, browser, form, files, socket, tasks, taken, frames, done, lines, clicks,
                   late, tail, proof, result>>
Push ==
    /\ step = "Sending"
    /\ \/ HasRoom /\ frames' = Append(frames, Len(done))
       \/ writing.at = "Ended" /\ UNCHANGED frames
    /\ pushes' = pushes - 1
    /\ step' = IF pushes = 1 THEN "Closing" ELSE "Pushing"
    /\ UNCHANGED <<mode, browser, form, files, socket, tasks, taken, done, lines, clicks, late,
                   tail, proof, result>>

\* After the loop: the tasks are aborted, the browser is closed, the evidence is written if
\* there is any.
Close ==
    /\ step = "Closing"
    /\ step' = "Ended" /\ browser' = "Gone"
    /\ reader' = "Ended" /\ writing' = Stopped /\ frames' = <<>>
    /\ proof' = IF mode = "Browse" \/ clicks > 0
                THEN [lines |-> lines, clicks |-> clicks, frames |-> sent,
                      kind |-> files.targets, fallback |-> Login /\ form = "Local"]
                ELSE proof
    /\ \/ /\ proof' # NoProof
          /\ files' = [files EXCEPT !.evidence = proof'] /\ result' = "Proof"
       \/ result' = "Error" /\ UNCHANGED files
    /\ UNCHANGED <<mode, form, socket, decoded, sent, taken, done, lines, clicks, late, tail, pushes>>

\* The deadline: of the click from the start of the loop, of a login from the wait before it.
Started == step \notin {"Opening", "Launching", "Painting", "Probing", "Ended"}
Expires ==
    /\ Started /\ (Login \/ step # "Connecting") /\ ~ late
    /\ late' = TRUE
    /\ UNCHANGED <<mode, step, browser, form, files, socket, tasks, loop, result>>
TailEnds ==
    /\ tail = "Running" /\ step # "Ended"
    /\ tail' = "Over"
    /\ UNCHANGED <<mode, step, browser, form, files, socket, tasks, taken, frames, done, lines,
                   clicks, late, pushes, proof, result>>

NodeStep ==
    \/ Open \/ Launch \/ Paint \/ Probe \/ WaitReady \/ Connect
    \/ Tick \/ Take \/ EventsEnd \/ Apply \/ Read \/ Shoot \/ Push \/ Close
    \/ Expires \/ TailEnds

-----------------------------------------------------------------------------
(* The writer and the reader *)

\* One message into the socket: a frame of a login has a header before it.
Header(frame) == [as |-> "Header", of |-> frame]
Png(frame) == [as |-> "Png", of |-> frame]
WriterTakes ==
    /\ writing.at = "Idle" /\ frames # <<>>
    /\ writing' = [at |-> IF Login THEN "Header" ELSE "Png", frame |-> Head(frames)]
    /\ frames' = Tail(frames)
    /\ UNCHANGED <<mode, step, browser, form, files, socket, decoded, reader, sent, taken, done,
                   lines, clicks, late, tail, pushes, proof, result>>
WriterSends ==
    /\ writing.at \in {"Header", "Png"}
    /\ \/ /\ link /\ Len(outbox) < SocketRoom
          /\ outbox' = Append(outbox, [as |-> writing.at, of |-> writing.frame])
          /\ IF writing.at = "Header" THEN writing' = [writing EXCEPT !.at = "Png"] /\ UNCHANGED sent
             ELSE writing' = Idle /\ sent' = IF mode = "Browse" THEN sent ELSE sent + 1
       \/ ~ link /\ writing' = Stopped /\ UNCHANGED <<outbox, sent>>
    /\ UNCHANGED <<mode, step, browser, form, files, link, inbox, script, told, seen, decoded, reader,
                   loop, late, result>>
\* frame_tx dropped by a node that failed
WriterEnds ==
    /\ writing.at = "Idle" /\ frames = <<>> /\ step = "Ended"
    /\ writing' = Stopped
    /\ UNCHANGED <<mode, step, browser, form, files, socket, decoded, reader, sent, loop, late, result>>

ReaderReads ==
    /\ reader = "Running"
    /\ \/ /\ inbox # <<>> /\ inbox' = Tail(inbox)
          /\ IF ~ Head(inbox).sound THEN UNCHANGED <<decoded, reader>>
             ELSE IF step = "Ended"
             THEN reader' = (IF mode = "Browse" THEN reader ELSE "Ended") /\ UNCHANGED decoded
             ELSE decoded' = Append(decoded, Decoded(Head(inbox).event)) /\ UNCHANGED reader
       \/ /\ inbox = <<>> /\ ~ link
          /\ reader' = "Ended" /\ UNCHANGED <<inbox, decoded>>
    /\ UNCHANGED <<mode, step, browser, form, files, link, outbox, script, told, seen, writing, sent,
                   loop, late, result>>

-----------------------------------------------------------------------------
(* The peer *)

PeerReady ==
    /\ files.ready = "None" /\ Login /\ step # "Ended"
    /\ files' = [files EXCEPT !.ready = "Fresh"]
    /\ UNCHANGED <<mode, step, browser, form, socket, tasks, loop, late, result>>
PeerTells ==
    /\ link /\ told < Len(script) /\ Len(inbox) < SocketRoom
    /\ told' = told + 1
    /\ inbox' = Append(inbox, Says(script[told']))
    /\ UNCHANGED <<mode, step, browser, form, files, link, outbox, script, seen, tasks, loop, late,
                   result>>
PeerReads ==
    /\ link /\ outbox # <<>>
    /\ outbox' = Tail(outbox)
    /\ seen' = Head(outbox)
    /\ UNCHANGED <<mode, step, browser, form, files, link, inbox, script, told, tasks, loop, late,
                   result>>
PeerLeaves ==
    /\ link /\ link' = FALSE
    /\ UNCHANGED <<mode, step, browser, form, files, inbox, outbox, script, told, seen, tasks, loop,
                   late, result>>

Begin(node, inputs, ready) ==
    /\ mode = node /\ script = inputs
    /\ files = [ready |-> ready, targets |-> "None", evidence |-> NoProof]
    /\ step = "Opening" /\ browser = "None" /\ form = "None"
    /\ link = FALSE /\ inbox = <<>> /\ outbox = <<>> /\ told = 0 /\ seen = Png(0)
    /\ decoded = <<>> /\ taken = 0 /\ reader = "None" /\ writing = [Idle EXCEPT !.at = "None"]
    /\ frames = <<>> /\ sent = 0 /\ done = <<>> /\ lines = <<>> /\ clicks = 0
    /\ late = FALSE /\ tail = "None" /\ pushes = 0 /\ proof = NoProof /\ result = "None"

\* What an earlier run left: only the clock file is removed at the start.
StreamInit ==
    \E inputs \in Scripts :
        \/ \E node \in {"First", "Browse"} : Begin(node, inputs, "None")
        \/ \E ready \in {"None", "Stale"} : Begin("Login", inputs, ready)

StreamNext ==
    \/ NodeStep
    \/ WriterTakes \/ WriterSends \/ WriterEnds \/ ReaderReads
    \/ PeerReady \/ PeerTells \/ PeerReads \/ PeerLeaves

StreamSpec == StreamInit /\ [][StreamNext]_streamed

-----------------------------------------------------------------------------
(* Properties *)

\* The variables keep their types.
StreamTypeOK ==
    /\ mode \in {"First", "Login", "Browse"}
    /\ step \in {"Opening", "Launching", "Painting", "Probing", "Waiting", "Connecting", "Streaming",
                 "Applying", "Reading", "Pushing", "Sending", "Closing", "Ended"}
    /\ browser \in {"None", "Running", "Gone"} /\ form \in {"None", "Local", "Remote"}
    /\ files.ready \in {"None", "Stale", "Fresh"}
    /\ Len(inbox) <= SocketRoom /\ Len(outbox) <= SocketRoom /\ told \in 0..Len(script)
    /\ taken \in 0..Len(decoded) /\ Len(frames) <= FrameRoom
    /\ reader \in {"None", "Running", "Ended"}
    /\ writing.at \in {"None", "Idle", "Header", "Png", "Ended"}
    /\ sent \in 0..(MaxFrames + LastPushes) /\ clicks \in 0..told
    /\ late \in BOOLEAN /\ tail \in {"None", "Running", "Over"} /\ pushes \in 0..LastPushes
    /\ result \in {"None", "Proof", "Error"}

\* Every input that was decoded is applied once, whole and in its order, and nothing else is:
\* for each input taken the page saw its plan, or a part of it where the page failed, which
\* ends every node but one that browses (apply_input(), "applies the first input event").
PageIsAsTold ==
    /\ Len(done) = IF step = "Applying" THEN taken - 1 ELSE taken
    /\ \A i \in 1..Len(done) :
          \/ done[i] = Plan(decoded[i])
          \/ /\ IsPrefix(done[i], Plan(decoded[i]))
             /\ mode = "Browse" \/ (i = taken /\ result = "Error")

\* What the evidence says happened is what the page saw, the clicks it counts are those that
\* were applied, and it names the page that was shown (NodeProof, write_evidence()).
EvidenceIsTrue ==
    result = "Proof" =>
        LET evidence == files.evidence
        IN /\ Len(evidence.lines) = taken
           /\ \A i \in 1..taken :
                 evidence.lines[i] = done[i] \/ (mode = "Browse" /\ evidence.lines[i] = Failure)
           /\ First => taken = 1 /\ evidence.frames <= sent
           /\ Login =>
                 /\ evidence.clicks = Len(SelectSeq(SubSeq(decoded, 1, taken), IsClick))
                 /\ evidence.clicks \in 1..ExpectClicks
                 /\ evidence.fallback = (form = "Local")
                 /\ evidence.frames = sent

\* A frame of a login has its header right before it, and no frame is older than one before it
\* (frame_timing_header(), the writer task).
OnTheWay ==
    <<seen>> \o outbox
        \o (IF writing.at \in {"Header", "Png"} THEN <<[as |-> writing.at, of |-> writing.frame]>>
            ELSE <<>>)
FramesArePaired ==
    \A i \in 2..Len(OnTheWay) :
        LET before == OnTheWay[i - 1]
            this == OnTheWay[i]
        IN /\ before.of <= this.of
           /\ Login /\ this.as = "Png" => before = Header(this.of)
           /\ before.as = "Header" => this = Png(before.of)

\* A node that returns a proof has no browser and no task left, and none is started before
\* there is a page to show (`writer.abort()`, `browser.close()`).
NothingIsLeftRunning ==
    /\ result = "Proof" => browser = "Gone" /\ reader = "Ended" /\ writing.at = "Ended"
    /\ reader = "Running" /\ step # "Ended" => browser = "Running" /\ form # "None"
    /\ step = "Ended" => browser # "Running"

\* By hand: a node starts to stream when its peer is ready, not because a peer of an earlier run
\* was (wait_ready()).
ReadyIsFresh == Login /\ step = "Streaming" => files.ready = "Fresh"

\* By hand: "Push the page as it looks after the input so the peer can see the effect".
EffectIsShown == result = "Proof" /\ First => \E m \in Range(OnTheWay) : m.of = Len(done)

\* By hand: a node whose time is over does not wait for its peer to read.
DeadlineHolds ==
    ~ (late /\ step = "Sending" /\ ~ HasRoom /\ writing.at = "Png" /\ Len(outbox) = SocketRoom)

\* By hand: a node that fails leaves no task behind either.
TasksEndWithNode == step = "Ended" => reader # "Running" /\ writing.at \in {"None", "Ended"}
=============================================================================
