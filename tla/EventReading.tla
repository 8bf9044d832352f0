---------------------------- MODULE EventReading ----------------------------
(***************************************************************************)
(* What becomes of a DevTools event between the page and those who read    *)
(* it: in a live session (crates/dig2browser-station/src/live.rs), in      *)
(* durable monitors (monitor.rs, over sink.rs, journal.rs and the orphan   *)
(* artifacts of crates/dig2browser-trace/src) and on the wire              *)
(* (crates/dig2browser-protocol/src/live.rs and monitor.rs).  Readers of   *)
(* one page take its events from a broadcast channel at their own pace; a  *)
(* session and a monitor each translate an event on their own, bound it,   *)
(* and answer their client page by page.                                   *)
(*                                                                         *)
(* A string is the class that its bounds and checks tell apart, an address *)
(* a name and such a class, a payload likewise.  Sessions and journals as  *)
(* such are in LiveSessions and Monitor.                                   *)
(***************************************************************************)
EXTENDS Integers, SequencesExt

CONSTANTS
    Scripts,         \* what a page may send: sequences of events
    Filters,         \* LiveFilters a client may ask for
    Watchers,        \* monitors of the page
    Audiences,       \* the readers that may have subscribed before the page sends anything
    Replaces,        \* whether a rename replaces what is there: not on Windows
    ChannelRoom,     \* capacity of the page's broadcast channel
    CacheRoom,       \* MAX_LIVE_REQUEST_URL_ENTRIES
    RingRoom,        \* MAX_LIVE_RING_CAPACITY
    MostEvents       \* MAX_LIVE_EVENTS, MAX_MONITOR_PAGE_EVENTS

VARIABLES
    script, emitted,   \* the page: what it sends, and how much of that it has
    wanted,            \* the filter the client asked for
    place,             \* the next event of each reader
    urls,              \* RequestUrlCache
    ring, made, lost,  \* the session: its ring, every event it gave a cursor, its drops
    recorder,          \* the reader of each monitor, with the frame it is at
    records, blobs,    \* the monitors' journals and their store
    heard,             \* the events the session's client read, and what it knows of drops
    copied             \* the records each monitor's client read, what it was told

session == <<urls, ring, made, lost>>
monitors == <<recorder, records, blobs>>
readingVars == <<script, emitted, wanted, place, session, monitors, heard, copied>>

Live == "Live"
Readers == {Live} \cup Watchers

\* requestId
NoRequest == "None"
NoUrl == [page |-> "None", form |-> "None"]
NoStatus == -1
NoOpcode == "None"
NoArtifact == [as |-> "None", of |-> "None"]

-----------------------------------------------------------------------------
(* Bounds *)

\* bounded_string(): cut at its bound, NULs taken out.
Bounded(form) ==
    CASE form = "Long" -> "Cut"
      [] form = "Nul" -> "Stripped"
      [] form = "OnlyNul" -> "Empty"
      [] OTHER -> form
BoundedUrl(url) == [url EXCEPT !.form = Bounded(@)]

\* What the wire's strings may be.
Fits(form) == form \notin {"Long", "Nul", "OnlyNul"}

\* bound_params(), of the whole event as JSON: a payload that just fits does not with the rest.
Params(e) == [of |-> e.payload, cut |-> e.payload \in {"Full", "Large", "Huge"}]

\* truncate_text_payload()
Text(payload) == [bytes |-> [as |-> "Text", of |-> payload], cut |-> payload \in {"Large", "Huge"}]

\* decode_websocket_payload(): base64 unless the opcode is text, or unless
\* it is none; a text over the bound may be within it when decoded.
Payload(opcode, payload) ==
    IF opcode = "Text" \/ payload \in {"Empty", "Plain"} THEN Text(payload)
    ELSE [bytes |-> [as |-> "Decoded", of |-> payload], cut |-> payload = "Huge"]
EmptyBytes == Text("Empty").bytes

-----------------------------------------------------------------------------
(* A live session *)

\* LiveFilter::to_wire, from_wire
Bit(b) == IF b THEN 1 ELSE 0
FilterBits(f) == Bit(f.network) + 2 * Bit(f.websocket_only) + 4 * Bit(f.console)
FilterOf(bits) ==
    [network |-> bits % 2 = 1, websocket_only |-> (bits \div 2) % 2 = 1, console |-> bits \div 4 = 1]

\* The filter of the session: LiveRequest::Begin, encoded and decoded.
Filter == FilterOf(FilterBits(wanted))

Opcodes == {"Continuation", "Text", "Binary", "Close", "Ping", "Pong"}
FrameMethods == {"webSocketFrameSent", "webSocketFrameReceived"}
IsSocketOrSse(method) == method \in FrameMethods \cup {"webSocketCreated", "eventSourceMessageReceived"}

\* RequestUrlCache::remember: the first address of a request is kept.
Known(cache, request) == \E n \in 1..Len(cache) : cache[n].request = request
Remember(cache, request, url) ==
    IF Known(cache, request) THEN cache
    ELSE Append(IF Len(cache) >= CacheRoom THEN Tail(cache) ELSE cache,
                [request |-> request, url |-> url])
Learned(cache, e) ==
    IF e.url = NoUrl \/ e.request = NoRequest THEN cache ELSE Remember(cache, e.request, e.url)

\* resolve_request_url()
UrlOf(cache, e) ==
    IF e.url # NoUrl THEN BoundedUrl(e.url)
    ELSE IF Known(cache, e.request)
         THEN BoundedUrl(SelectSeq(cache, LAMBDA u : u.request = e.request)[1].url)
         ELSE NoUrl

Direction(method) == IF method = "webSocketFrameSent" THEN "Sent" ELSE "Received"

\* network_event_kind(), console_event_kind()
Generic(e) ==
    [is |-> "Network", method |-> e.method, url |-> BoundedUrl(e.url), status |-> e.status,
     params |-> Params(e)]
Console(e) == [is |-> "Console", level |-> Bounded(e.name), text |-> Bounded(e.payload)]

\* parse_websocket_frame(), parse_sse_event(): a frame, or an event that is not understood.
Frame(e, url) ==
    LET payload == Payload(e.opcode, e.payload) IN
    [is |-> "Frame", direction |-> Direction(e.method), opcode |-> e.opcode,
     payload |-> payload.bytes, cut |-> payload.cut, url |-> url]
IsFrame(e) == e.opcode \in Opcodes /\ e.payload # "Missing"

\* An empty name is none.  One that is empty without its NULs is refused: SseEvent::new.
Sse(e, url) ==
    [is |-> "Sse", name |-> IF e.name = "Empty" THEN "None" ELSE Bounded(e.name),
     data |-> Text(e.payload).bytes, cut |-> Text(e.payload).cut, url |-> url]
IsSse(e) == e.payload # "Missing" /\ e.name # "OnlyNul"

\* resolve_network_kind()
Kind(cache, e) ==
    CASE e.method = "Console" -> Console(e)
      [] e.method \in FrameMethods /\ IsFrame(e) -> Frame(e, UrlOf(cache, e))
      [] e.method = "eventSourceMessageReceived" /\ IsSse(e) -> Sse(e, UrlOf(cache, e))
      [] OTHER -> Generic(e)

\* translate_event(): what the filter lets pass.
Passes(filter, e) ==
    IF e.method = "Console" THEN filter.console
    ELSE filter.network /\ (filter.websocket_only => IsSocketOrSse(e.method))

\* WebSocketFrame and SseEvent::validate
SoundFrame(kind) == kind.url = NoUrl \/ Fits(kind.url.form)
SoundSse(kind) == SoundFrame(kind) /\ kind.name # "Empty" /\ Fits(kind.name)

\* LiveEvent::validate
Sound(kind) ==
    CASE kind.is = "Network" ->
            /\ kind.url = NoUrl \/ Fits(kind.url.form)
            /\ kind.status \in {NoStatus} \cup 100..599
      [] kind.is = "Console" -> kind.level # "Empty" /\ Fits(kind.level) /\ Fits(kind.text)
      [] kind.is = "Frame" -> SoundFrame(kind)
      [] kind.is = "Sse" -> SoundSse(kind)

\* push_event(): the oldest makes room.
Pushed(event) ==
    IF Len(ring) >= RingRoom
    THEN ring' = Append(Tail(ring), event) /\ lost' = lost + 1
    ELSE ring' = Append(ring, event) /\ UNCHANGED lost

-----------------------------------------------------------------------------
(* The wire *)

Given(x, none) == IF x = none THEN <<0>> ELSE <<1, x>>
Taken(w, none) == IF w[1] = 0 THEN none ELSE w[2]

OpcodeToWire(o) ==
    CASE o = "Continuation" -> 0 [] o = "Text" -> 1 [] o = "Binary" -> 2
      [] o = "Close" -> 8 [] o = "Ping" -> 9 [] o = "Pong" -> 10
OpcodeFromWire(n) == CHOOSE o \in Opcodes : OpcodeToWire(o) = n
DirectionToWire(d) == IF d = "Sent" THEN 0 ELSE 1
DirectionFromWire(n) == IF n = 0 THEN "Sent" ELSE "Received"

\* LiveEvent::encode
Encoded(event) ==
    LET kind == event.kind
        body ==
            CASE kind.is = "Network" ->
                    [tag |-> 1, method |-> kind.method, url |-> Given(kind.url, NoUrl),
                     status |-> IF kind.status = NoStatus THEN 0 ELSE kind.status,
                     cut |-> Bit(kind.params.cut), params |-> kind.params.of]
              [] kind.is = "Console" -> [tag |-> 2, level |-> kind.level, text |-> kind.text]
              [] kind.is = "Frame" ->
                    [tag |-> 3, direction |-> DirectionToWire(kind.direction),
                     opcode |-> OpcodeToWire(kind.opcode), cut |-> Bit(kind.cut),
                     url |-> Given(kind.url, NoUrl), payload |-> kind.payload]
              [] kind.is = "Sse" ->
                    [tag |-> 4, cut |-> Bit(kind.cut), url |-> Given(kind.url, NoUrl),
                     name |-> Given(kind.name, "None"), data |-> kind.data]
    IN  [cursor |-> event.cursor, body |-> body]

\* LiveEvent::decode
Decoded(w) ==
    LET body == w.body
        kind ==
            CASE body.tag = 1 ->
                    [is |-> "Network", method |-> body.method, url |-> Taken(body.url, NoUrl),
                     status |-> IF body.status = 0 THEN NoStatus ELSE body.status,
                     params |-> [of |-> body.params, cut |-> body.cut = 1]]
              [] body.tag = 2 -> [is |-> "Console", level |-> body.level, text |-> body.text]
              [] body.tag = 3 ->
                    [is |-> "Frame", direction |-> DirectionFromWire(body.direction),
                     opcode |-> OpcodeFromWire(body.opcode), payload |-> body.payload,
                     cut |-> body.cut = 1, url |-> Taken(body.url, NoUrl)]
              [] body.tag = 4 ->
                    [is |-> "Sse", name |-> Taken(body.name, "None"), data |-> body.data,
                     cut |-> body.cut = 1, url |-> Taken(body.url, NoUrl)]
    IN  [cursor |-> w.cursor, kind |-> kind]

\* LiveEventPage and MonitorEventPage::validate
ValidPage(page) ==
    /\ Len(page.events) <= MostEvents
    /\ \A n \in 1..Len(page.events) - 1 : page.events[n + 1].cursor = page.events[n].cursor + 1
    /\ page.events # <<>> => page.next = Last(page.events).cursor

\* LiveEventPage::validate_after: what the client demands.
ValidAfter(page, cursor) ==
    IF page.events = <<>> THEN page.next = cursor ELSE Head(page.events).cursor > cursor

\* LiveResponse: built, encoded, decoded and built again.
Delivered(page) == [page EXCEPT !.events = [n \in DOMAIN @ |-> Decoded(Encoded(@[n]))]]

\* LiveRequest::Read and MonitorRequest::Read
Limits == 1..MostEvents

-----------------------------------------------------------------------------
(* A monitor *)

\* MonitorFrame::new: what was cut has its bytes in the store.
Recorded(direction, opcode, cut, artifact) ==
    [is |-> "Frame", direction |-> direction, opcode |-> opcode, cut |-> cut,
     artifact |-> artifact]
SoundRecord(frame) == frame.cut => frame.artifact # NoArtifact
Started == [is |-> "Started", filter |-> FilterBits(wanted)]
Stopped == [is |-> "Stopped", reason |-> 1]
Record(i, of, kind) == [cursor |-> Len(records[i]) + 1, of |-> of, kind |-> kind]
IsTerminal(list) == list # <<>> /\ Last(list).kind.is = "Stopped"

\* MonitorEvent::encode, decode: the bytes are elsewhere.
RecordToWire(r) ==
    LET kind == r.kind
        body ==
            CASE kind.is = "Started" -> [tag |-> 1, filter |-> kind.filter]
              [] kind.is = "Frame" ->
                    [tag |-> 2, direction |-> DirectionToWire(kind.direction),
                     opcode |-> OpcodeToWire(kind.opcode), cut |-> Bit(kind.cut),
                     artifact |-> Given(kind.artifact, NoArtifact)]
              [] kind.is = "Stopped" -> [tag |-> 3, reason |-> kind.reason]
    IN  [cursor |-> r.cursor, of |-> r.of, body |-> body]
RecordFromWire(w) ==
    LET body == w.body
        kind ==
            CASE body.tag = 1 -> [is |-> "Started", filter |-> body.filter]
              [] body.tag = 2 ->
                    Recorded(DirectionFromWire(body.direction), OpcodeFromWire(body.opcode),
                             body.cut = 1, Taken(body.artifact, NoArtifact))
              [] body.tag = 3 -> [is |-> "Stopped", reason |-> body.reason]
    IN  [cursor |-> w.cursor, of |-> w.of, kind |-> kind]

\* MonitorResponse::Events
DeliveredRecords(page) ==
    [page EXCEPT !.events = [n \in DOMAIN @ |-> RecordFromWire(RecordToWire(@[n]))]]

\* decode_ws_payload(), of its own
KeptPayload(opcode, payload) ==
    LET decodes == opcode # "Text" /\ payload \notin {"Empty", "Plain"} IN
    [bytes |-> [as |-> IF decodes THEN "Decoded" ELSE "Text", of |-> payload],
     cut |-> payload = "Huge" \/ (payload = "Large" /\ ~ decodes)]

\* parse_ws_frame()
Idle == [at |-> "Idle"]
Caught(n) ==
    LET e == script[n] IN
    IF e.method \in FrameMethods /\ IsFrame(e)
    THEN [at |-> "Store", of |-> n, direction |-> Direction(e.method), opcode |-> e.opcode,
          payload |-> KeptPayload(e.opcode, e.payload)]
    ELSE Idle

-----------------------------------------------------------------------------
(* The page and its readers *)

Emit ==
    /\ emitted < Len(script)
    /\ emitted' = emitted + 1
    /\ UNCHANGED <<script, wanted, place, session, monitors, heard, copied>>

\* next_event(): a receiver that fell behind goes on with the oldest event that is left.
Oldest == IF emitted > ChannelRoom THEN emitted - ChannelRoom + 1 ELSE 1
NextOf(r) == IF place[r] < Oldest THEN Oldest ELSE place[r]

LiveTakes ==
    LET n == NextOf(Live)
        e == script[n]
        cache == Learned(urls, e)
        event == [cursor |-> Len(made) + 1, kind |-> Kind(cache, e)]
    IN  /\ place[Live] <= emitted
        /\ place' = [place EXCEPT ![Live] = n + 1]
        /\ urls' = IF e.method = "Console" THEN urls ELSE cache
        /\ IF Passes(Filter, e)
           THEN /\ made' = Append(made, [of |-> n, kind |-> event.kind])
                /\ IF Sound(event.kind) THEN Pushed(event) ELSE UNCHANGED <<ring, lost>>
           ELSE UNCHANGED <<made, ring, lost>>
        /\ UNCHANGED <<script, emitted, wanted, monitors, heard, copied>>

\* read_events()
LivePage(limit) ==
    LET newer == SelectSeq(ring, LAMBDA event : event.cursor > heard.cursor)
        events == SubSeq(newer, 1, IF limit < Len(newer) THEN limit ELSE Len(newer))
    IN  [events |-> events, dropped |-> lost,
         next |-> IF events = <<>> THEN heard.cursor ELSE Last(events).cursor]

LiveReads(limit) ==
    LET page == Delivered(LivePage(limit)) IN
    /\ ValidPage(LivePage(limit)) /\ ValidPage(page) /\ ValidAfter(page, heard.cursor)
    /\ page.events # <<>>
    /\ heard' = [cursor |-> page.next, dropped |-> page.dropped, events |-> heard.events \o page.events]
    /\ UNCHANGED <<script, emitted, wanted, place, session, monitors, copied>>

\* run_reader() of a monitor, which has the sink's mutex from the first look at the store on.
WatcherTakes(i) ==
    LET n == NextOf(i) IN
    /\ recorder[i] = Idle /\ place[i] <= emitted /\ ~ IsTerminal(records[i])
    /\ place' = [place EXCEPT ![i] = n + 1]
    /\ recorder' = [recorder EXCEPT ![i] = Caught(n)]
    /\ UNCHANGED <<script, emitted, wanted, session, records, blobs, heard, copied>>

Goes(i, at) == recorder' = [recorder EXCEPT ![i].at = at]
Bytes(i) == recorder[i].payload.bytes

\* commit_orphan_artifact(): an empty payload is not stored, nor one that is there; what was
\* written under another name is looked for once more, and renamed.
StoreLooks(i) ==
    /\ recorder[i].at = "Store"
    /\ Goes(i, IF Bytes(i) = EmptyBytes \/ Bytes(i) \in blobs THEN "Record" ELSE "Written")
    /\ UNCHANGED <<script, emitted, wanted, place, session, records, blobs, heard, copied>>
StoreLooksAgain(i) ==
    /\ recorder[i].at = "Written"
    /\ Goes(i, IF Bytes(i) \in blobs THEN "Record" ELSE "Rename")
    /\ UNCHANGED <<script, emitted, wanted, place, session, records, blobs, heard, copied>>
StoreRenames(i) ==
    /\ recorder[i].at = "Rename"
    /\ IF Bytes(i) \in blobs /\ ~ Replaces
       THEN recorder' = [recorder EXCEPT ![i] = Idle] /\ UNCHANGED blobs
       ELSE Goes(i, "Record") /\ blobs' = blobs \cup {Bytes(i)}
    /\ UNCHANGED <<script, emitted, wanted, place, session, records, heard, copied>>

\* commit_frame()
WatcherRecords(i) ==
    /\ recorder[i].at = "Record"
    /\ LET r == recorder[i]
           artifact == IF Bytes(i) = EmptyBytes THEN NoArtifact ELSE Bytes(i)
           frame == Recorded(r.direction, r.opcode, r.payload.cut, artifact)
       IN  records' = IF SoundRecord(frame) /\ ~ IsTerminal(records[i])
                      THEN [records EXCEPT ![i] = Append(@, Record(i, r.of, frame))]
                      ELSE records
    /\ recorder' = [recorder EXCEPT ![i] = Idle]
    /\ UNCHANGED <<script, emitted, wanted, place, session, blobs, heard, copied>>

\* stop() has the mutex first, if the reader is still waiting for it.
WatcherStops(i) ==
    /\ recorder[i].at \in {"Idle", "Store"}
    /\ records[i] # <<>> /\ ~ IsTerminal(records[i])
    /\ records' = [records EXCEPT ![i] = Append(@, Record(i, 0, Stopped))]
    /\ UNCHANGED <<script, emitted, wanted, place, session, recorder, blobs, heard, copied>>

\* read_page(): the page is terminal if its last record is.
RecordPage(i, limit) ==
    LET newer == SelectSeq(records[i], LAMBDA r : r.cursor > Len(copied[i].records))
        events == SubSeq(newer, 1, IF limit < Len(newer) THEN limit ELSE Len(newer))
    IN  [events |-> events, terminal |-> IsTerminal(events),
         next |-> IF events = <<>> THEN Len(copied[i].records) ELSE Last(events).cursor]

WatcherReads(i, limit) ==
    LET page == DeliveredRecords(RecordPage(i, limit)) IN
    /\ recorder[i].at \in {"Idle", "Store"}
    /\ ValidPage(RecordPage(i, limit)) /\ ValidPage(page)
    /\ copied' = [copied EXCEPT ![i].records = @ \o page.events, ![i].terminal = page.terminal]
    /\ UNCHANGED <<script, emitted, wanted, place, session, monitors, heard>>

\* frame_payload(), read_frame_by_ref(): out of the store all monitors share.
Fetched(kind) ==
    CASE kind.artifact = NoArtifact -> EmptyBytes
      [] kind.artifact \in blobs -> kind.artifact
      [] OTHER -> [as |-> "NotFound", of |-> "None"]

\* Who has subscribed, before the page sends anything.
Begin(audience) ==
    /\ place = [r \in Readers |-> IF r \in audience THEN 1 ELSE Len(script) + 1]
    /\ records = [i \in Watchers |->
                     IF i \in audience THEN <<[cursor |-> 1, of |-> 0, kind |-> Started]>> ELSE <<>>]
    /\ emitted = 0
    /\ urls = <<>> /\ ring = <<>> /\ made = <<>> /\ lost = 0
    /\ recorder = [i \in Watchers |-> Idle] /\ blobs = {}
    /\ heard = [cursor |-> 0, dropped |-> 0, events |-> <<>>]
    /\ copied = [i \in Watchers |-> [records |-> <<>>, terminal |-> FALSE]]

ReadingInit ==
    /\ script \in Scripts /\ wanted \in Filters
    /\ \E audience \in Audiences : Begin(audience)

ReadingNext ==
    \/ Emit \/ LiveTakes
    \/ \E limit \in Limits : LiveReads(limit)
    \/ \E i \in Watchers :
          \/ WatcherTakes(i) \/ StoreLooks(i) \/ StoreLooksAgain(i) \/ StoreRenames(i)
          \/ WatcherRecords(i) \/ WatcherStops(i)
          \/ \E limit \in Limits : WatcherReads(i, limit)

ReadingSpec == ReadingInit /\ [][ReadingNext]_readingVars

-----------------------------------------------------------------------------
(* Properties *)

Kinds == {"Network", "Console", "Frame", "Sse"}
ReadingTypeOK ==
    /\ emitted \in 0..Len(script) /\ wanted \in Filters
    /\ place \in [Readers -> 1..Len(script) + 1]
    /\ Len(urls) <= CacheRoom /\ Len(ring) <= RingRoom /\ lost \in Nat
    /\ \A n \in 1..Len(made) : made[n].of \in 1..Len(script) /\ made[n].kind.is \in Kinds
    /\ \A i \in Watchers :
           /\ recorder[i].at \in {"Idle", "Store", "Written", "Rename", "Record"}
           /\ \A n \in 1..Len(records[i]) : records[i][n].cursor = n
           /\ copied[i].terminal \in BOOLEAN
    /\ heard.cursor \in 0..Len(made) /\ heard.dropped \in 0..lost

\* The client of a session reads what the session made of the page's events, unchanged by the
\* wire, each once and in their order, and nothing its filter was to keep away
\* (translate_event(), LiveResponse::decode()).
LiveIsTrue ==
    \A n \in 1..Len(heard.events) :
        LET event == heard.events[n] IN
        /\ event.kind = made[event.cursor].kind
        /\ LET method == script[made[event.cursor].of].method IN
           IF method = "Console" THEN wanted.console
           ELSE wanted.network /\ (wanted.websocket_only =>
                    method \notin {"requestWillBeSent", "responseReceived", "loadingFinished"})
        /\ n > 1 => made[heard.events[n - 1].cursor].of < made[event.cursor].of

\* The address of a frame or of a server's event is one its own request had
\* (resolve_request_url()).
UrlsAreOwn ==
    \A n \in 1..Len(made) :
        (made[n].kind.is \in {"Frame", "Sse"} /\ made[n].kind.url # NoUrl) =>
            \E k \in 1..made[n].of :
                /\ script[k].request = script[made[n].of].request
                /\ BoundedUrl(script[k].url) = made[n].kind.url

\* A monitor and a session that both have a frame have the same: each parses, decodes and cuts
\* on its own (parse_ws_frame(), parse_websocket_frame()).
FramesAgree ==
    \A i \in Watchers : \A n \in 1..Len(records[i]) : \A k \in 1..Len(made) :
        LET r == records[i][n].kind
            event == made[k].kind
        IN  (r.is = "Frame" /\ records[i][n].of = made[k].of) =>
                /\ event.is = "Frame"
                /\ r.direction = event.direction /\ r.opcode = event.opcode /\ r.cut = event.cut
                /\ event.payload = IF r.artifact = NoArtifact THEN EmptyBytes ELSE r.artifact

\* The client of a monitor reads its journal from the start, and all of it when it is told of
\* the end; each record it read can be followed to the bytes (read_page(),
\* read_frame_by_ref()).
RecordsAreTrue ==
    \A i \in Watchers :
        LET read == copied[i].records IN
        /\ IsPrefix(read, records[i])
        /\ copied[i].terminal => read = records[i] /\ IsTerminal(read)
        /\ \A n \in 1..Len(read) :
               read[n].kind.is = "Frame" =>
                   LET e == script[read[n].of] IN
                   Fetched(read[n].kind) = KeptPayload(e.opcode, e.payload).bytes
        /\ \A n, k \in 1..Len(read) :
               (n < k /\ read[k].kind.is = "Frame") => read[n].of < read[k].of

\* An event the filter lets pass is never dropped for what it says (MAX_LIVE_NETWORK_PARAMS_BYTES:
\* "method/url/status metadata is never lost").
NothingIsSwallowed == \A n \in 1..Len(made) : Sound(made[n].kind)

\* A gap in the cursors means dropped events (LiveEventPage::validate_after).
GapsAreDrops ==
    \A n \in 1..Len(heard.events) :
        heard.events[n].cursor > (IF n = 1 THEN 0 ELSE heard.events[n - 1].cursor) + 1
            => heard.dropped > 0

\* The address of a server's event is the one its request has now.
UrlIsCurrent ==
    \A n \in 1..Len(made) : \A k \in 1..made[n].of :
        (/\ made[n].kind.is = "Sse" /\ made[n].kind.url # NoUrl
         /\ script[k].request = script[made[n].of].request /\ script[k].url # NoUrl
         /\ \A j \in k + 1..made[n].of :
                script[j].request = script[k].request => script[j].url = NoUrl)
            => made[n].kind.url = BoundedUrl(script[k].url)

\* A frame that one monitor could record is recorded by each that took it (record_frame()).
FramesAreRecorded ==
    \A i \in Watchers :
        recorder[i].at = "Rename" => Bytes(i) \notin blobs \/ Replaces

\* Whoever has read the end of a monitor is told that it has ended (MonitorEventPage::is_terminal).
EndIsTold == \A i \in Watchers : IsTerminal(copied[i].records) => copied[i].terminal
=============================================================================
