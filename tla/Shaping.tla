------------------------------ MODULE Shaping ------------------------------
(***************************************************************************)
(* Rows that a client reads out of what was captured: the schema it        *)
(* declares (crates/dig2browser-protocol/src/shape.rs), the engine that    *)
(* projects a document onto it (crates/dig2browser-shape), and the pages   *)
(* read by cursor from a collection, from the pages a crawl has completed  *)
(* so far, or from the frames a monitor has committed so far               *)
(* (read_shaped() of collection.rs, crawl.rs and monitor.rs of the         *)
(* station).  Every read shapes everything again.                          *)
(*                                                                         *)
(* Abstracted: of an element, of an array entry and of a whole document    *)
(* one content, which every selector, pointer and pattern finds; sizes are *)
(* counted in units, one for an ordinary cell.                             *)
(***************************************************************************)
EXTENDS Integers, Sequences, FiniteSets

CONSTANTS
    ShapeSources,    \* of "Collection", "Crawl", "Monitor"
    ShapeSchemas,    \* what clients declare
    Captures,        \* what may be captured
    MaxCaptures,     \* bound: documents of one source
    RowLimits,       \* the limits clients ask for
    WideCell,        \* units of a text near MAX_VALUE_TEXT_BYTES
    CrawlRoom,       \* MAX_REQUEST_BYTES, in units
    RowRoom          \* MAX_HTML_BYTES, in units

VARIABLES
    source,      \* where the rows come from
    schema,      \* as the client sends it
    captures,    \* documents in the order of the journal
    growing,     \* the crawl runs, the monitor listens
    rowCursor,   \* where the client is
    rows,        \* it has read
    finished,    \* it was told that this is all
    failure      \* of the last read

shapingVars == <<source, schema, captures, growing, rowCursor, rows, finished, failure>>

-----------------------------------------------------------------------------
(* What a schema says *)

\* Where a row begins: the whole document, an element, an entry of an array.
Cardinalities == {"PageLevel", "Css", "Pointer"}
Types == {"Text", "Integer", "Real", "Boolean", "Timestamp", "Blob"}
Policies == {"Null", "DropRow", "Fail"}
Extractors == {"Meta", "CssText", "CssExists", "Json", "Regex", "Const"}

\* The contents of an element: nothing there, a word, a numeral, "true", a text that just fits a
\* cell, one that does not; and those of a JSON value.
Texts == {"Word", "Digits", "True", "Wide", "Huge"}
JsonOnly == {"Null", "Number", "Bool", "List"}

\* OutputSchema::validate(): columns, each with a name of its own.
ValidSchema(s) ==
    /\ s.columns # <<>>
    /\ \A i, j \in DOMAIN s.columns : s.columns[i].name = s.columns[j].name => i = j

Header(s) == [i \in DOMAIN s.columns |-> <<s.columns[i].name, s.columns[i].type>>]

\* Value::validate() and Row::new(): a text cell is bounded, a blob by far more.
ValidCell(cell) == cell # <<"Text", "Huge">>
ValidRow(row) == \A i \in DOMAIN row : ValidCell(row[i])

Size(cell) == IF cell[2] = "Wide" THEN WideCell ELSE 1
PageSize(page) ==
    LET RowSize(row) ==
            LET sum[i \in 0..Len(row)] == IF i = 0 THEN 0 ELSE sum[i - 1] + Size(row[i])
            IN  sum[Len(row)]
        sum[i \in 0..Len(page.rows)] == IF i = 0 THEN 0 ELSE sum[i - 1] + RowSize(page.rows[i])
    IN  sum[Len(page.rows)]

\* RowPage::validate(): rows as wide as the header, and a cursor exactly when there is more.
ValidPage(page) ==
    /\ page.header # <<>>
    /\ \A i, j \in DOMAIN page.header : page.header[i][1] = page.header[j][1] => i = j
    /\ \A i \in DOMAIN page.rows :
          ValidRow(page.rows[i]) /\ Len(page.rows[i]) = Len(page.header)
    /\ page.complete <=> page.next = <<>>

\* RowPage::encode() and the response it travels in: a crawl's is bounded like a request.
Room == IF source = "Crawl" THEN CrawlRoom ELSE RowRoom
Encodable(page) == ValidPage(page) /\ PageSize(page) <= Room
Encode(page) ==
    [header |-> page.header, rows |-> page.rows, hasCursor |-> page.next # <<>>,
     cursor |-> IF page.next = <<>> THEN 0 ELSE page.next[1], complete |-> page.complete]
Decode(wire) ==
    [header |-> wire.header, rows |-> wire.rows,
     next |-> IF wire.hasCursor THEN <<wire.cursor>> ELSE <<>>, complete |-> wire.complete]

-----------------------------------------------------------------------------
(* The engine *)

\* compile_schema() and compile_json_schema(): what a source of the other kind would need.
Compiles(s, json) ==
    /\ s.cardinality # IF json THEN "Css" ELSE "Pointer"
    /\ \A i \in DOMAIN s.columns :
          s.columns[i].extractor \notin IF json THEN {"CssText", "CssExists"} ELSE {"Json"}

\* resolve_meta(), resolve_css(), resolve_regex(), resolve_json_pointer(): what a column finds.
Extract(column, content, status) ==
    IF column.extractor = "Const" THEN <<"Value", column.value>>
    ELSE IF column.extractor = "Meta" THEN IF status THEN <<"Text", "Digits">> ELSE <<"Missing">>
    ELSE IF column.extractor = "CssExists" THEN <<"Bool", content # "Absent">>
    ELSE IF content = "Absent" THEN <<"Missing">>
    ELSE IF column.extractor = "Json" THEN <<"Json", content>>
    ELSE <<"Text", content>>

\* coerce(): the cell, or no cell at all.
Miss == <<>>
CoerceBool(type) == IF type \in {"Boolean", "Text"} THEN <<type, "True">> ELSE Miss
CoerceText(content, type) ==
    IF \/ type \in {"Text", "Blob"}
       \/ type \in {"Integer", "Real", "Timestamp"} /\ content = "Digits"
       \/ type = "Boolean" /\ content = "True"
    THEN <<type, content>> ELSE Miss
CoerceJson(content, type) ==
    CASE content = "Null" -> Miss
      [] content = "Number" -> IF type \in {"Integer", "Real", "Text"} THEN <<type, "Digits">> ELSE Miss
      [] content = "Bool" -> CoerceBool(type)
      [] content = "List" -> IF type \in {"Text", "Blob"} THEN <<type, "Word">> ELSE Miss
      [] OTHER -> CoerceText(content, type)
Coerce(found, type) ==
    CASE found[1] = "Missing" -> Miss
      [] found[1] = "Value" -> found[2]
      [] found[1] = "Bool" -> CoerceBool(type)
      [] found[1] = "Json" -> CoerceJson(found[2], type)
      [] OTHER -> CoerceText(found[2], type)

\* build_row() and build_json_row(): column by column; the first that misses and does not take a
\* null decides.  A cell beyond its bound is no miss: it fails the row.
BuildRow(columns, content, status) ==
    LET cell == [i \in DOMAIN columns |-> Coerce(Extract(columns[i], content, status), columns[i].type)]
        bad == {i \in DOMAIN columns : cell[i] = Miss /\ columns[i].policy # "Null"}
        row == [i \in DOMAIN columns |-> IF cell[i] = Miss THEN <<"Null", "Null">> ELSE cell[i]]
    IN  IF bad # {}
        THEN LET first == CHOOSE i \in bad : \A j \in bad : i <= j
             IN  IF columns[first].policy = "Fail" THEN <<"Failed">> ELSE <<"Dropped">>
        ELSE IF ValidRow(row) THEN <<"Row", row>> ELSE <<"Failed">>

\* The contents a row is built from, in document order.
ScopesOf(s, capture) == IF s.cardinality = "PageLevel" THEN <<capture.whole>> ELSE capture.items

\* shape() and shape_json() of a document that parses.
Outcomes(s, capture) ==
    LET contents == ScopesOf(s, capture)
    IN  [i \in DOMAIN contents |-> BuildRow(s.columns, contents[i], capture.status)]
RowsOf(s, capture) ==
    LET made == SelectSeq(Outcomes(s, capture), LAMBDA outcome : outcome[1] = "Row")
    IN  [i \in DOMAIN made |-> made[i][2]]
Fails(s, capture) == \E i \in DOMAIN Outcomes(s, capture) : Outcomes(s, capture)[i] = <<"Failed">>

-----------------------------------------------------------------------------
(* The sources *)

Json == source = "Monitor"
\* A monitor skips frames that are no JSON; the rest of a source is shaped together, or not at all.
Shaped == SelectSeq(captures, LAMBDA capture : ~ Json \/ capture.json)
\* Before a monitor's frames the schema is tried on an empty object, in which nothing is found.
Probe == [whole |-> "Absent", items |-> <<>>, status |-> FALSE]
ShapeFails ==
    \/ ~ Compiles(schema, Json) /\ (Json \/ captures # <<>>)
    \/ Json /\ Fails(schema, Probe)
    \/ \E i \in DOMAIN Shaped : Fails(schema, Shaped[i])

AllRows(docs) ==
    LET rowsTo[i \in 0..Len(docs)] ==
            IF i = 0 THEN <<>> ELSE rowsTo[i - 1] \o RowsOf(schema, docs[i])
    IN  rowsTo[Len(docs)]

\* read_shaped(): the rows from the cursor on; a cursor beyond the end is the end.
Page(cursor, limit) ==
    LET all == AllRows(Shaped)
        end == IF cursor + limit < Len(all) THEN cursor + limit ELSE Len(all)
    IN  IF cursor > Len(all)
        THEN [header |-> Header(schema), rows |-> <<>>, next |-> <<>>, complete |-> TRUE]
        ELSE [header |-> Header(schema), rows |-> SubSeq(all, cursor + 1, end),
              next |-> IF end >= Len(all) THEN <<>> ELSE <<end>>, complete |-> end >= Len(all)]

ShapingInit ==
    /\ source \in ShapeSources /\ schema \in ShapeSchemas
    /\ captures = <<>> /\ growing = TRUE
    /\ rowCursor = 0 /\ rows = <<>> /\ finished = FALSE /\ failure = "None"

\* A collection captures one document; a crawl completes another page, a monitor commits a frame.
Capture ==
    /\ growing /\ Len(captures) < MaxCaptures
    /\ \E capture \in Captures :
          /\ capture.html <=> ~ Json
          /\ captures' = Append(captures, capture)
    /\ growing' = (source # "Collection")
    /\ UNCHANGED <<source, schema, rowCursor, rows, finished, failure>>

\* The crawl reaches its end, the monitor is stopped.
EndSource ==
    /\ growing /\ source # "Collection"
    /\ growing' = FALSE
    /\ UNCHANGED <<source, schema, captures, rowCursor, rows, finished, failure>>

\* The client asks for the next page, validates the schema and decodes what comes back.
ReadPage(limit) ==
    /\ ~ finished /\ (source = "Collection" => captures # <<>>)
    /\ LET page == Page(rowCursor, limit) IN
       IF ~ ValidSchema(schema) \/ ShapeFails \/ ~ Encodable(page)
       THEN /\ failure' = IF ~ ValidSchema(schema) THEN "Schema"
                          ELSE IF ShapeFails THEN "Shape"
                          ELSE "Encode"
            /\ UNCHANGED <<rowCursor, rows, finished>>
       ELSE LET got == Decode(Encode(page)) IN
            /\ rows' = rows \o got.rows
            /\ rowCursor' = IF got.next = <<>> THEN rowCursor + Len(got.rows) ELSE got.next[1]
            /\ finished' = got.complete /\ failure' = "None"
    /\ UNCHANGED <<source, schema, captures, growing>>

\* A client that was told that this is all may ask again, from where it stopped.
AskAgain ==
    /\ finished /\ finished' = FALSE
    /\ UNCHANGED <<source, schema, captures, growing, rowCursor, rows, failure>>

ShapingNext == Capture \/ EndSource \/ AskAgain \/ \E limit \in RowLimits : ReadPage(limit)

ShapingSpec == ShapingInit /\ [][ShapingNext]_shapingVars

-----------------------------------------------------------------------------
(* Properties *)

ShapingTypeOK ==
    /\ source \in ShapeSources /\ schema \in ShapeSchemas
    /\ Len(captures) <= MaxCaptures /\ growing \in BOOLEAN /\ finished \in BOOLEAN
    /\ rowCursor \in Nat
    /\ failure \in {"None", "Schema", "Shape", "Encode"}

\* Whatever is captured between two reads, what the client has read is a prefix of the rows of
\* what is there now, none twice and none left out, and the cursor is where that prefix ends.
RowsAreAPrefix ==
    /\ Len(rows) <= Len(AllRows(Shaped))
    /\ rows = SubSeq(AllRows(Shaped), 1, Len(rows))
    /\ rowCursor = Len(rows)

\* A row a client has read says what its schema declares: a cell for every column, of its type,
\* or null where the policy is null, or the constant; no row of a scope whose first gap is not
\* a null.
CellsAreTyped ==
    \A i \in DOMAIN rows :
        /\ Len(rows[i]) = Len(schema.columns)
        /\ \A j \in DOMAIN schema.columns :
              LET column == schema.columns[j] IN
              \/ rows[i][j][1] = column.type
              \/ rows[i][j][1] = "Null" /\ column.policy = "Null"
              \/ column.extractor = "Const"

\* Nothing is read from a source that as a whole cannot be shaped: a client has either the rows of
\* all that was there at its last successful read, or the failure of one of them.
FailureIsWhole ==
    ShapeFails /\ Len(rows) > 0 =>
        \E n \in 0..(Len(captures) - 1) :
            LET docs == SelectSeq(SubSeq(captures, 1, n), LAMBDA c : ~ Json \/ c.json) IN
            /\ \A i \in DOMAIN docs : ~ Fails(schema, docs[i])
            /\ Len(rows) <= Len(AllRows(docs))

\* A row that can be shaped can be read, if need be alone.
NextRowFits == ValidSchema(schema) /\ ~ ShapeFails => Encodable(Page(rowCursor, 1))

\* A read is refused for the schema or for something that was captured ("the only possible failure
\* here is a genuine schema problem", crates/dig2browser-station/src/monitor.rs).
RefusedForCause ==
    failure = "Shape" =>
        ~ Compiles(schema, Json) \/ \E i \in DOMAIN Shaped : Fails(schema, Shaped[i])

\* Who is told that this is all has all the rows there will be ("a page either finishes the read",
\* crates/dig2browser-protocol/src/shape.rs).
FinishedIsAll == finished => rows = AllRows(Shaped)
=============================================================================
