--------------------------- MODULE EvidenceIngest ---------------------------
(***************************************************************************)
(* The evidence table of one project and the three ways into it: a sheet   *)
(* of site records, a photograph, and a batch of the external collector.   *)
(* Each is a session that reads, adds and commits later; sessions of       *)
(* several processes overlap.  Texts are compared as values: case and      *)
(* spaces are gone, and a column has been found or not.                    *)
(***************************************************************************)
EXTENDS Naturals, Sequences, FiniteSets, SequencesExt

CONSTANTS
    Upload,         \* the sessions
    Sheets,         \* the files: title lines above the header, type and rows
    Photos,         \* the pictures: object, caption, capture day or 0, activity
    Batches         \* what the collector sends: records in one call

ASSUME EvidenceAssumption ==
    /\ Sheets \subseteq [lines : Seq([text : STRING, label : STRING]), type : STRING,
                          rows : Seq([own : STRING, text : STRING, free : STRING, ref : STRING])]
    /\ Photos \subseteq [object : STRING, caption : STRING, taken : Nat, ref : STRING]
    /\ Batches \subseteq [records : Seq([type : STRING, id : STRING, text : STRING])]

VARIABLES
    crowded,        \* do sessions overlap in this behaviour?
    upload,         \* Upload -> its session
    filed,          \* the committed records, in commit order
    imported,       \* the activities of the imported schedule
    day             \* today

evidenceVars == <<crowded, upload, filed, imported, day>>

Today == 1
Tomorrow == 2
Blank == ""
Idle == [pc |-> "idle", from |-> <<>>, adds |-> <<>>, duplicates |-> 0]

EvidenceInit ==
    /\ crowded \in BOOLEAN
    /\ upload = [u \in Upload |-> Idle]
    /\ filed = <<>>
    /\ imported = {}
    /\ day = Today

HashOfRow(type, id, text, document) ==
    [type |-> type, id |-> id, text |-> text, document |-> Blank]

content_hash(type, id, text, document) ==
    [type |-> type, id |-> id, text |-> text, document |-> document]

_existing_hashes == {filed[i].hash : i \in DOMAIN filed}

\* The members of seq at these places, in their order.
Kept(seq, places) ==
    LET kept[i \in 0 .. Len(seq)] ==
          IF i = 0 THEN <<>>
          ELSE IF i \in places THEN Append(kept[i - 1], seq[i]) ELSE kept[i - 1]
    IN  kept[Len(seq)]

\* The first title line that carries a site label, or else the first one.
sheet_context(lines) ==
    LET labelled == SelectInSeq(lines, LAMBDA l : l.label # Blank) IN
    IF labelled # 0 THEN lines[labelled]
    ELSE IF lines # <<>> THEN Head(lines) ELSE [text |-> Blank, label |-> Blank]

\* _resolve_links: the reference is kept, resolved or not.
_resolve_links(ref) == [ref |-> ref, resolved |-> ref \in imported]

RowNumbers == {"1", "2", "3"}
RowNumber(index) == <<"1", "2", "3">>[index]

\* A number of the document's own is cited as it is; a bare row number is
\* qualified by the sheet's label, or by the type when it has none.
SourceId(type, label, own, index) ==
    LET raw == IF own = Blank THEN RowNumber(index) ELSE own IN
    CASE raw \notin RowNumbers -> <<Blank, raw>>
      [] raw \in RowNumbers -> <<IF label = Blank THEN type ELSE label, raw>>

\* The column named for it, or the longest free text; neither is a row of the
\* template to be filled in, or a problem that is reported.
Described(row) == IF row.text # Blank THEN row.text ELSE row.free

build_record(sheet, index) ==
    LET row == sheet.rows[index]
        context == sheet_context(sheet.lines)
        text == <<Described(row), context.label>>
        id == SourceId(sheet.type, context.label, row.own, index) IN
    [hash |-> content_hash(sheet.type, id, text, context.text),
     origin |-> [of |-> sheet, at |-> index], links |-> _resolve_links(row.ref)]

Usable(sheet) == Kept([i \in DOMAIN sheet.rows |-> i],
                      {i \in DOMAIN sheet.rows : Described(sheet.rows[i]) # Blank})
Records(sheet) == [k \in DOMAIN Usable(sheet) |-> build_record(sheet, Usable(sheet)[k])]

Photograph(photo) ==
    LET when == IF photo.taken = 0 THEN day ELSE photo.taken
        links == _resolve_links(photo.ref)
        named == IF links.resolved THEN photo.ref ELSE Blank IN
    [hash |-> content_hash("photo", <<"PHOTO", photo.object>>,
                           <<photo.caption, ToString(when), named>>, Blank),
     origin |-> [of |-> photo, at |-> 0], links |-> links]

\* _evidence_hash is of another format than content_hash.
Collected(record) ==
    [hash |-> content_hash(record.type, <<"collected", record.id>>, <<record.text>>, Blank),
     origin |-> [of |-> record, at |-> 0], links |-> _resolve_links(Blank)]
-----------------------------------------------------------------------------
Begins(u) ==
    /\ upload[u].pc = "idle"
    /\ crowded \/ \A v \in Upload : upload[v].pc # "open"
    /\ UNCHANGED <<crowded, filed, imported, day>>

Opened(u, material, records, adds) ==
    upload' = [upload EXCEPT ![u] =
                 [pc |-> "open", from |-> material, adds |-> adds,
                  duplicates |-> Len(records) - Len(adds)]]

AddUnfiled(records) ==
    Kept(records, {i \in DOMAIN records : records[i].hash \notin _existing_hashes})

\* import_evidence_table adds what is neither filed nor earlier in the file.
AddUnseen(records) ==
    LET Seen(i) == {records[k].hash : k \in 1 .. i - 1} IN
    Kept(records,
         {i \in DOMAIN records : records[i].hash \notin _existing_hashes \cup Seen(i)})

import_evidence_table(u, sheet) ==
    /\ Begins(u)
    /\ Opened(u, <<sheet>>, Records(sheet), AddUnseen(Records(sheet)))

store_photo_evidence(u, photo) ==
    LET records == <<Photograph(photo)>> IN
    /\ Begins(u)
    /\ Opened(u, <<photo>>, records, AddUnseen(records))

\* ingest_evidence asks the table for each record, and a query does not see
\* what the session has added: a batch that repeats itself is added twice.
ingest_evidence(u, batch) ==
    LET records == [k \in DOMAIN batch.records |-> Collected(batch.records[k])] IN
    /\ Begins(u)
    /\ Opened(u, <<batch>>, records, AddUnfiled(records))

CommitUpload(u) ==
    /\ upload[u].pc = "open"
    /\ filed' = filed \o [k \in DOMAIN upload[u].adds |->
                            [hash |-> upload[u].adds[k].hash,
                             origin |-> upload[u].adds[k].origin,
                             links |-> upload[u].adds[k].links, by |-> u]]
    /\ upload' = [upload EXCEPT ![u].pc = "done", ![u].adds = <<>>]
    /\ UNCHANGED <<crowded, imported, day>>

RollBackUpload(u) ==
    /\ upload[u].pc = "open"
    /\ upload' = [upload EXCEPT ![u].pc = "failed", ![u].adds = <<>>]
    /\ UNCHANGED <<crowded, filed, imported, day>>

\* A schedule import gives a reference its activity; the clock goes on.
ScheduleArrives ==
    /\ imported = {}
    /\ imported' = {p.ref : p \in Photos} \ {Blank}
    /\ UNCHANGED <<crowded, upload, filed, day>>

DayPasses ==
    /\ day = Today
    /\ day' = Tomorrow
    /\ UNCHANGED <<crowded, upload, filed, imported>>

EvidenceNext ==
    \/ \E u \in Upload :
          \/ \E sheet \in Sheets : import_evidence_table(u, sheet)
          \/ \E photo \in Photos : store_photo_evidence(u, photo)
          \/ \E batch \in Batches : ingest_evidence(u, batch)
          \/ CommitUpload(u) \/ RollBackUpload(u)
    \/ ScheduleArrives \/ DayPasses

EvidenceSpec == EvidenceInit /\ [][EvidenceNext]_evidenceVars
-----------------------------------------------------------------------------
EvidenceTypeOK ==
    /\ crowded \in BOOLEAN
    /\ day \in {Today, Tomorrow}
    /\ \A u \in Upload :
          /\ upload[u].pc \in {"idle", "open", "done", "failed"}
          /\ upload[u].pc # "open" => upload[u].adds = <<>>
    /\ \A i \in DOMAIN filed : filed[i].by \in Upload

\* An undated photograph carries the day it was uploaded, and a resolved
\* reference the activity's name: sent again later, it is another text.
Reworded(photo) == photo \in Photos /\ (photo.taken = 0 \/ photo.ref # Blank)

RepeatedInBatch(i, j) ==
    filed[i].by = filed[j].by /\ \E b \in Batches : upload[filed[i].by].from = <<b>>

\* At most once: unless sessions overlap or the collector repeats a record
\* within one batch, no two records have one hash, and no row, picture or
\* observation that is sent again is filed again - but a picture whose text
\* depends on when it is uploaded.
FiledOnce ==
    ~crowded =>
        \A i, j \in DOMAIN filed :
            i < j /\ ~RepeatedInBatch(i, j) =>
                /\ filed[i].hash # filed[j].hash
                /\ filed[i].origin = filed[j].origin => Reworded(filed[i].origin.of)

\* At least once: every row of a committed sheet that can be used is in the
\* table under the title it came with, however alike the rows of two sheets.
NoItemLost ==
    \A u \in Upload, sheet \in Sheets :
        upload[u].pc = "done" /\ upload[u].from = <<sheet>> =>
            \A k \in DOMAIN sheet.rows :
                Described(sheet.rows[k]) # Blank =>
                    \E i \in DOMAIN filed :
                        /\ filed[i].origin.of \in Sheets
                        /\ sheet_context(filed[i].origin.of.lines)
                             = sheet_context(sheet.lines)
                        /\ Described(filed[i].origin.of.rows[filed[i].origin.at])
                             = Described(sheet.rows[k])

\* "Re-importing a file is safe" and no station's work is lost: what is sent
\* to the twin is in its evidence exactly once, with the exceptions above.
FiledExactlyOnce == FiledOnce /\ NoItemLost
=============================================================================
