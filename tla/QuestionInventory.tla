--------------------------- MODULE QuestionInventory ---------------------------
(***************************************************************************)
(* The report of ingest/question_inventory.py: the questions of all OME    *)
(* transcripts, redacted and classified.                                   *)
(*                                                                         *)
(* A line of a transcript is what the report tells apart of it: its speaker*)
(* label, the terms it contains, the identifiers it contains, and whether  *)
(* it is shaped like a question or like a quoted message.  OME is external;*)
(* calls end at any time.                                                  *)
(***************************************************************************)
EXTENDS Places

CONSTANTS
    Calls,
    Lines,       \* the lines that may be said
    Categories,  \* _CATEGORIES: records of a name and its terms, in order
    MaxLines,    \* bound: lines of a transcript
    Nothing,     \* no report, nothing read
    Torn         \* a file that is open for a report, or was when its writer ended

Identifiers == {"email", "phone", "number"}
Terms == Identifiers \cup UNION {Categories[i].terms : i \in DOMAIN Categories}

\* label: what stands before the first colon, "none" without one.  said: the terms
\* that stay when the identifiers are replaced, lost: those that need a part of an
\* identifier and go with it ("w-9" in "w-9 555-123-4567", "truck" in the address
\* truck@example.com).  quoted: a marker of a quoted message stays.
LineType == [label : {"agent", "carrier", "caller", "other", "none"}, asks : BOOLEAN,
             quoted : BOOLEAN, said : SUBSET Terms, lost : SUBSET Terms,
             ids : SUBSET Identifiers]

Transcripts == UNION {[1..n -> Lines] : n \in 0..MaxLines}

\* Rows of the query, and records of the report.
CallRows == [call : Calls, transcript : Transcripts]
Names    == {Categories[i].name : i \in DOMAIN Categories} \cup {"unclassified"}
Records  == [call : Calls, line : Nat, category : Names,
             kind : {"embedded_context", "agent_script", "carrier_question", "unattributed_question"}]

\* Only the last category has a term that is the name of an identifier.
ASSUME InventoryAssumption ==
    /\ Lines \subseteq LineType
    /\ \A line \in Lines : line.ids = {} => line.lost = {}
    /\ MaxLines \in Nat
    /\ Len(Categories) \in Nat /\ DOMAIN Categories = 1..Len(Categories)
    /\ \A i \in DOMAIN Categories :
          Categories[i].terms \cap Identifiers # {} => i = Len(Categories)
    /\ {Nothing, Torn} \cap (Seq(CallRows) \cup [rows : Seq(CallRows), records : Seq(Records)]) = {}
    /\ Nothing # Torn

VARIABLES
    table,    \* recruiter_voice_transcript, newest first
    rows,     \* what the report has read of it
    at,       \* how many of these rows it has scanned
    records,  \* the records so far
    output    \* the file: Nothing, Torn, or a report with the rows it is about

vars == <<table, rows, at, records, output>>

-----------------------------------------------------------------------------
\* redact: each identifier is replaced by its name in brackets, which is part of
\* the text from then on; a phone number may take the digits before it along.
Redact(line) == line.said \cup line.ids

\* Fault: the last category that fits.
Classify_Last(terms) ==
    LET fits == {i \in DOMAIN Categories : Categories[i].terms \cap terms # {}}
    IN IF fits = {} THEN "unclassified"
       ELSE Categories[CHOOSE i \in fits : \A j \in fits : j <= i].name

\* classify: the first category one of whose terms occurs.
Classify(terms) ==
    LET fits == {i \in DOMAIN Categories : Categories[i].terms \cap terms # {}}
    IN IF fits = {} THEN "unclassified"
       ELSE Categories[CHOOSE i \in fits : \A j \in fits : i <= j].name

\* Fault: a line without a label is the carrier's.
Kind_CarrierByDefault(line) ==
    IF line.quoted THEN "embedded_context"
    ELSE IF line.label = "agent" THEN "agent_script"
    ELSE IF line.label \in {"carrier", "caller", "none"} THEN "carrier_question"
    ELSE "unattributed_question"

\* classify_kind
Kind(line) ==
    IF line.quoted THEN "embedded_context"
    ELSE IF line.label = "agent" THEN "agent_script"
    ELSE IF line.label \in {"carrier", "caller"} THEN "carrier_question"
    ELSE "unattributed_question"

\* extract_questions and the records that build_inventory makes of them; the
\* number of the line is kept for the properties.
Questions(row) ==
    At([l \in DOMAIN row.transcript |->
          [call |-> row.call, line |-> l, category |-> Classify(Redact(row.transcript[l])),
           kind |-> Kind(row.transcript[l])]],
       {l \in DOMAIN row.transcript : row.transcript[l].asks})

Init ==
    /\ table = <<>>
    /\ rows = Nothing
    /\ at = 0
    /\ records = <<>>
    /\ output = Nothing

\* OME stores the transcript of a call.
Call(c, transcript) ==
    /\ \A i \in DOMAIN table : table[i].call # c
    /\ table' = <<[call |-> c, transcript |-> transcript]>> \o table
    /\ UNCHANGED <<rows, at, records, output>>

\* Fault: the rows are read again while they are scanned.
Read_Again ==
    /\ rows' = At(table, {i \in DOMAIN table : table[i].transcript # <<>>})
    /\ IF rows = Nothing THEN at' = 0 /\ records' = <<>> ELSE UNCHANGED <<at, records>>
    /\ UNCHANGED <<table, output>>

\* The query: every transcript that is not empty.
Read ==
    /\ rows = Nothing
    /\ rows' = At(table, {i \in DOMAIN table : table[i].transcript # <<>>})
    /\ at' = 0
    /\ records' = <<>>
    /\ UNCHANGED <<table, output>>

Scan ==
    /\ rows # Nothing /\ at < Len(rows)
    /\ records' = records \o Questions(rows[at + 1])
    /\ at' = at + 1
    /\ UNCHANGED <<table, rows, output>>

\* write_text: the file of an earlier report is emptied before ...
Truncate ==
    /\ rows # Nothing /\ at = Len(rows)
    /\ output' = Torn
    /\ UNCHANGED <<table, rows, at, records>>

\* ... the new report is written to it.
Write ==
    /\ rows # Nothing /\ at = Len(rows) /\ output = Torn
    /\ output' = [rows |-> rows, records |-> records]
    /\ rows' = Nothing /\ at' = 0 /\ records' = <<>>
    /\ UNCHANGED table

\* The query fails, or the process ends: the file stays as it is, torn when that
\* happens between the two steps above.
Abort ==
    /\ rows # Nothing
    /\ rows' = Nothing /\ at' = 0 /\ records' = <<>>
    /\ UNCHANGED <<table, output>>

Next ==
    \/ \E c \in Calls, transcript \in Transcripts : Call(c, transcript)
    \/ Read
    \/ Scan
    \/ Truncate
    \/ Write
    \/ Abort

Spec == Init /\ [][Next]_vars

-----------------------------------------------------------------------------
(* Properties                                                              *)

\* The line a record was made of.
Origin(r) ==
    LET row == CHOOSE row \in {output.rows[i] : i \in DOMAIN output.rows} : row.call = r.call
    IN row.transcript[r.line]

IsWhole  == output \notin {Nothing, Torn}
Reported == IF IsWhole THEN {output.records[k] : k \in DOMAIN output.records} ELSE {}

\* A report that was written to its end counts every question of every transcript
\* that it scanned, once, whatever calls end meanwhile and wherever earlier ones
\* were broken off, in the middle of writing too.  (An earlier report is lost then.)
EveryQuestionOnce ==
    IsWhole =>
        LET asked == {<<output.rows[i].call, l>> : i \in DOMAIN output.rows, l \in 1..MaxLines}
            isQuestion(x) == \E i \in DOMAIN output.rows :
                                /\ output.rows[i].call = x[1]
                                /\ x[2] \in DOMAIN output.rows[i].transcript
                                /\ output.rows[i].transcript[x[2]].asks
        IN /\ {<<r.call, r.line>> : r \in Reported} = {x \in asked : isQuestion(x)}
           /\ \A j, k \in DOMAIN output.records :
                 output.records[j].call = output.records[k].call
                    /\ output.records[j].line = output.records[k].line => j = k

\* Who speaks in a line: turns go on over lines without a label.
Speaker(transcript, l) ==
    LET labelled == {j \in 1..l : transcript[j].label # "none"}
    IN IF labelled = {} THEN "none"
       ELSE transcript[CHOOSE j \in labelled : \A k \in labelled : k <= j].label

\* What is counted as the question of a carrier was said in the turn of a
\* carrier: what an agent says never is, not even in the later lines of a turn.
CarriersAskedThem ==
    \A r \in Reported : r.kind = "carrier_question" =>
        \E i \in DOMAIN output.rows :
            /\ output.rows[i].call = r.call
            /\ Speaker(output.rows[i].transcript, r.line) \in {"carrier", "caller"}

\* The first category that has one of these terms.
Decides(i, terms) ==
    /\ Categories[i].terms \cap terms # {}
    /\ \A j \in 1..(i - 1) : Categories[j].terms \cap terms = {}

\* A question is never counted in a category before the one its own wording has,
\* and it keeps that one unless every term that speaks for it went with an
\* identifier: the names of the identifiers do not move it.
WordingGoesFirst ==
    \A r \in Reported, i \in DOMAIN Categories :
        LET line == Origin(r)
        IN Decides(i, line.said \cup line.lost) =>
              /\ r.category \in {"unclassified"} \cup {Categories[j].name : j \in i..Len(Categories)}
              /\ Categories[i].terms \cap line.said # {} => r.category = Categories[i].name

=============================================================================
