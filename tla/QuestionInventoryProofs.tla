------------------------ MODULE QuestionInventoryProofs ------------------------
(***************************************************************************)
(* Proofs about QuestionInventory for any calls, transcripts, categories   *)
(* and number of reports.  The invariant says of the records of a report   *)
(* that they are the questions of the rows scanned so far, each once, with *)
(* the kind and category of their line (IsReport); the three properties of *)
(* the file follow from what Kind and Classify make of one line.           *)
(***************************************************************************)
EXTENDS QuestionInventory, PlacesProofs, TLAPS

\* Rows of different calls.
IsTable(t) ==
    /\ t \in Seq(CallRows)
    /\ \A i, j \in DOMAIN t : t[i].call = t[j].call => i = j

\* What the record of a question says of its line.
IsRecordOf(record, row) ==
    /\ record.call = row.call
    /\ record.line \in DOMAIN row.transcript /\ row.transcript[record.line].asks
    /\ record.category = Classify(Redact(row.transcript[record.line]))
    /\ record.kind = Kind(row.transcript[record.line])

\* The records are the questions of the first n rows, each of them once.
IsReport(read, n, found) ==
    /\ found \in Seq(Records)
    /\ \A i \in 1..n : \A l \in DOMAIN read[i].transcript :
          read[i].transcript[l].asks =>
             \E k \in DOMAIN found : found[k].call = read[i].call /\ found[k].line = l
    /\ \A k \in DOMAIN found : \E i \in 1..n : IsRecordOf(found[k], read[i])
    /\ \A j, k \in DOMAIN found :
          found[j].call = found[k].call /\ found[j].line = found[k].line => j = k

ReportInv ==
    /\ IsTable(table)
    /\ rows # Nothing => IsTable(rows) /\ at \in 0..Len(rows) /\ IsReport(rows, at, records)
    /\ IsWhole =>
          /\ output \in [rows : Seq(CallRows), records : Seq(Records)]
          /\ IsTable(output.rows)
          /\ IsReport(output.rows, Len(output.rows), output.records)

-----------------------------------------------------------------------------
(* One line, one row                                                       *)

\* The first category that fits is one of those that do.
LEMMA FirstFit ==
    ASSUME NEW terms,
           NEW fits, fits = {i \in DOMAIN Categories : Categories[i].terms \cap terms # {}},
           fits # {}
    PROVE  \E i \in fits : (\A j \in fits : i <= j) /\ Classify(terms) = Categories[i].name
<1>1. fits \in SUBSET Nat
  <2>1. DOMAIN Categories = 1..Len(Categories)
    BY InventoryAssumption
  <2> QED BY <2>1
<1>2. \E i \in fits : \A j \in fits : i <= j
  BY <1>1, Least
<1>3. Classify(terms) = Categories[CHOOSE i \in fits : \A j \in fits : i <= j].name
  BY DEF Classify
<1>4. PICK i : i = CHOOSE i0 \in fits : \A j \in fits : i0 <= j
  OBVIOUS
<1>5. i \in fits /\ \A j \in fits : i <= j
  BY <1>2, <1>4
<1> QED BY <1>3, <1>4, <1>5

\* The category of a line has a name of its own or none.
LEMMA ClassifyType ==
    ASSUME NEW terms PROVE Classify(terms) \in Names
<1> DEFINE fits == {i \in DOMAIN Categories : Categories[i].terms \cap terms # {}}
<1>1. CASE fits = {}
  BY <1>1 DEF Classify, Names
<1>2. CASE fits # {}
  <2>1. PICK i \in fits : Classify(terms) = Categories[i].name
    BY <1>2, FirstFit
  <2>2. i \in DOMAIN Categories
    OBVIOUS
  <2> QED BY <2>1, <2>2 DEF Names
<1> QED BY <1>1, <1>2

\* The records of a row are its questions, each of them once.
LEMMA RowIsReported ==
    ASSUME NEW row \in CallRows
    PROVE  /\ Questions(row) \in Seq(Records)
           /\ \A l \in DOMAIN row.transcript : row.transcript[l].asks =>
                 \E k \in DOMAIN Questions(row) : Questions(row)[k].line = l
           /\ \A k \in DOMAIN Questions(row) : IsRecordOf(Questions(row)[k], row)
           /\ \A j, k \in DOMAIN Questions(row) :
                 Questions(row)[j].line = Questions(row)[k].line => j = k
<1> DEFINE text == row.transcript
           record(l) == [call |-> row.call, line |-> l, category |-> Classify(Redact(text[l])),
                         kind |-> Kind(text[l])]
           all == [l \in DOMAIN text |-> record(l)]
           S   == {l \in DOMAIN text : text[l].asks}
<1>1. Questions(row) = At(all, S)
  BY DEF Questions
<1>2. row.call \in Calls /\ text \in Seq(Lines)
  BY DEF CallRows, Transcripts
<1>3. DOMAIN text = 1..Len(text) /\ Len(text) \in Nat
  BY <1>2
<1>4. ASSUME NEW l \in DOMAIN text PROVE record(l) \in Records
  <2>1. l \in Nat /\ Classify(Redact(text[l])) \in Names
    BY <1>3, ClassifyType
  <2> QED BY <1>2, <2>1 DEF Records, Kind
<1>5. all \in Seq(Records) /\ DOMAIN all = DOMAIN text /\ S \in SUBSET DOMAIN all
  BY <1>3, <1>4
<1>6. \A l \in S : IsRecordOf(all[l], row) /\ all[l].line = l
  BY DEF IsRecordOf
<1> HIDE DEF all, S, record
<1>7. /\ At(all, S) \in Seq(Records)
      /\ \A k \in DOMAIN At(all, S) : Nth(S, k) \in S /\ At(all, S)[k] = all[Nth(S, k)]
      /\ \A l \in S : Rank(S, l) \in DOMAIN At(all, S) /\ At(all, S)[Rank(S, l)] = all[l]
      /\ \A j, k \in DOMAIN At(all, S) : Nth(S, j) = Nth(S, k) => j = k
  BY <1>5, AtPlaces
<1>8. \A l \in DOMAIN text : text[l].asks => l \in S
  BY DEF S
<1> QED BY <1>1, <1>6, <1>7, <1>8

-----------------------------------------------------------------------------
(* The steps                                                               *)

\* Where an element of two sequences, one after the other, comes from.
LEMMA Concatenated ==
    ASSUME NEW T, NEW s \in Seq(T), NEW t \in Seq(T)
    PROVE  /\ s \o t \in Seq(T)
           /\ \A k \in DOMAIN (s \o t) :
                 \/ k \in DOMAIN s /\ (s \o t)[k] = s[k]
                 \/ k - Len(s) \in DOMAIN t /\ k \notin DOMAIN s /\ (s \o t)[k] = t[k - Len(s)]
           /\ \A k \in DOMAIN s : k \in DOMAIN (s \o t) /\ (s \o t)[k] = s[k]
           /\ \A k \in DOMAIN t : k + Len(s) \in DOMAIN (s \o t) /\ (s \o t)[k + Len(s)] = t[k]
OBVIOUS

\* The questions of one more row complete the report of the rows up to it.
LEMMA ReportGoesOn ==
    ASSUME NEW read, IsTable(read), NEW n \in Nat, n < Len(read),
           NEW found, IsReport(read, n, found)
    PROVE  IsReport(read, n + 1, found \o Questions(read[n + 1]))
<1> DEFINE row == read[n + 1]
           new == Questions(row)
           both == found \o new
<1>1. n + 1 \in DOMAIN read /\ row \in CallRows /\ \A i \in 1..n : i \in DOMAIN read
  BY DEF IsTable
<1>2. /\ new \in Seq(Records)
      /\ \A l \in DOMAIN row.transcript : row.transcript[l].asks =>
            \E k \in DOMAIN new : new[k].line = l
      /\ \A k \in DOMAIN new : IsRecordOf(new[k], row)
      /\ \A j, k \in DOMAIN new : new[j].line = new[k].line => j = k
  BY <1>1, RowIsReported
<1>3. found \in Seq(Records)
  BY DEF IsReport
<1> HIDE DEF new
<1>4. /\ both \in Seq(Records)
      /\ \A k \in DOMAIN both :
            \/ k \in DOMAIN found /\ both[k] = found[k]
            \/ k - Len(found) \in DOMAIN new /\ k \notin DOMAIN found /\ both[k] = new[k - Len(found)]
      /\ \A k \in DOMAIN found : k \in DOMAIN both /\ both[k] = found[k]
      /\ \A k \in DOMAIN new : k + Len(found) \in DOMAIN both /\ both[k + Len(found)] = new[k]
  BY <1>2, <1>3, Concatenated
<1> HIDE DEF both, row
<1>5. ASSUME NEW i \in 1..n + 1, NEW l \in DOMAIN read[i].transcript, read[i].transcript[l].asks
      PROVE  \E k \in DOMAIN both : both[k].call = read[i].call /\ both[k].line = l
  <2>1. CASE i = n + 1
    <3>1. PICK k \in DOMAIN new : new[k].line = l
      BY <1>2, <1>5, <2>1 DEF row
    <3>2. new[k].call = row.call
      BY <1>2 DEF IsRecordOf
    <3> QED BY <1>4, <2>1, <3>1, <3>2 DEF row
  <2>2. CASE i # n + 1
    <3>1. i \in 1..n
      BY <2>2
    <3> QED BY <1>4, <1>5, <3>1 DEF IsReport
  <2> QED BY <2>1, <2>2
<1>6. ASSUME NEW k \in DOMAIN both PROVE \E i \in 1..n + 1 : IsRecordOf(both[k], read[i])
  <2>1. CASE k \in DOMAIN found /\ both[k] = found[k]
    <3>1. \A i \in 1..n : i \in 1..n + 1
      OBVIOUS
    <3> QED BY <2>1, <3>1 DEF IsReport
  <2>2. CASE k - Len(found) \in DOMAIN new /\ both[k] = new[k - Len(found)]
    <3>1. n + 1 \in 1..n + 1
      OBVIOUS
    <3> QED BY <1>2, <2>2, <3>1 DEF row
  <2> QED BY <1>4, <2>1, <2>2
<1>7. ASSUME NEW j \in DOMAIN found, NEW k \in DOMAIN new PROVE found[j].call # new[k].call
  <2>1. PICK i \in 1..n : found[j].call = read[i].call
    BY DEF IsReport, IsRecordOf
  <2>2. new[k].call = read[n + 1].call
    BY <1>2 DEF IsRecordOf, row
  <2>3. i # n + 1 /\ i \in DOMAIN read
    BY <1>1
  <2> QED BY <1>1, <2>1, <2>2, <2>3 DEF IsTable
<1>8. ASSUME NEW j \in DOMAIN both, NEW k \in DOMAIN both,
             both[j].call = both[k].call, both[j].line = both[k].line
      PROVE  j = k
  <2>1. CASE j \in DOMAIN found /\ k \in DOMAIN found
    BY <1>4, <1>8, <2>1 DEF IsReport
  <2>2. CASE j \notin DOMAIN found /\ k \notin DOMAIN found
    <3>1. j - Len(found) = k - Len(found)
      BY <1>2, <1>4, <1>8, <2>2
    <3>2. j \in Nat /\ k \in Nat /\ Len(found) \in Nat
      BY <1>3, <1>4
    <3> QED BY <3>1, <3>2
  <2>3. CASE j \in DOMAIN found /\ k \notin DOMAIN found
    BY <1>4, <1>7, <1>8, <2>3
  <2>4. CASE j \notin DOMAIN found /\ k \in DOMAIN found
    BY <1>4, <1>7, <1>8, <2>4
  <2> QED BY <2>1, <2>2, <2>3, <2>4
<1>9. IsReport(read, n + 1, both)
  BY <1>4, <1>5, <1>6, <1>8 DEF IsReport
<1> QED BY <1>9 DEF both, new, row

\* A new call is a row of its own.
LEMMA CallKeeps ==
    ASSUME ReportInv, NEW c \in Calls, NEW transcript \in Transcripts, Call(c, transcript)
    PROVE  ReportInv'
<1> DEFINE row == [call |-> c, transcript |-> transcript]
<1>1. row \in CallRows /\ table \in Seq(CallRows) /\ table' = <<row>> \o table
      /\ UNCHANGED <<rows, at, records, output>>
  BY DEF Call, ReportInv, IsTable, CallRows
<1> HIDE DEF row
<1>2. /\ table' \in Seq(CallRows) /\ DOMAIN table' = 1..Len(table) + 1
      /\ table'[1] = row /\ \A i \in 2..Len(table) + 1 : i - 1 \in DOMAIN table /\ table'[i] = table[i - 1]
      /\ Len(table) \in Nat /\ DOMAIN table = 1..Len(table)
  BY <1>1
<1>3. \A i \in DOMAIN table : table[i].call # row.call
  BY DEF Call, row
<1>4. ASSUME NEW i \in DOMAIN table', NEW j \in DOMAIN table', table'[i].call = table'[j].call
      PROVE  i = j
  <2>1. CASE i = 1 \/ j = 1
    BY <1>2, <1>3, <1>4, <2>1
  <2>2. CASE i # 1 /\ j # 1
    <3>1. i \in 2..Len(table) + 1 /\ j \in 2..Len(table) + 1
      BY <1>2, <2>2
    <3>2. i - 1 = j - 1
      BY <1>2, <1>4, <3>1 DEF ReportInv, IsTable
    <3> QED BY <3>1, <3>2
  <2> QED BY <2>1, <2>2
<1>5. IsTable(table')
  BY <1>2, <1>4 DEF IsTable
<1> QED BY <1>1, <1>5 DEF ReportInv, IsWhole

\* The rows that are read are of different calls, and none is scanned.
LEMMA ReadKeeps ==
    ASSUME ReportInv, Read
    PROVE  ReportInv'
<1> DEFINE S == {i \in DOMAIN table : table[i].transcript # <<>>}
<1>1. /\ rows' = At(table, S) /\ at' = 0 /\ records' = <<>> /\ UNCHANGED <<table, output>>
      /\ S \in SUBSET DOMAIN table /\ table \in Seq(CallRows)
      /\ \A i, j \in DOMAIN table : table[i].call = table[j].call => i = j
  BY DEF Read, ReportInv, IsTable
<1> HIDE DEF S
<1>2. /\ At(table, S) \in Seq(CallRows)
      /\ \A k \in DOMAIN At(table, S) : Nth(S, k) \in S /\ At(table, S)[k] = table[Nth(S, k)]
      /\ \A j, k \in DOMAIN At(table, S) : Nth(S, j) = Nth(S, k) => j = k
  BY <1>1, AtPlaces
<1>3. IsTable(rows')
  BY <1>1, <1>2 DEF IsTable
<1>4. IsReport(rows', 0, <<>>)
  BY DEF IsReport
<1>5. 0 \in 0..Len(rows')
  BY <1>1, <1>2
<1> QED BY <1>1, <1>3, <1>4, <1>5 DEF ReportInv, IsWhole

\* One more row is scanned.
LEMMA ScanKeeps ==
    ASSUME ReportInv, Scan
    PROVE  ReportInv'
<1>1. /\ rows # Nothing /\ at < Len(rows) /\ records' = records \o Questions(rows[at + 1])
      /\ at' = at + 1 /\ UNCHANGED <<table, rows, output>>
  BY DEF Scan
<1>2. IsTable(rows) /\ at \in 0..Len(rows) /\ IsReport(rows, at, records)
  BY <1>1 DEF ReportInv
<1>3. IsReport(rows, at + 1, records')
  BY <1>1, <1>2, ReportGoesOn
<1>4. at + 1 \in 0..Len(rows)
  BY <1>1, <1>2
<1> QED BY <1>1, <1>2, <1>3, <1>4 DEF ReportInv, IsWhole

\* What is written is about all rows that were read.
LEMMA WriteKeeps ==
    ASSUME ReportInv, Write
    PROVE  ReportInv'
<1>1. /\ rows # Nothing /\ at = Len(rows) /\ output' = [rows |-> rows, records |-> records]
      /\ rows' = Nothing /\ UNCHANGED table
  BY DEF Write
<1>2. IsTable(rows) /\ IsReport(rows, Len(rows), records)
  BY <1>1 DEF ReportInv
<1>3. output'.rows = rows /\ output'.records = records
      /\ output' \in [rows : Seq(CallRows), records : Seq(Records)]
  BY <1>1, <1>2 DEF IsTable, IsReport
<1> QED BY <1>1, <1>2, <1>3 DEF ReportInv, IsWhole

\* Whatever ends while a report is made, its records are the questions of the
\* rows it has scanned, and the file is about rows that were all scanned.
THEOREM ReportInvariant == Spec => []ReportInv
<1>1. Init => ReportInv
  BY DEF Init, ReportInv, IsTable, IsWhole
<1>2. ReportInv /\ [Next]_vars => ReportInv'
  <2> SUFFICES ASSUME ReportInv, [Next]_vars PROVE ReportInv'
    OBVIOUS
  <2>1. CASE \E c \in Calls, transcript \in Transcripts : Call(c, transcript)
    BY <2>1, CallKeeps
  <2>2. CASE Abort
    BY <2>2 DEF Abort, ReportInv, IsWhole
  <2>3. CASE UNCHANGED vars
    BY <2>3 DEF vars, ReportInv, IsWhole
  <2>4. CASE Truncate
    BY <2>4 DEF Truncate, ReportInv, IsWhole
  <2> QED BY <2>1, <2>2, <2>3, <2>4, ReadKeeps, ScanKeeps, WriteKeeps DEF Next
<1> QED BY <1>1, <1>2, PTL DEF Spec

-----------------------------------------------------------------------------
(* The properties of the file                                              *)

\* What stands in a row is a transcript.
LEMMA RowTranscript ==
    ASSUME NEW t, IsTable(t), NEW i \in DOMAIN t
    PROVE  t[i].transcript \in Transcripts
<1>1. t[i] \in CallRows
  BY DEF IsTable
<1> QED BY <1>1 DEF CallRows

\* The record of a question is in the file, about a row of the file.
LEMMA ReportedOrigin ==
    ASSUME ReportInv, NEW r \in Reported
    PROVE  /\ IsWhole
           /\ IsTable(output.rows)
           /\ \E i \in DOMAIN output.rows : IsRecordOf(r, output.rows[i])
<1>1. IsWhole
  BY DEF Reported
<1>2. PICK k \in DOMAIN output.records : r = output.records[k]
  BY <1>1 DEF Reported
<1>3. IsTable(output.rows) /\ IsReport(output.rows, Len(output.rows), output.records)
  BY <1>1 DEF ReportInv
<1>4. PICK i \in 1..Len(output.rows) : IsRecordOf(r, output.rows[i])
  BY <1>2, <1>3 DEF IsReport
<1>5. i \in DOMAIN output.rows
  BY <1>3 DEF IsTable
<1> QED BY <1>1, <1>3, <1>4, <1>5

\* A whole report counts every question of every transcript it scanned, once,
\* whatever calls end meanwhile and whatever an earlier one left in the file: the
\* records are made of the rows that were read.
THEOREM QuestionsOnce == Spec => []EveryQuestionOnce
<1>1. ReportInv => EveryQuestionOnce
  <2> SUFFICES ASSUME ReportInv, IsWhole PROVE EveryQuestionOnce
    BY DEF EveryQuestionOnce
  <2> DEFINE asked == {<<output.rows[i].call, l>> : i \in DOMAIN output.rows, l \in 1..MaxLines}
             isQuestion(x) == \E i \in DOMAIN output.rows :
                                 /\ output.rows[i].call = x[1]
                                 /\ x[2] \in DOMAIN output.rows[i].transcript
                                 /\ output.rows[i].transcript[x[2]].asks
             found == {<<r.call, r.line>> : r \in Reported}
  <2>1. IsTable(output.rows) /\ IsReport(output.rows, Len(output.rows), output.records)
    BY DEF ReportInv
  <2>2. DOMAIN output.rows = 1..Len(output.rows)
    BY <2>1 DEF IsTable
  <2>3. \A i \in DOMAIN output.rows : DOMAIN output.rows[i].transcript \in SUBSET (1..MaxLines)
    <3> SUFFICES ASSUME NEW i \in DOMAIN output.rows
                 PROVE  DOMAIN output.rows[i].transcript \in SUBSET (1..MaxLines)
      OBVIOUS
    <3>1. output.rows[i].transcript \in Transcripts
      BY <2>1, RowTranscript
    <3>2. PICK n \in 0..MaxLines : output.rows[i].transcript \in [1..n -> Lines]
      BY <3>1 DEF Transcripts
    <3>3. MaxLines \in Nat
      BY InventoryAssumption
    <3> QED BY <3>2, <3>3
  <2>4. ASSUME NEW x \in found PROVE x \in asked /\ isQuestion(x)
    <3>1. PICK r \in Reported : x = <<r.call, r.line>>
      OBVIOUS
    <3>2. PICK i \in DOMAIN output.rows : IsRecordOf(r, output.rows[i])
      BY ReportedOrigin
    <3>3. /\ x = <<output.rows[i].call, r.line>> /\ r.line \in 1..MaxLines
          /\ r.line \in DOMAIN output.rows[i].transcript /\ output.rows[i].transcript[r.line].asks
      BY <2>3, <3>1, <3>2 DEF IsRecordOf
    <3> QED BY <3>3
  <2>5. ASSUME NEW x \in asked, isQuestion(x) PROVE x \in found
    <3>1. PICK i0 \in DOMAIN output.rows, l0 \in 1..MaxLines : x = <<output.rows[i0].call, l0>>
      OBVIOUS
    <3>2. PICK i \in DOMAIN output.rows : /\ output.rows[i].call = x[1]
                                          /\ x[2] \in DOMAIN output.rows[i].transcript
                                          /\ output.rows[i].transcript[x[2]].asks
      BY <2>5
    <3>3. PICK k \in DOMAIN output.records :
             output.records[k].call = output.rows[i].call /\ output.records[k].line = x[2]
      BY <2>1, <2>2, <3>2 DEF IsReport
    <3>4. output.records[k] \in Reported
      BY DEF Reported
    <3>5. x = <<output.records[k].call, output.records[k].line>>
      BY <3>1, <3>2, <3>3
    <3> QED BY <3>4, <3>5
  <2>6. found = {x \in asked : isQuestion(x)}
    <3> HIDE DEF asked, isQuestion, found
    <3> QED BY <2>4, <2>5
  <2>7. \A j, k \in DOMAIN output.records :
           output.records[j].call = output.records[k].call
              /\ output.records[j].line = output.records[k].line => j = k
    BY <2>1 DEF IsReport
  <2> QED BY <2>6, <2>7 DEF EveryQuestionOnce
<1> QED BY <1>1, ReportInvariant, PTL

\* What is counted as the question of a carrier was said in the turn of a carrier:
\* it stands in a line with their own label, which begins the turn.
THEOREM AskedByCarriers == Spec => []CarriersAskedThem
<1>1. ReportInv => CarriersAskedThem
  <2> SUFFICES ASSUME ReportInv, NEW r \in Reported, r.kind = "carrier_question"
               PROVE  \E i \in DOMAIN output.rows :
                         /\ output.rows[i].call = r.call
                         /\ Speaker(output.rows[i].transcript, r.line) \in {"carrier", "caller"}
    BY DEF CarriersAskedThem
  <2>1. PICK i \in DOMAIN output.rows : IsRecordOf(r, output.rows[i])
    BY ReportedOrigin
  <2> DEFINE text == output.rows[i].transcript
             labelled == {j \in 1..r.line : text[j].label # "none"}
  <2>2. r.call = output.rows[i].call /\ r.line \in DOMAIN text /\ Kind(text[r.line]) = "carrier_question"
    BY <2>1 DEF IsRecordOf
  <2>3. r.line \in Nat \ {0}
    <3>1. text \in Transcripts
      BY ReportedOrigin, RowTranscript
    <3>2. PICK n \in 0..MaxLines : text \in [1..n -> Lines]
      BY <3>1 DEF Transcripts
    <3>3. MaxLines \in Nat
      BY InventoryAssumption
    <3> QED BY <2>2, <3>2, <3>3
  <2>4. text[r.line].label \in {"carrier", "caller"}
    BY <2>2 DEF Kind
  <2> HIDE DEF text
  <2>5. r.line \in labelled /\ \A j \in labelled : j \in Nat /\ j <= r.line
    BY <2>3, <2>4
  <2>6. (CHOOSE j \in labelled : \A k \in labelled : k <= j) = r.line
    <3> HIDE DEF labelled
    <3>1. PICK c : c = CHOOSE j \in labelled : \A k \in labelled : k <= j
      OBVIOUS
    <3>2. c \in labelled /\ \A k \in labelled : k <= c
      BY <2>5, <3>1
    <3>3. c <= r.line /\ r.line <= c /\ c \in Nat
      BY <2>5, <3>2
    <3> QED BY <2>3, <3>1, <3>3
  <2>7. Speaker(text, r.line) = text[r.line].label
    BY <2>5, <2>6 DEF Speaker
  <2> QED BY <2>2, <2>4, <2>7 DEF text
<1> QED BY <1>1, ReportInvariant, PTL

\* Names of identifiers are terms of the last category alone: they bring a line
\* into no category before one that its wording has.
LEMMA NamesComeLast ==
    ASSUME NEW line \in Lines, NEW i \in DOMAIN Categories,
           Decides(i, line.said \cup line.lost)
    PROVE  /\ Classify(Redact(line)) \in
                 {"unclassified"} \cup {Categories[j].name : j \in i..Len(Categories)}
           /\ Categories[i].terms \cap line.said # {} =>
                 Classify(Redact(line)) = Categories[i].name
<1> DEFINE fits == {j \in DOMAIN Categories : Categories[j].terms \cap Redact(line) # {}}
<1>1. line.ids \in SUBSET Identifiers
  BY InventoryAssumption DEF LineType
<1>2. DOMAIN Categories = 1..Len(Categories) /\ Len(Categories) \in Nat
  BY InventoryAssumption
<1>3. ASSUME NEW j \in fits PROVE j \in i..Len(Categories)
  <2>1. j \in 1..Len(Categories) /\ i \in 1..Len(Categories)
    BY <1>2
  <2>2. ASSUME j < i PROVE FALSE
    <3>1. j \in 1..(i - 1)
      BY <2>1, <2>2
    <3>2. Categories[j].terms \cap line.said = {}
      BY <3>1 DEF Decides
    <3>3. Categories[j].terms \cap Identifiers # {}
      BY <1>1, <3>2 DEF Redact
    <3>4. j = Len(Categories)
      BY <3>3, InventoryAssumption
    <3> QED BY <1>2, <2>1, <2>2, <3>4
  <2> QED BY <1>2, <2>1, <2>2
<1>4. CASE fits = {}
  <2>1. Classify(Redact(line)) = "unclassified"
    BY <1>4 DEF Classify
  <2>2. Categories[i].terms \cap line.said = {}
    BY <1>4 DEF Redact
  <2> QED BY <2>1, <2>2
<1>5. CASE fits # {}
  <2>1. PICK j \in fits : (\A k \in fits : j <= k) /\ Classify(Redact(line)) = Categories[j].name
    <3> DEFINE terms == Redact(line)
    <3>1. fits = {k \in DOMAIN Categories : Categories[k].terms \cap terms # {}}
      OBVIOUS
    <3> HIDE DEF fits, terms
    <3>2. \E k \in fits : (\A m \in fits : k <= m) /\ Classify(terms) = Categories[k].name
      BY <1>5, <3>1, FirstFit
    <3> QED BY <3>2 DEF terms
  <2>2. j \in i..Len(Categories)
    BY <1>3
  <2>3. ASSUME Categories[i].terms \cap line.said # {} PROVE j = i
    <3>1. i \in fits
      BY <2>3 DEF Redact
    <3>2. j <= i /\ i <= j /\ i \in Nat /\ j \in Nat
      BY <1>2, <2>1, <2>2, <3>1
    <3> QED BY <3>2
  <2> QED BY <2>1, <2>2, <2>3
<1> QED BY <1>4, <1>5

\* Redaction moves no question before the category of its own wording, nor out of
\* it while a term that speaks for it is left.
THEOREM WordingDecides == Spec => []WordingGoesFirst
<1>1. ReportInv => WordingGoesFirst
  <2> SUFFICES ASSUME ReportInv, NEW r \in Reported, NEW d \in DOMAIN Categories,
                      Decides(d, Origin(r).said \cup Origin(r).lost)
               PROVE  /\ r.category \in
                            {"unclassified"} \cup {Categories[j].name : j \in d..Len(Categories)}
                      /\ Categories[d].terms \cap Origin(r).said # {} =>
                            r.category = Categories[d].name
    BY DEF WordingGoesFirst
  <2> DEFINE all == {output.rows[i] : i \in DOMAIN output.rows}
  <2>1. PICK i \in DOMAIN output.rows : IsRecordOf(r, output.rows[i])
    BY ReportedOrigin
  <2>2. output.rows[i] \in all /\ output.rows[i].call = r.call
    BY <2>1 DEF IsRecordOf
  <2>3. \A row \in all : row.call = r.call => row = output.rows[i]
    BY <2>2, ReportedOrigin DEF IsTable
  <2>4. (CHOOSE row \in all : row.call = r.call) = output.rows[i]
    <3> HIDE DEF all
    <3> QED BY <2>2, <2>3
  <2> DEFINE line == output.rows[i].transcript[r.line]
  <2>5. Origin(r) = line
    BY <2>4 DEF Origin
  <2>6. line \in Lines
    <3>1. output.rows[i].transcript \in Transcripts
      BY ReportedOrigin, RowTranscript
    <3> QED BY <2>1, <3>1 DEF IsRecordOf, Transcripts
  <2>7. r.category = Classify(Redact(line))
    BY <2>1 DEF IsRecordOf
  <2> HIDE DEF line
  <2> QED BY <2>5, <2>6, <2>7, NamesComeLast
<1> QED BY <1>1, ReportInvariant, PTL

=============================================================================
