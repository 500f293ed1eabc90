-------------------------- MODULE IngestWriterProofs --------------------------
(***************************************************************************)
(* Proofs about IngestWriter for any number of writers, registries, native *)
(* ids, texts and captures.  The argument is in layers.  Types and the     *)
(* position of every writer (TypeInv) are inductive by themselves.  Given  *)
(* them, locks, uncommitted writes and links (LinkInv) are inductive, and  *)
(* what a search may show follows.  CaptureInv follows each writer through *)
(* its own capture, and with it what a commit may change.  SerialInv, for  *)
(* transactions that do not disturb each other, is behind the refinement.  *)
(***************************************************************************)
EXTENDS IngestWriter, PlacesProofs, TLAPS

TypeInv == TypeOK /\ JobsAreRunning /\ SweepsReachRows
LinkInv == RowsAreLocked /\ WritesAreConfined /\ LinksFollowSources

-----------------------------------------------------------------------------
(* Types                                                                   *)

\* A writer that stands at a record stands at well-typed arguments.
LEMMA AtRecord ==
    ASSUME TypeOK, JobsAreRunning, NEW w \in Writers,
           pc[w] \in {"source", "document", "relink"}
    PROVE  /\ job[w] \in Jobs
           /\ pos[w] \in DOMAIN job[w].records
           /\ Record(w) \in Records
           /\ Key(w) \in SourceKeys
           /\ Document(w) \in DocumentKeys
<1>1. job[w] \in Jobs /\ pos[w] \in DOMAIN job[w].records
  BY DEF JobsAreRunning, JobIsRunning
<1>2. job[w].records \in Seq(Records)
  BY <1>1, CapturesAssumption DEF Jobs
<1>3. Record(w) \in Records
  BY <1>1, <1>2 DEF Record
<1> QED
  BY <1>1, <1>3 DEF Jobs, Records, Key, Document, SourceKeys, DocumentKeys

\* The views of a statement are tables.
LEMMA ViewTypes ==
    ASSUME TypeOK, NEW w \in Writers
    PROVE  /\ SourceView(w) \in SourceTable
           /\ DocumentView(w) \in DocumentTable
           /\ LinkView(w) \in LinkTable
BY DEF TypeOK, SourceView, DocumentView, LinkView, SourceTable, DocumentTable, LinkTable

\* Empty tables are tables.
LEMMA EmptyTables ==
    NoSources \in SourceTable /\ NoDocuments \in DocumentTable /\ NoLinks \in LinkTable
BY DEF NoSources, NoDocuments, NoLinks, SourceTable, DocumentTable, LinkTable, DocumentStates

\* A row that is written for a record is a row, and its home is the document
\* of that record.
LEMMA HomeOfRow ==
    ASSUME NEW c \in Corpora, NEW b \in Bodies, NEW a \in BOOLEAN
    PROVE  LET row == [corpus |-> c, body |-> b, active |-> a]
           IN row \in SourceRows /\ row # NoRow /\ Home(row) = {<<c, b>>}
BY NoRowAssumption DEF SourceRows, Home

\* The types and positions hold when no process has started.
LEMMA TypesInitially == Init => TypeInv
<1> SUFFICES ASSUME Init PROVE TypeInv
  OBVIOUS
<1>1. TypeOK
  BY EmptyTables DEF Init, TypeOK, Statements
<1>2. JobsAreRunning /\ SweepsReachRows
  BY DEF Init, JobsAreRunning, JobIsRunning, SweepsReachRows
<1> QED
  BY <1>1, <1>2 DEF TypeInv

\* A writer leaving its transaction leaves well-typed variables behind.
LEMMA DiscardTypes ==
    ASSUME TypeOK, NEW w \in Writers, Discard(w)
    PROVE  /\ pos' \in [Writers -> Nat \ {0}]
           /\ wsource' \in [Writers -> SourceTable]
           /\ wdocument' \in [Writers -> DocumentTable]
           /\ wlink' \in [Writers -> LinkTable]
           /\ staleS' \in [Writers -> SUBSET SourceKeys]
           /\ staleD' \in [Writers -> SUBSET DocumentKeys]
BY EmptyTables DEF TypeOK, Discard

\* Recording how a run ended keeps the audit rows well-typed.
LEMMA FinishTypes ==
    ASSUME TypeOK, JobsAreRunning, NEW w \in Writers, pc[w] # "idle",
           NEW status \in {"running", "succeeded", "failed"}
    PROVE  /\ job[w].run \in 1..Len(runs)
           /\ [runs EXCEPT ![job[w].run] = status] \in Seq({"running", "succeeded", "failed"})
<1>1. runs \in Seq({"running", "succeeded", "failed"})
  BY DEF TypeOK
<1>2. job[w].run \in 1..Len(runs)
  BY <1>1 DEF JobsAreRunning, JobIsRunning
<1> QED
  BY <1>1, <1>2, ExceptSeq

\* Every step preserves the types.
LEMMA TypeOKStep == TypeInv /\ [Next]_vars => TypeOK'
<1> SUFFICES ASSUME TypeInv, [Next]_vars PROVE TypeOK'
  OBVIOUS
<1> TypeOK /\ JobsAreRunning /\ SweepsReachRows
  BY DEF TypeInv
<1>1. ASSUME NEW w \in Writers, NEW def \in Definitions, NEW records \in Captures,
             StartRun(w, def, records)
      PROVE  TypeOK'
  <2>1. job' \in [Writers -> Jobs \cup {NoJob}]
    <3>1. [run |-> Len(runs) + 1, registry |-> def.registry,
           corpus |-> def.corpus, records |-> records] \in Jobs
      BY DefinitionsAssumption DEF TypeOK, Jobs
    <3> QED BY <1>1, <3>1 DEF StartRun, TypeOK
  <2>2. runs' \in Seq({"running", "succeeded", "failed"})
    BY <1>1 DEF StartRun, TypeOK
  <2>3. pc' \in [Writers -> Statements] /\ pos' \in [Writers -> Nat \ {0}]
    BY <1>1 DEF StartRun, Goto, Statements, TypeOK
  <2> QED BY <1>1, <2>1, <2>2, <2>3 DEF StartRun, store, written, sweep, TypeOK
<1>2. ASSUME NEW w \in Writers, UpsertSource(w) PROVE TypeOK'
  <2>1. /\ job[w].corpus \in Corpora /\ Record(w).body \in Bodies
        /\ [corpus |-> job[w].corpus, body |-> Record(w).body, active |-> TRUE] \in SourceRows
    BY <1>2, AtRecord DEF UpsertSource, Jobs, Records, SourceRows
  <2>2. wsource' \in [Writers -> SourceTable]
    BY <1>2, <2>1 DEF UpsertSource, TypeOK, SourceTable
  <2>3. pc' \in [Writers -> Statements]
    BY <1>2 DEF UpsertSource, Goto, Statements, TypeOK
  <2> QED BY <1>2, <2>2, <2>3 DEF UpsertSource, store, sweep, TypeOK
<1>3. ASSUME NEW w \in Writers, UpsertDocument(w) PROVE TypeOK'
  <2>1. wdocument' \in [Writers -> DocumentTable]
    BY <1>3 DEF UpsertDocument, TypeOK, DocumentTable, DocumentStates
  <2>2. pc' \in [Writers -> Statements]
    BY <1>3 DEF UpsertDocument, Goto, Statements, TypeOK
  <2> QED BY <1>3, <2>1, <2>2 DEF UpsertDocument, store, sweep, TypeOK
<1>4. ASSUME NEW w \in Writers, Relink(w) PROVE TypeOK'
  <2>1. wlink' \in [Writers -> LinkTable]
    BY <1>4, AtRecord DEF Relink, TypeOK, LinkTable
  <2>2. pos' \in [Writers -> Nat \ {0}]
    BY <1>4 DEF Relink, TypeOK
  <2>3. pc' \in [Writers -> Statements]
    BY <1>4 DEF Relink, Goto, Statements, TypeOK
  <2> QED BY <1>4, <2>1, <2>2, <2>3 DEF Relink, store, sweep, TypeOK
<1>5. ASSUME NEW w \in Writers, ScanSources(w) PROVE TypeOK'
  BY <1>5 DEF ScanSources, Goto, store, written, TypeOK, Statements
<1>6. ASSUME NEW w \in Writers, NEW s \in SourceKeys, RetireSource(w, s) PROVE TypeOK'
  <2>1. [SourceView(w)[s] EXCEPT !.active = FALSE] \in SourceRows
    <3>1. SourceView(w)[s] \in SourceRows
      BY <1>6, ViewTypes DEF RetireSource, SweepsReachRows, SourceTable
    <3> QED BY <3>1 DEF SourceRows
  <2>2. wsource' \in [Writers -> SourceTable]
    BY <1>6, <2>1 DEF RetireSource, TypeOK, SourceTable
  <2>3. staleS' \in [Writers -> SUBSET SourceKeys]
    BY <1>6 DEF RetireSource, TypeOK
  <2> QED BY <1>6, <2>2, <2>3 DEF RetireSource, store, TypeOK
<1>7. ASSUME NEW w \in Writers, ScanDocuments(w) PROVE TypeOK'
  BY <1>7 DEF ScanDocuments, Goto, store, written, TypeOK, Statements
<1>8. ASSUME NEW w \in Writers, NEW d \in DocumentKeys, RetireDocument(w, d) PROVE TypeOK'
  <2>1. wdocument' \in [Writers -> DocumentTable]
    BY <1>8 DEF RetireDocument, TypeOK, DocumentTable, DocumentStates
  <2> QED BY <1>8, <2>1 DEF RetireDocument, store, TypeOK
<1>9. ASSUME NEW w \in Writers, Commit(w) PROVE TypeOK'
  <2>1. sources' \in SourceTable /\ documents' \in DocumentTable /\ links' \in LinkTable
    BY <1>9, ViewTypes DEF Commit
  <2>2. runs' \in Seq({"running", "succeeded", "failed"})
    <3>1. pc[w] # "idle" BY <1>9 DEF Commit
    <3> QED BY <1>9, <3>1, FinishTypes DEF Commit
  <2>3. pc' \in [Writers -> Statements] /\ job' \in [Writers -> Jobs \cup {NoJob}]
    BY <1>9 DEF Commit, Close, Goto, Statements, TypeOK
  <2> QED BY <1>9, <2>1, <2>2, <2>3, DiscardTypes DEF Commit, TypeOK
<1>10. ASSUME NEW w \in Writers, Rollback(w) PROVE TypeOK'
  <2>1. pc' \in [Writers -> Statements]
    BY <1>10 DEF Rollback, Goto, Statements, TypeOK
  <2> QED BY <1>10, <2>1, DiscardTypes DEF Rollback, store, TypeOK
<1>11. ASSUME NEW w \in Writers, RecordFailure(w) PROVE TypeOK'
  <2>1. runs' \in Seq({"running", "succeeded", "failed"})
    <3>1. pc[w] # "idle" BY <1>11 DEF RecordFailure
    <3> QED BY <1>11, <3>1, FinishTypes DEF RecordFailure
  <2>2. pc' \in [Writers -> Statements] /\ job' \in [Writers -> Jobs \cup {NoJob}]
    BY <1>11 DEF RecordFailure, Close, Goto, Statements, TypeOK
  <2> QED BY <1>11, <2>1, <2>2, DiscardTypes DEF RecordFailure, store, TypeOK
<1>12. ASSUME NEW w \in Writers, Crash(w) PROVE TypeOK'
  <2>1. pc' \in [Writers -> Statements] /\ job' \in [Writers -> Jobs \cup {NoJob}]
    BY <1>12 DEF Crash, Close, Goto, Statements, TypeOK
  <2> QED BY <1>12, <2>1, DiscardTypes DEF Crash, store, TypeOK
<1>13. CASE UNCHANGED vars
  BY <1>13 DEF vars, store, written, sweep, TypeOK
<1> QED
  BY <1>1, <1>2, <1>3, <1>4, <1>5, <1>6, <1>7, <1>8, <1>9, <1>10, <1>11, <1>12, <1>13
  DEF Next, Work, StatementError, DeadlockVictim

\* A writer that takes no step keeps its job as long as its run is not touched.
LEMMA JobOfBystander ==
    ASSUME NEW v \in Writers, JobIsRunning(v),
           pc'[v] = pc[v], job'[v] = job[v], pos'[v] = pos[v], wsource'[v] = wsource[v],
           pc[v] # "idle" =>
               job[v].run \in DOMAIN runs' /\ runs'[job[v].run] = runs[job[v].run]
    PROVE  JobIsRunning(v)'
BY DEF JobIsRunning, Key, Record, Document

\* Every step preserves what JobsAreRunning says of runs and positions.
LEMMA JobsStep == TypeInv /\ [Next]_vars => JobsAreRunning'
<1> SUFFICES ASSUME TypeInv, [Next]_vars PROVE JobsAreRunning'
  OBVIOUS
<1> TypeOK /\ JobsAreRunning /\ SweepsReachRows
  BY DEF TypeInv
<1> USE DEF TypeOK
\* A step of w that does not finish its run and starts none: it remains to
\* look at the writer itself.
<1>a. ASSUME NEW w \in Writers, JobIsRunning(w)',
             runs' = runs, job' = job, pc[w] # "idle",
             \A v \in Writers \ {w} :
                 pc'[v] = pc[v] /\ pos'[v] = pos[v] /\ wsource'[v] = wsource[v]
      PROVE  JobsAreRunning'
  <2>1. \A v \in Writers : JobIsRunning(v)'
    BY <1>a, JobOfBystander DEF JobsAreRunning, JobIsRunning
  <2> QED BY <1>a, <2>1 DEF JobsAreRunning
\* A step that ends the work of w, whatever becomes of its run.
<1>b. ASSUME NEW w \in Writers, NEW status \in {"running", "succeeded", "failed"},
             pc[w] # "idle", Close(w), Discard(w),
             runs' = [runs EXCEPT ![job[w].run] = status]
      PROVE  JobsAreRunning'
  <2>1. pc'[w] = "idle" /\ \A v \in Writers \ {w} :
            pc'[v] = pc[v] /\ job'[v] = job[v] /\ pos'[v] = pos[v] /\ wsource'[v] = wsource[v]
    BY <1>b DEF Close, Goto, Discard
  <2>2. \A v \in Writers \ {w} : pc[v] # "idle" =>
            job[v].run \in DOMAIN runs' /\ runs'[job[v].run] = runs[job[v].run]
    BY <1>b DEF JobsAreRunning, JobIsRunning
  <2>3. \A v \in Writers : JobIsRunning(v)'
    <3> SUFFICES ASSUME NEW v \in Writers PROVE JobIsRunning(v)'
      OBVIOUS
    <3>1. CASE v = w BY <2>1, <3>1 DEF JobIsRunning
    <3>2. CASE v # w BY <2>1, <2>2, <3>2, JobOfBystander DEF JobsAreRunning
    <3> QED BY <3>1, <3>2
  <2> QED BY <2>1, <2>3, ZenonT(60) DEF JobsAreRunning
<1>1. ASSUME NEW w \in Writers, NEW def \in Definitions, NEW records \in Captures,
             StartRun(w, def, records)
      PROVE  JobsAreRunning'
  <2>1. /\ Len(runs') = Len(runs) + 1
        /\ runs'[Len(runs) + 1] = "running"
        /\ \A i \in DOMAIN runs : i \in DOMAIN runs' /\ runs'[i] = runs[i] /\ i # Len(runs) + 1
        /\ Len(runs) + 1 \in DOMAIN runs'
    BY <1>1 DEF StartRun
  <2>2. /\ job'[w].run = Len(runs) + 1
        /\ \A v \in Writers \ {w} : pc'[v] = pc[v] /\ job'[v] = job[v] /\ pos'[v] = pos[v]
        /\ wsource' = wsource
    BY <1>1 DEF StartRun, Goto, written
  <2>3. JobIsRunning(w)'
    <3>1. job'[w] \in Jobs /\ job'[w].records = records
      BY <1>1, DefinitionsAssumption DEF StartRun, Jobs
    <3>2. records # <<>> => 1 \in DOMAIN records
      BY CapturesAssumption, EmptySeq
    <3>3. pc'[w] = (IF records = <<>> THEN "finish" ELSE "source") /\ pos'[w] = 1
      BY <1>1 DEF StartRun, Goto
    <3> QED BY <2>1, <2>2, <3>1, <3>2, <3>3 DEF JobIsRunning
  <2>4. \A v \in Writers : JobIsRunning(v)'
    BY <2>1, <2>2, <2>3, JobOfBystander DEF JobsAreRunning, JobIsRunning
  <2>5. \A v \in Writers \ {w} : pc[v] # "idle" => job[v].run # Len(runs) + 1
    BY <2>1 DEF JobsAreRunning, JobIsRunning
  <2> QED BY <2>2, <2>4, <2>5, ZenonT(60) DEF JobsAreRunning
<1>2. ASSUME NEW w \in Writers, UpsertSource(w) PROVE JobsAreRunning'
  <2>1. /\ pc' = [pc EXCEPT ![w] = "document"] /\ job' = job /\ pos' = pos /\ runs' = runs
        /\ \A v \in Writers \ {w} : wsource'[v] = wsource[v]
        /\ wsource'[w][Key(w)] =
               [corpus |-> job[w].corpus, body |-> Record(w).body, active |-> TRUE]
        /\ pc[w] = "source"
    BY <1>2, AtRecord DEF UpsertSource, Goto, SourceTable
  <2>2. Home(wsource'[w][Key(w)]) = {Document(w)}
    BY <2>1, AtRecord, HomeOfRow, ZenonT(60) DEF Jobs, Records, Document
  <2>3. JobIsRunning(w)'
    BY <2>1, <2>2 DEF JobsAreRunning, JobIsRunning, Key, Record, Document
  <2> QED BY <1>a, <2>1, <2>3
<1>3. ASSUME NEW w \in Writers, UpsertDocument(w) PROVE JobsAreRunning'
  <2>1. /\ pc' = [pc EXCEPT ![w] = "relink"] /\ job' = job /\ pos' = pos /\ runs' = runs
        /\ wsource' = wsource /\ pc[w] = "document"
    BY <1>3 DEF UpsertDocument, Goto
  <2>2. JobIsRunning(w)'
    BY <2>1 DEF JobsAreRunning, JobIsRunning, Key, Record, Document
  <2> QED BY <1>a, <2>1, <2>2
<1>4. ASSUME NEW w \in Writers, Relink(w) PROVE JobsAreRunning'
  <2>1. /\ job' = job /\ runs' = runs /\ wsource' = wsource /\ pc[w] = "relink"
        /\ \A v \in Writers \ {w} : pc'[v] = pc[v] /\ pos'[v] = pos[v]
    BY <1>4 DEF Relink, Goto
  <2>2. pos[w] \in DOMAIN job[w].records /\ job[w].records \in Seq(Records)
    BY <2>1, AtRecord, CapturesAssumption DEF Jobs
  <2>3. \/ pc'[w] = "source" /\ pos'[w] \in DOMAIN job[w].records
        \/ pc'[w] = "scan_sources"
    BY <1>4, <2>2 DEF Relink, Goto
  <2>4. JobIsRunning(w)'
    BY <2>1, <2>3 DEF JobsAreRunning, JobIsRunning
  <2> QED BY <1>a, <2>1, <2>4
<1>5. ASSUME NEW w \in Writers, ScanSources(w) PROVE JobsAreRunning'
  <2>1. /\ pc' = [pc EXCEPT ![w] = "retire_sources"] /\ job' = job /\ pos' = pos
        /\ runs' = runs /\ wsource' = wsource /\ pc[w] # "idle"
    BY <1>5 DEF ScanSources, Goto, written
  <2>2. JobIsRunning(w)'
    BY <2>1 DEF JobsAreRunning, JobIsRunning
  <2> QED BY <1>a, <2>1, <2>2
<1>6. ASSUME NEW w \in Writers, NEW s \in SourceKeys, RetireSource(w, s) PROVE JobsAreRunning'
  <2>1. /\ pc' = pc /\ job' = job /\ pos' = pos /\ runs' = runs
        /\ \A v \in Writers \ {w} : wsource'[v] = wsource[v]
        /\ pc[w] = "retire_sources"
    BY <1>6 DEF RetireSource
  <2>2. JobIsRunning(w)'
    BY <2>1 DEF JobsAreRunning, JobIsRunning
  <2> QED BY <1>a, <2>1, <2>2
<1>7. ASSUME NEW w \in Writers, ScanDocuments(w) PROVE JobsAreRunning'
  <2>1. /\ pc' = [pc EXCEPT ![w] = "retire_documents"] /\ job' = job /\ pos' = pos
        /\ runs' = runs /\ wsource' = wsource /\ pc[w] # "idle"
    BY <1>7 DEF ScanDocuments, Goto, written
  <2>2. JobIsRunning(w)'
    BY <2>1 DEF JobsAreRunning, JobIsRunning
  <2> QED BY <1>a, <2>1, <2>2
<1>8. ASSUME NEW w \in Writers, NEW d \in DocumentKeys, RetireDocument(w, d) PROVE JobsAreRunning'
  <2>1. /\ pc' = pc /\ job' = job /\ pos' = pos /\ runs' = runs /\ wsource' = wsource
        /\ pc[w] = "retire_documents"
    BY <1>8 DEF RetireDocument
  <2>2. JobIsRunning(w)'
    BY <2>1 DEF JobsAreRunning, JobIsRunning
  <2> QED BY <1>a, <2>1, <2>2
<1>9. ASSUME NEW w \in Writers, Commit(w) PROVE JobsAreRunning'
  BY <1>9, <1>b DEF Commit
<1>10. ASSUME NEW w \in Writers, Rollback(w), InTransaction(w) PROVE JobsAreRunning'
  <2>1. /\ pc' = [pc EXCEPT ![w] = "failed"] /\ job' = job /\ runs' = runs /\ pc[w] # "idle"
        /\ \A v \in Writers \ {w} : pos'[v] = pos[v] /\ wsource'[v] = wsource[v]
    BY <1>10 DEF Rollback, InTransaction, Goto, Discard
  <2>2. JobIsRunning(w)'
    BY <2>1 DEF JobsAreRunning, JobIsRunning
  <2> QED BY <1>a, <2>1, <2>2
<1>11. ASSUME NEW w \in Writers, RecordFailure(w) PROVE JobsAreRunning'
  BY <1>11, <1>b DEF RecordFailure
<1>12. ASSUME NEW w \in Writers, Crash(w) PROVE JobsAreRunning'
  <2>1. runs' = [runs EXCEPT ![job[w].run] = "running"]
    BY <1>12 DEF Crash, JobsAreRunning, JobIsRunning
  <2> QED BY <1>12, <1>b, <2>1 DEF Crash
<1>13. CASE UNCHANGED vars
  BY <1>13 DEF vars, store, written, JobsAreRunning, JobIsRunning, Key, Record, Document
<1> QED
  BY <1>1, <1>2, <1>3, <1>4, <1>5, <1>6, <1>7, <1>8, <1>9, <1>10, <1>11, <1>12, <1>13
  DEF Next, Work, StatementError, DeadlockVictim

\* The row that an upsert writes, and the row that the sweep writes, are rows.
LEMMA UpsertedRow ==
    ASSUME TypeInv, NEW w \in Writers, UpsertSource(w)
    PROVE  /\ Key(w) \in SourceKeys
           /\ wsource'[w] = [wsource[w] EXCEPT ![Key(w)] =
                  [corpus |-> job[w].corpus, body |-> Record(w).body, active |-> TRUE]]
           /\ wsource'[w][Key(w)] # NoRow
           /\ \A s \in SourceKeys \ {Key(w)} : wsource'[w][s] = wsource[w][s]
<1> TypeOK /\ JobsAreRunning /\ pc[w] = "source"
  BY DEF TypeInv, UpsertSource
<1>1. job[w] \in Jobs /\ Record(w) \in Records /\ Key(w) \in SourceKeys
  BY AtRecord
<1>2. [corpus |-> job[w].corpus, body |-> Record(w).body, active |-> TRUE] # NoRow
  BY <1>1, HomeOfRow DEF Jobs, Records
<1> QED
  BY <1>1, <1>2 DEF UpsertSource, TypeOK, SourceTable

\* The row that the sweep writes exists, and it writes no other.
LEMMA RetiredRow ==
    ASSUME TypeInv, NEW w \in Writers, NEW s \in SourceKeys, RetireSource(w, s)
    PROVE  /\ wsource'[w][s] # NoRow
           /\ SourceView(w)[s] # NoRow
           /\ Home(wsource'[w][s]) = Home(SourceView(w)[s])
           /\ \A t \in SourceKeys \ {s} : wsource'[w][t] = wsource[w][t]
<1> TypeOK /\ SweepsReachRows
  BY DEF TypeInv
<1>1. SourceView(w)[s] \in SourceRows
  BY ViewTypes DEF RetireSource, SweepsReachRows, SourceTable
<1>2. wsource'[w][s] = [SourceView(w)[s] EXCEPT !.active = FALSE]
  BY DEF RetireSource, TypeOK, SourceTable
<1>3. /\ [SourceView(w)[s] EXCEPT !.active = FALSE] \in SourceRows
      /\ [SourceView(w)[s] EXCEPT !.active = FALSE].corpus = SourceView(w)[s].corpus
      /\ [SourceView(w)[s] EXCEPT !.active = FALSE].body = SourceView(w)[s].body
  BY <1>1 DEF SourceRows
<1>4. \A t \in SourceKeys \ {s} : wsource'[w][t] = wsource[w][t]
  BY DEF RetireSource, TypeOK, SourceTable
<1> QED
  BY <1>1, <1>2, <1>3, <1>4, NoRowAssumption DEF Home

\* No step loses a row of `sources', so what a sweep has chosen stays there.
LEMMA SweepStep == TypeInv /\ [Next]_vars => SweepsReachRows'
<1> SUFFICES ASSUME TypeInv, [Next]_vars PROVE SweepsReachRows'
  OBVIOUS
<1> TypeOK /\ JobsAreRunning /\ SweepsReachRows
  BY DEF TypeInv
<1> USE DEF TypeOK
\* It is enough that rows stay, committed or uncommitted, for the writers
\* whose choice is not new.
<1>a. ASSUME \A s \in SourceKeys : sources[s] # NoRow => sources'[s] # NoRow,
             \A v \in Writers :
                \/ staleS'[v] = {}
                \/ /\ staleS'[v] \subseteq staleS[v]
                   /\ \A s \in SourceKeys : wsource[v][s] # NoRow => wsource'[v][s] # NoRow
      PROVE  SweepsReachRows'
  BY <1>a DEF SweepsReachRows, SourceView
<1>b. ASSUME NEW w \in Writers, Discard(w),
             \A s \in SourceKeys : sources[s] # NoRow => sources'[s] # NoRow
      PROVE  SweepsReachRows'
  <2>1. staleS'[w] = {} /\ \A v \in Writers \ {w} :
            staleS'[v] = staleS[v] /\ wsource'[v] = wsource[v]
    BY <1>b DEF Discard
  <2> QED BY <1>a, <1>b, <2>1
<1>1. ASSUME NEW w \in Writers, NEW def \in Definitions, NEW records \in Captures,
             StartRun(w, def, records)
      PROVE  SweepsReachRows'
  BY <1>1, <1>a DEF StartRun, store, written, sweep
<1>2. ASSUME NEW w \in Writers, UpsertSource(w) PROVE SweepsReachRows'
  <2>1. sources' = sources /\ staleS' = staleS
        /\ \A v \in Writers \ {w} : wsource'[v] = wsource[v]
    BY <1>2 DEF UpsertSource, store, sweep
  <2> QED BY <1>2, <1>a, <2>1, UpsertedRow
<1>3. ASSUME NEW w \in Writers, UpsertDocument(w) PROVE SweepsReachRows'
  BY <1>3, <1>a DEF UpsertDocument, store, sweep
<1>4. ASSUME NEW w \in Writers, Relink(w) PROVE SweepsReachRows'
  BY <1>4, <1>a DEF Relink, store, sweep
<1>5. ASSUME NEW w \in Writers, ScanSources(w) PROVE SweepsReachRows'
  <2>1. \A s \in staleS'[w] : IsCurrent(SourceView(w)[s])
    BY <1>5 DEF ScanSources
  <2>2. sources' = sources /\ wsource' = wsource
        /\ \A v \in Writers \ {w} : staleS'[v] = staleS[v]
    BY <1>5 DEF ScanSources, store, written
  <2>3. \A v \in Writers : SourceView(v)' = SourceView(v)
    BY <2>2 DEF SourceView
  <2>4. \A v \in Writers : \A s \in staleS'[v] : SourceView(v)[s] # NoRow
    BY <2>1, <2>2 DEF SweepsReachRows, IsCurrent
  <2> QED BY <2>3, <2>4 DEF SweepsReachRows
<1>6. ASSUME NEW w \in Writers, NEW s \in SourceKeys, RetireSource(w, s) PROVE SweepsReachRows'
  <2>1. sources' = sources /\ staleS'[w] \subseteq staleS[w]
        /\ \A v \in Writers \ {w} : wsource'[v] = wsource[v] /\ staleS'[v] = staleS[v]
    BY <1>6 DEF RetireSource, store
  <2> QED BY <1>6, <1>a, <2>1, RetiredRow, ZenonT(60)
<1>7. ASSUME NEW w \in Writers, ScanDocuments(w) PROVE SweepsReachRows'
  BY <1>7, <1>a DEF ScanDocuments, store, written
<1>8. ASSUME NEW w \in Writers, NEW d \in DocumentKeys, RetireDocument(w, d) PROVE SweepsReachRows'
  BY <1>8, <1>a DEF RetireDocument, store
<1>9. ASSUME NEW w \in Writers, Commit(w) PROVE SweepsReachRows'
  <2>1. \A s \in SourceKeys : sources[s] # NoRow => sources'[s] # NoRow
    BY <1>9 DEF Commit, SourceView
  <2> QED BY <1>9, <1>b, <2>1 DEF Commit
<1>10. ASSUME NEW w \in Writers, Rollback(w) PROVE SweepsReachRows'
  BY <1>10, <1>b DEF Rollback, store
<1>11. ASSUME NEW w \in Writers, RecordFailure(w) PROVE SweepsReachRows'
  BY <1>11, <1>b DEF RecordFailure, store
<1>12. ASSUME NEW w \in Writers, Crash(w) PROVE SweepsReachRows'
  BY <1>12, <1>b DEF Crash, store
<1>13. CASE UNCHANGED vars
  BY <1>13 DEF vars, store, written, sweep, SweepsReachRows, SourceView
<1> QED
  BY <1>1, <1>2, <1>3, <1>4, <1>5, <1>6, <1>7, <1>8, <1>9, <1>10, <1>11, <1>12, <1>13
  DEF Next, Work, StatementError, DeadlockVictim

\* Types and positions hold in every reachable state; TypeOK is the part of
\* them that says what the tables and the state of every writer may be.
THEOREM TypeCorrect == Spec => []TypeOK
<1>1. TypeInv /\ [Next]_vars => TypeInv'
  BY TypeOKStep, JobsStep, SweepStep DEF TypeInv
<1>2. TypeInv => TypeOK
  BY DEF TypeInv
<1> QED
  BY TypesInitially, <1>1, <1>2, PTL DEF Spec

-----------------------------------------------------------------------------
(* Locks, uncommitted writes and links                                     *)

\* What a writer sees of a source row and of its links, row by row.
LEMMA ViewOf ==
    ASSUME NEW w \in Writers, NEW s \in SourceKeys
    PROVE  /\ SourceView(w)[s] = IF wsource[w][s] = NoRow THEN sources[s] ELSE wsource[w][s]
           /\ LinkView(w)[s] = IF wlink[w][s] = {} THEN links[s] ELSE wlink[w][s]
BY DEF SourceView, LinkView

\* Empty tables and idle writers hold no lock and no link.
LEMMA LinksInitially == Init => LinkInv
<1> SUFFICES ASSUME Init PROVE LinkInv
  OBVIOUS
<1>1. RowsAreLocked /\ WritesAreConfined
  BY DEF Init, RowsAreLocked, WritesAreConfined, NoSources, NoDocuments, NoLinks
<1>2. LinksFollowSources
  BY DEF Init, LinksFollowSources, SourceView, LinkView, Home, NoSources, NoLinks
<1> QED
  BY <1>1, <1>2 DEF LinkInv

\* An open transaction's written rows are its own: every step keeps the locks.
LEMMA LocksStep == TypeInv /\ LinkInv /\ [Next]_vars => RowsAreLocked'
<1> SUFFICES ASSUME TypeInv, LinkInv, [Next]_vars PROVE RowsAreLocked'
  OBVIOUS
<1> TypeOK /\ JobsAreRunning /\ RowsAreLocked
  BY DEF TypeInv, LinkInv
<1> USE DEF TypeOK
\* Giving rows up is safe.
<1>a. ASSUME \A v \in Writers :
                /\ \A s \in SourceKeys : wsource[v][s] = NoRow => wsource'[v][s] = NoRow
                /\ \A d \in DocumentKeys : wdocument[v][d] = "absent" => wdocument'[v][d] = "absent"
      PROVE  RowsAreLocked'
  BY <1>a DEF RowsAreLocked
<1>b. ASSUME NEW w \in Writers, Discard(w) PROVE RowsAreLocked'
  BY <1>a, <1>b DEF Discard, NoSources, NoDocuments
\* Taking a source row that no other writer holds is safe.
<1>c. ASSUME NEW w \in Writers, NEW t \in SourceKeys, SourceHolders(w, t) = {},
             wdocument' = wdocument,
             \A v \in Writers \ {w} : wsource'[v] = wsource[v],
             \A s \in SourceKeys \ {t} : wsource'[w][s] = wsource[w][s]
      PROVE  RowsAreLocked'
  <2>1. \A v \in Writers \ {w} : wsource[v][t] = NoRow
    BY <1>c DEF SourceHolders
  <2>2. ASSUME NEW v \in Writers \ {w}, NEW s \in SourceKeys
        PROVE  wsource'[v][s] = NoRow \/ wsource'[w][s] = NoRow
    <3>1. CASE s = t BY <1>c, <2>1, <2>2, <3>1
    <3>2. CASE s # t
      <4>1. wsource[v][s] = NoRow \/ wsource[w][s] = NoRow
        BY <1>c, <2>2 DEF RowsAreLocked
      <4>2. wsource'[v] = wsource[v] /\ wsource'[w][s] = wsource[w][s]
        BY <1>c, <2>2, <3>2
      <4> QED BY <4>1, <4>2
    <3> QED BY <3>1, <3>2
  <2>3. ASSUME NEW u \in Writers \ {w}, NEW v \in Writers \ {w}, u # v, NEW s \in SourceKeys
        PROVE  wsource'[u][s] = NoRow \/ wsource'[v][s] = NoRow
    BY <1>c, <2>3 DEF RowsAreLocked
  <2> QED BY <1>c, <2>2, <2>3, SMTT(30) DEF RowsAreLocked
\* Taking a document row that no other writer holds is safe.
<1>d. ASSUME NEW w \in Writers, NEW e \in DocumentKeys, DocumentHolders(w, e) = {},
             wsource' = wsource,
             \A v \in Writers \ {w} : wdocument'[v] = wdocument[v],
             \A d \in DocumentKeys \ {e} : wdocument'[w][d] = wdocument[w][d]
      PROVE  RowsAreLocked'
  <2>1. \A v \in Writers \ {w} : wdocument[v][e] = "absent"
    BY <1>d DEF DocumentHolders
  <2>2. ASSUME NEW v \in Writers \ {w}, NEW d \in DocumentKeys
        PROVE  wdocument'[v][d] = "absent" \/ wdocument'[w][d] = "absent"
    <3>1. CASE d = e BY <1>d, <2>1, <2>2, <3>1
    <3>2. CASE d # e
      <4>1. wdocument[v][d] = "absent" \/ wdocument[w][d] = "absent"
        BY <1>d, <2>2 DEF RowsAreLocked
      <4>2. wdocument'[v] = wdocument[v] /\ wdocument'[w][d] = wdocument[w][d]
        BY <1>d, <2>2, <3>2
      <4> QED BY <4>1, <4>2
    <3> QED BY <3>1, <3>2
  <2>3. ASSUME NEW u \in Writers \ {w}, NEW v \in Writers \ {w}, u # v, NEW d \in DocumentKeys
        PROVE  wdocument'[u][d] = "absent" \/ wdocument'[v][d] = "absent"
    BY <1>d, <2>3 DEF RowsAreLocked
  <2> QED BY <1>d, <2>2, <2>3 DEF RowsAreLocked
<1>1. ASSUME NEW w \in Writers, NEW def \in Definitions, NEW records \in Captures,
             StartRun(w, def, records)
      PROVE  RowsAreLocked'
  BY <1>1, <1>a DEF StartRun, written
<1>2. ASSUME NEW w \in Writers, UpsertSource(w) PROVE RowsAreLocked'
  <2>1. SourceHolders(w, Key(w)) = {} /\ wdocument' = wdocument
        /\ \A v \in Writers \ {w} : wsource'[v] = wsource[v]
    BY <1>2 DEF UpsertSource
  <2> QED BY <1>2, <1>c, <2>1, UpsertedRow
<1>3. ASSUME NEW w \in Writers, UpsertDocument(w) PROVE RowsAreLocked'
  <2>1. Document(w) \in DocumentKeys
    BY <1>3, AtRecord DEF UpsertDocument
  <2>2. DocumentHolders(w, Document(w)) = {} /\ wsource' = wsource
        /\ (\A v \in Writers \ {w} : wdocument'[v] = wdocument[v])
        /\ \A d \in DocumentKeys \ {Document(w)} : wdocument'[w][d] = wdocument[w][d]
    BY <1>3 DEF UpsertDocument, DocumentTable
  <2> QED BY <1>d, <2>1, <2>2
<1>4. ASSUME NEW w \in Writers, Relink(w) PROVE RowsAreLocked'
  BY <1>4, <1>a DEF Relink
<1>5. ASSUME NEW w \in Writers, ScanSources(w) PROVE RowsAreLocked'
  BY <1>5, <1>a DEF ScanSources, written
<1>6. ASSUME NEW w \in Writers, NEW s \in SourceKeys, RetireSource(w, s) PROVE RowsAreLocked'
  <2>1. SourceHolders(w, s) = {} /\ wdocument' = wdocument
        /\ \A v \in Writers \ {w} : wsource'[v] = wsource[v]
    BY <1>6 DEF RetireSource
  <2> QED BY <1>6, <1>c, <2>1, RetiredRow
<1>7. ASSUME NEW w \in Writers, ScanDocuments(w) PROVE RowsAreLocked'
  BY <1>7, <1>a DEF ScanDocuments, written
<1>8. ASSUME NEW w \in Writers, NEW d \in DocumentKeys, RetireDocument(w, d) PROVE RowsAreLocked'
  <2>1. DocumentHolders(w, d) = {} /\ wsource' = wsource
        /\ (\A v \in Writers \ {w} : wdocument'[v] = wdocument[v])
        /\ \A e \in DocumentKeys \ {d} : wdocument'[w][e] = wdocument[w][e]
    BY <1>8 DEF RetireDocument, DocumentTable
  <2> QED BY <1>d, <2>1
<1>9. ASSUME NEW w \in Writers, Commit(w) PROVE RowsAreLocked'
  BY <1>9, <1>b DEF Commit
<1>10. ASSUME NEW w \in Writers, Rollback(w) PROVE RowsAreLocked'
  BY <1>10, <1>b DEF Rollback
<1>11. ASSUME NEW w \in Writers, RecordFailure(w) PROVE RowsAreLocked'
  BY <1>11, <1>b DEF RecordFailure
<1>12. ASSUME NEW w \in Writers, Crash(w) PROVE RowsAreLocked'
  BY <1>12, <1>b DEF Crash
<1>13. CASE UNCHANGED vars
  BY <1>13, <1>a DEF vars, written
<1> QED
  BY <1>1, <1>2, <1>3, <1>4, <1>5, <1>6, <1>7, <1>8, <1>9, <1>10, <1>11, <1>12, <1>13
  DEF Next, Work, StatementError, DeadlockVictim

\* The part of WritesAreConfined and LinksFollowSources that is about one writer.
Confined(w) ==
    /\ \A s \in SourceKeys : wlink[w][s] # {} => wsource[w][s] # NoRow
    /\ ~InTransaction(w) => wsource[w] = NoSources /\ wdocument[w] = NoDocuments
Follows(w) ==
    \A s \in SourceKeys :
        \/ LinkView(w)[s] = Home(SourceView(w)[s])
        \/ pc[w] \in {"document", "relink"} /\ s = Key(w)

\* A writer that takes no step, and whose rows are not touched by the one that
\* does, stays confined; its links follow what it sees.
LEMMA Bystander ==
    ASSUME NEW v \in Writers, Confined(v), Follows(v),
           pc'[v] = pc[v], job'[v] = job[v], pos'[v] = pos[v],
           wsource'[v] = wsource[v], wdocument'[v] = wdocument[v], wlink'[v] = wlink[v],
           \A s \in SourceKeys :
               \/ links'[s] = links[s] /\ sources'[s] = sources[s]
               \/ links'[s] = Home(sources'[s]) /\ wsource[v][s] = NoRow
    PROVE  Confined(v)' /\ Follows(v)'
<1>1. Confined(v)'
  BY DEF Confined, InTransaction
<1>2. Follows(v)'
  <2> SUFFICES ASSUME NEW s \in SourceKeys
               PROVE  \/ LinkView(v)'[s] = Home(SourceView(v)'[s])
                      \/ pc'[v] \in {"document", "relink"} /\ s = Key(v)'
    BY DEF Follows
  <2>1. Key(v)' = Key(v)
    BY DEF Key, Record
  <2>2. CASE links'[s] = links[s] /\ sources'[s] = sources[s]
    BY <2>1, <2>2 DEF Follows, SourceView, LinkView
  <2>3. CASE links'[s] = Home(sources'[s]) /\ wsource[v][s] = NoRow
    BY <2>3 DEF Confined, SourceView, LinkView
  <2> QED BY <2>2, <2>3
<1> QED BY <1>1, <1>2

\* Every step preserves the confinement of uncommitted writes, and that links
\* follow their sources in the tables and in what each writer sees.
LEMMA LinksStep ==
    TypeInv /\ LinkInv /\ [Next]_vars => WritesAreConfined' /\ LinksFollowSources'
<1> SUFFICES ASSUME TypeInv, LinkInv, [Next]_vars
             PROVE  WritesAreConfined' /\ LinksFollowSources'
  OBVIOUS
<1> TypeOK /\ JobsAreRunning /\ RowsAreLocked /\ WritesAreConfined /\ LinksFollowSources
  BY DEF TypeInv, LinkInv
<1> USE DEF TypeOK
<1>0. /\ \A v \in Writers : Confined(v) /\ Follows(v)
      /\ \A s \in SourceKeys : links[s] = Home(sources[s])
  BY DEF WritesAreConfined, LinksFollowSources, Confined, Follows
\* A step of w that commits nothing: it remains to look at w itself.
<1>a. ASSUME NEW w \in Writers, Confined(w)', Follows(w)',
             links' = links, sources' = sources,
             \A v \in Writers \ {w} :
                /\ pc'[v] = pc[v] /\ job'[v] = job[v] /\ pos'[v] = pos[v]
                /\ wsource'[v] = wsource[v] /\ wdocument'[v] = wdocument[v]
                /\ wlink'[v] = wlink[v]
      PROVE  WritesAreConfined' /\ LinksFollowSources'
  <2>1. \A v \in Writers : Confined(v)' /\ Follows(v)'
    BY <1>0, <1>a, Bystander
  <2> QED BY <1>0, <1>a, <2>1 DEF WritesAreConfined, LinksFollowSources, Confined, Follows
\* A step of w between two of its statements that leaves its writes alone.
<1>b. ASSUME NEW w \in Writers, links' = links, sources' = sources,
             wsource' = wsource, wlink' = wlink,
             pc[w] \in {"document", "relink"} =>
                 pc'[w] \in {"document", "relink"} /\ Key(w)' = Key(w)
      PROVE  Follows(w)'
  BY <1>0, <1>b DEF Follows, SourceView, LinkView
\* A step that discards the writes of w without committing them.
<1>c. ASSUME NEW w \in Writers, Discard(w), UNCHANGED store,
             \A v \in Writers \ {w} : pc'[v] = pc[v] /\ job'[v] = job[v]
      PROVE  WritesAreConfined' /\ LinksFollowSources'
  <2>1. /\ links' = links /\ sources' = sources
        /\ wsource'[w] = NoSources /\ wdocument'[w] = NoDocuments /\ wlink'[w] = NoLinks
        /\ \A v \in Writers \ {w} :
                /\ pos'[v] = pos[v] /\ wsource'[v] = wsource[v]
                /\ wdocument'[v] = wdocument[v] /\ wlink'[v] = wlink[v]
    BY <1>c DEF Discard, store
  <2>2. Confined(w)'
    BY <2>1 DEF Confined, NoLinks
  <2>3. Follows(w)'
    BY <1>0, <2>1 DEF Follows, SourceView, LinkView, NoSources, NoLinks
  <2> QED BY <1>a, <1>c, <2>1, <2>2, <2>3
<1>1. ASSUME NEW w \in Writers, NEW def \in Definitions, NEW records \in Captures,
             StartRun(w, def, records)
      PROVE  WritesAreConfined' /\ LinksFollowSources'
  <2>1. /\ pc[w] = "idle" /\ links' = links /\ sources' = sources
        /\ wsource' = wsource /\ wdocument' = wdocument /\ wlink' = wlink
        /\ \A v \in Writers \ {w} : pc'[v] = pc[v] /\ job'[v] = job[v] /\ pos'[v] = pos[v]
    BY <1>1 DEF StartRun, Goto, store, written
  <2>2. Confined(w)'
    BY <1>0, <2>1 DEF Confined, InTransaction
  <2> QED BY <1>a, <1>b, <2>1, <2>2
<1>2. ASSUME NEW w \in Writers, UpsertSource(w) PROVE WritesAreConfined' /\ LinksFollowSources'
  <2>1. /\ pc[w] = "source" /\ pc' = [pc EXCEPT ![w] = "document"]
        /\ job' = job /\ pos' = pos /\ links' = links /\ sources' = sources
        /\ wdocument' = wdocument /\ wlink' = wlink /\ Key(w)' = Key(w)
        /\ \A v \in Writers \ {w} : wsource'[v] = wsource[v]
    BY <1>2 DEF UpsertSource, Goto, store, Key, Record
  <2>2. wsource'[w][Key(w)] # NoRow
        /\ \A s \in SourceKeys \ {Key(w)} : wsource'[w][s] = wsource[w][s]
    BY <1>2, UpsertedRow
  <2>3. Confined(w)'
    <3>1. \A s \in SourceKeys : wlink'[w][s] # {} => wsource'[w][s] # NoRow
      BY <1>0, <2>1, <2>2 DEF Confined
    <3> QED BY <2>1, <3>1 DEF Confined, InTransaction
  <2>4. ASSUME NEW s \in SourceKeys, s # Key(w)
        PROVE  LinkView(w)'[s] = Home(SourceView(w)'[s])
    <3>1. LinkView(w)[s] = Home(SourceView(w)[s])
      BY <1>0, <2>1, <2>4 DEF Follows
    <3>2. wsource'[w][s] = wsource[w][s]
      BY <2>2, <2>4
    <3> QED BY <2>1, <3>1, <3>2 DEF SourceView, LinkView
  <2>5. Follows(w)'
    BY <2>1, <2>4 DEF Follows
  <2> QED BY <1>a, <2>1, <2>3, <2>5
<1>3. ASSUME NEW w \in Writers, UpsertDocument(w) PROVE WritesAreConfined' /\ LinksFollowSources'
  <2>1. /\ pc[w] = "document" /\ pc' = [pc EXCEPT ![w] = "relink"]
        /\ job' = job /\ pos' = pos /\ links' = links /\ sources' = sources
        /\ wsource' = wsource /\ wlink' = wlink /\ Key(w)' = Key(w)
        /\ \A v \in Writers \ {w} : wdocument'[v] = wdocument[v]
    BY <1>3 DEF UpsertDocument, Goto, store, Key, Record
  <2>2. Confined(w)'
    BY <1>0, <2>1 DEF Confined, InTransaction
  <2> QED BY <1>a, <1>b, <2>1, <2>2
<1>4. ASSUME NEW w \in Writers, Relink(w) PROVE WritesAreConfined' /\ LinksFollowSources'
  <2>1. /\ pc[w] = "relink" /\ pc'[w] \notin {"idle", "failed"} /\ pc'[w] \notin {"document", "relink"}
        /\ job' = job /\ links' = links /\ sources' = sources
        /\ wsource' = wsource /\ wdocument' = wdocument
        /\ \A v \in Writers \ {w} : pc'[v] = pc[v] /\ pos'[v] = pos[v] /\ wlink'[v] = wlink[v]
    BY <1>4 DEF Relink, Goto, store
  <2>2. /\ Key(w) \in SourceKeys
        /\ wlink'[w][Key(w)] = {Document(w)}
        /\ \A s \in SourceKeys \ {Key(w)} : wlink'[w][s] = wlink[w][s]
    BY <1>4, <2>1, AtRecord DEF Relink, LinkTable
  <2>3. Home(wsource[w][Key(w)]) = {Document(w)} /\ wsource[w][Key(w)] # NoRow
    BY <2>1 DEF JobsAreRunning, JobIsRunning, Home
  <2>4. Confined(w)'
    BY <1>0, <2>1, <2>2, <2>3 DEF Confined, InTransaction
  <2>5. ASSUME NEW s \in SourceKeys PROVE LinkView(w)'[s] = Home(SourceView(w)'[s])
    <3>1. CASE s = Key(w) BY <2>1, <2>2, <2>3, <3>1 DEF LinkView, SourceView
    <3>2. CASE s # Key(w) BY <1>0, <2>1, <2>2, <3>2 DEF Follows, LinkView, SourceView
    <3> QED BY <3>1, <3>2
  <2>6. Follows(w)'
    BY <2>5 DEF Follows
  <2> QED BY <1>a, <2>1, <2>4, <2>6
<1>5. ASSUME NEW w \in Writers, ScanSources(w) PROVE WritesAreConfined' /\ LinksFollowSources'
  <2>1. /\ pc[w] = "scan_sources" /\ pc' = [pc EXCEPT ![w] = "retire_sources"]
        /\ job' = job /\ pos' = pos /\ links' = links /\ sources' = sources
        /\ wsource' = wsource /\ wdocument' = wdocument /\ wlink' = wlink
    BY <1>5 DEF ScanSources, Goto, store, written
  <2>2. Confined(w)'
    BY <1>0, <2>1 DEF Confined, InTransaction
  <2> QED BY <1>a, <1>b, <2>1, <2>2
<1>6. ASSUME NEW w \in Writers, NEW s \in SourceKeys, RetireSource(w, s)
      PROVE  WritesAreConfined' /\ LinksFollowSources'
  <2>1. /\ pc[w] = "retire_sources" /\ pc' = pc
        /\ job' = job /\ pos' = pos /\ links' = links /\ sources' = sources
        /\ wdocument' = wdocument /\ wlink' = wlink
        /\ \A v \in Writers \ {w} : wsource'[v] = wsource[v]
    BY <1>6 DEF RetireSource, store
  <2>2. Confined(w)'
    <3>1. wsource'[w][s] # NoRow
          /\ \A t \in SourceKeys \ {s} : wsource'[w][t] = wsource[w][t]
      BY <1>6, RetiredRow
    <3>2. \A t \in SourceKeys : wlink'[w][t] # {} => wsource'[w][t] # NoRow
      BY <1>0, <2>1, <3>1 DEF Confined
    <3> QED BY <2>1, <3>2 DEF Confined, InTransaction
  <2>3. ASSUME NEW t \in SourceKeys PROVE LinkView(w)'[t] = Home(SourceView(w)'[t])
    <3>1. LinkView(w)'[t] = LinkView(w)[t] /\ LinkView(w)[t] = Home(SourceView(w)[t])
      BY <1>0, <2>1 DEF Follows, LinkView
    <3>2. Home(SourceView(w)'[t]) = Home(SourceView(w)[t])
      BY <1>6, <2>1, RetiredRow DEF SourceView
    <3> QED BY <3>1, <3>2
  <2>4. Follows(w)'
    BY <2>3 DEF Follows
  <2> QED BY <1>a, <2>1, <2>2, <2>4
<1>7. ASSUME NEW w \in Writers, ScanDocuments(w) PROVE WritesAreConfined' /\ LinksFollowSources'
  <2>1. /\ pc[w] = "retire_sources" /\ pc' = [pc EXCEPT ![w] = "retire_documents"]
        /\ job' = job /\ pos' = pos /\ links' = links /\ sources' = sources
        /\ wsource' = wsource /\ wdocument' = wdocument /\ wlink' = wlink
    BY <1>7 DEF ScanDocuments, Goto, store, written
  <2>2. Confined(w)'
    BY <1>0, <2>1 DEF Confined, InTransaction
  <2> QED BY <1>a, <1>b, <2>1, <2>2
<1>8. ASSUME NEW w \in Writers, NEW d \in DocumentKeys, RetireDocument(w, d)
      PROVE  WritesAreConfined' /\ LinksFollowSources'
  <2>1. /\ pc[w] = "retire_documents" /\ pc' = pc
        /\ job' = job /\ pos' = pos /\ links' = links /\ sources' = sources
        /\ wsource' = wsource /\ wlink' = wlink
        /\ \A v \in Writers \ {w} : wdocument'[v] = wdocument[v]
    BY <1>8 DEF RetireDocument, store
  <2>2. Confined(w)'
    BY <1>0, <2>1 DEF Confined, InTransaction
  <2> QED BY <1>a, <1>b, <2>1, <2>2
\* The rows that w commits are not written by another transaction, and at the
\* end of write() every link that w sees follows its source.
<1>9. ASSUME NEW w \in Writers, Commit(w) PROVE WritesAreConfined' /\ LinksFollowSources'
  <2>1. /\ pc[w] \notin {"document", "relink"}
        /\ sources' = SourceView(w) /\ links' = LinkView(w)
        /\ pc'[w] = "idle"
        /\ wsource'[w] = NoSources /\ wdocument'[w] = NoDocuments /\ wlink'[w] = NoLinks
        /\ \A v \in Writers \ {w} :
                /\ pc'[v] = pc[v] /\ job'[v] = job[v] /\ pos'[v] = pos[v]
                /\ wsource'[v] = wsource[v] /\ wdocument'[v] = wdocument[v]
                /\ wlink'[v] = wlink[v]
    BY <1>9 DEF Commit, Close, Goto, Discard
  <2>2. \A s \in SourceKeys : links'[s] = Home(sources'[s])
    BY <1>0, <2>1 DEF Follows
  <2>3. ASSUME NEW v \in Writers \ {w}, NEW s \in SourceKeys, wsource[v][s] # NoRow
        PROVE  links'[s] = links[s] /\ sources'[s] = sources[s]
    <3>1. wsource[w][s] = NoRow
      BY <2>3 DEF RowsAreLocked
    <3>2. wlink[w][s] = {}
      BY <1>0, <3>1 DEF Confined
    <3> QED BY <2>1, <3>1, <3>2, ViewOf
  <2>4. \A v \in Writers \ {w} : Confined(v)' /\ Follows(v)'
    BY <1>0, <2>1, <2>2, <2>3, Bystander
  <2>5. Confined(w)' /\ Follows(w)'
    BY <2>1, <2>2 DEF Confined, Follows, SourceView, LinkView, NoSources, NoLinks
  <2> QED BY <2>2, <2>4, <2>5 DEF WritesAreConfined, LinksFollowSources, Confined, Follows
<1>10. ASSUME NEW w \in Writers, Rollback(w) PROVE WritesAreConfined' /\ LinksFollowSources'
  BY <1>10, <1>c DEF Rollback, Goto
<1>11. ASSUME NEW w \in Writers, RecordFailure(w) PROVE WritesAreConfined' /\ LinksFollowSources'
  BY <1>11, <1>c DEF RecordFailure, Close, Goto
<1>12. ASSUME NEW w \in Writers, Crash(w) PROVE WritesAreConfined' /\ LinksFollowSources'
  BY <1>12, <1>c DEF Crash, Close, Goto
<1>13. CASE UNCHANGED vars
  <2>1. \A v \in Writers : Confined(v)' /\ Follows(v)'
    BY <1>0, <1>13, Bystander DEF vars, store, written
  <2> QED
    BY <1>0, <1>13, <2>1 DEF vars, store, WritesAreConfined, LinksFollowSources, Confined, Follows
<1> QED
  BY <1>1, <1>2, <1>3, <1>4, <1>5, <1>6, <1>7, <1>8, <1>9, <1>10, <1>11, <1>12, <1>13
  DEF Next, Work, StatementError, DeadlockVictim

\* Locks keep the uncommitted writes of the writers apart, and links follow
\* sources in what each of them sees.
THEOREM LocksInvariant == Spec => [](TypeInv /\ LinkInv)
<1>1. TypeInv /\ LinkInv /\ [Next]_vars => (TypeInv /\ LinkInv)'
  BY TypeOKStep, JobsStep, SweepStep, LocksStep, LinksStep DEF TypeInv, LinkInv
<1> QED
  BY TypesInitially, LinksInitially, <1>1, PTL DEF Spec

\* What a search shows next to a source is the text of that source, in its
\* corpus, for any number of concurrent ingests.
THEOREM SearchAligned == Spec => []SearchIsAligned
<1>1. LinkInv => SearchIsAligned
  <2> SUFFICES ASSUME LinkInv,
                      NEW row \in Matches(sources, documents, links, Corpora)
               PROVE  row[1] = <<sources[row[2]].corpus, sources[row[2]].body>>
    BY DEF SearchIsAligned
  <2>1. row[2] \in SourceKeys /\ row[1] \in links[row[2]]
    BY DEF Matches
  <2>2. row[1] \in Home(sources[row[2]])
    BY <2>1 DEF LinkInv, LinksFollowSources
  <2> QED BY <2>2 DEF Home
<1> QED
  BY LocksInvariant, <1>1, PTL

-----------------------------------------------------------------------------
(***************************************************************************)
(* What the commit of a write() does to the knowledge base.  The tables,   *)
(* locks and links are behind; here every writer is followed through its   *)
(* own capture: what it has written, what it is going to retire, and what  *)
(* of its records is complete.                                             *)
(***************************************************************************)

CaptureInv(w) == SweepIsConfined(w) /\ WritesAreCaptured(w) /\ CaptureIsWritten(w)

\* The steps of one writer.
Step(w) ==
    \/ \E def \in Definitions, records \in Captures : StartRun(w, def, records)
    \/ Work(w)
    \/ StatementError(w)
    \/ Crash(w)

\* What belongs to a writer stays as it is.
Same(v) ==
    /\ pc'[v] = pc[v] /\ job'[v] = job[v] /\ pos'[v] = pos[v]
    /\ wsource'[v] = wsource[v] /\ wdocument'[v] = wdocument[v] /\ wlink'[v] = wlink[v]
    /\ staleS'[v] = staleS[v] /\ staleD'[v] = staleD[v]

-----------------------------------------------------------------------------
(* Writers and their captures                                              *)

\* A step of one writer leaves what belongs to the others alone.
LEMMA Isolation ==
    ASSUME TypeOK, NEW w \in Writers, Step(w), NEW v \in Writers \ {w}
    PROVE  Same(v)
<1> USE DEF TypeOK
<1>1. ASSUME Close(w) PROVE pc'[v] = pc[v] /\ job'[v] = job[v]
  BY <1>1 DEF Close, Goto
<1>2. ASSUME Discard(w)
      PROVE  /\ pos'[v] = pos[v] /\ wsource'[v] = wsource[v] /\ wdocument'[v] = wdocument[v]
             /\ wlink'[v] = wlink[v] /\ staleS'[v] = staleS[v] /\ staleD'[v] = staleD[v]
  BY <1>2 DEF Discard
<1>3. CASE \E def \in Definitions, records \in Captures : StartRun(w, def, records)
  BY <1>3 DEF StartRun, Goto, written, sweep, Same
<1>4. CASE UpsertSource(w)
  BY <1>4 DEF UpsertSource, Goto, sweep, Same
<1>5. CASE UpsertDocument(w)
  BY <1>5 DEF UpsertDocument, Goto, sweep, Same
<1>6. CASE Relink(w)
  BY <1>6 DEF Relink, Goto, sweep, Same
<1>7. CASE ScanSources(w)
  BY <1>7 DEF ScanSources, Goto, written, Same
<1>8. CASE \E s \in SourceKeys : RetireSource(w, s)
  BY <1>8 DEF RetireSource, Same
<1>9. CASE ScanDocuments(w)
  BY <1>9 DEF ScanDocuments, Goto, written, Same
<1>10. CASE \E d \in DocumentKeys : RetireDocument(w, d)
  BY <1>10 DEF RetireDocument, Same
<1>11. CASE Commit(w)
  BY <1>11, <1>1, <1>2 DEF Commit, Same
<1>12. CASE Rollback(w)
  BY <1>12, <1>2 DEF Rollback, Goto, Same
<1>13. CASE RecordFailure(w)
  BY <1>13, <1>1, <1>2 DEF RecordFailure, Same
<1>14. CASE Crash(w)
  BY <1>14, <1>1, <1>2 DEF Crash, Same
<1> QED
  BY <1>3, <1>4, <1>5, <1>6, <1>7, <1>8, <1>9, <1>10, <1>11, <1>12, <1>13, <1>14
  DEF Step, Work, StatementError, DeadlockVictim

\* A captured record is a row key and a document key of its job.
LEMMA KeysOfRecord ==
    ASSUME NEW j \in Jobs, NEW i \in DOMAIN j.records
    PROVE  /\ <<j.registry, j.records[i].native>> \in SourceKeys
           /\ <<j.corpus, j.records[i].body>> \in DocumentKeys
<1>1. j.records \in Seq(Records) /\ j.registry \in Registries /\ j.corpus \in Corpora
  BY CapturesAssumption DEF Jobs
<1>2. j.records[i] \in Records
  BY <1>1
<1> QED BY <1>1, <1>2 DEF Records, SourceKeys, DocumentKeys

\* The records that the loop is through with are records.
LEMMA DoneRecords ==
    ASSUME TypeOK, JobsAreRunning, NEW w \in Writers, InTransaction(w), NEW i \in 1..Done(w)
    PROVE  job[w] \in Jobs /\ i \in DOMAIN job[w].records
<1>1. job[w] \in Jobs /\ job[w].records \in Seq(Records)
  BY CapturesAssumption DEF InTransaction, JobsAreRunning, JobIsRunning, Jobs
<1>2. pc[w] \in {"source", "document", "relink"} => pos[w] \in DOMAIN job[w].records
  BY DEF JobsAreRunning, JobIsRunning
<1>3. pos[w] \in Nat
  BY DEF TypeOK
<1> QED BY <1>1, <1>2, <1>3 DEF Done

\* What is said of a writer and its capture is said of its own state alone.
LEMMA CaptureOfBystander ==
    ASSUME NEW v \in Writers, CaptureInv(v), Same(v)
    PROVE  CaptureInv(v)'
<1>1. SweepIsConfined(v)'
  BY DEF CaptureInv, Same, SweepIsConfined, Captured
<1>2. WritesAreCaptured(v)'
  BY DEF CaptureInv, Same, WritesAreCaptured, Captured
<1>3. Done(v)' = Done(v) /\ Key(v)' = Key(v) /\ Document(v)' = Document(v)
      /\ InTransaction(v)' = InTransaction(v)
  BY DEF Same, Done, Key, Document, Record, InTransaction
<1>4. CaptureIsWritten(v)'
  BY <1>3 DEF CaptureInv, Same, CaptureIsWritten
<1> QED BY <1>1, <1>2, <1>4 DEF CaptureInv

\* A process without a transaction has written and chosen nothing.
LEMMA NothingWritten ==
    ASSUME NEW w \in Writers, ~InTransaction(w), wsource[w] = NoSources,
           wdocument[w] = NoDocuments, staleS[w] = {}, staleD[w] = {}
    PROVE  CaptureInv(w)
<1>1. \A d \in DocumentKeys : wdocument[w][d] # "valid"
  BY DEF NoDocuments
<1>2. SweepIsConfined(w) /\ WritesAreCaptured(w)
  BY <1>1 DEF SweepIsConfined, WritesAreCaptured, InTransaction, NoSources
<1>3. CaptureIsWritten(w)
  BY DEF CaptureIsWritten, InTransaction
<1> QED BY <1>2, <1>3 DEF CaptureInv

\* A process that has left its transaction has nothing to answer for.
LEMMA CaptureAfterDiscard ==
    ASSUME TypeOK, NEW w \in Writers, Discard(w), pc'[w] \in {"idle", "failed"}
    PROVE  CaptureInv(w)'
<1>1. ~InTransaction(w)' /\ wsource'[w] = NoSources /\ wdocument'[w] = NoDocuments
      /\ staleS'[w] = {} /\ staleD'[w] = {}
  BY DEF Discard, InTransaction, TypeOK
<1>2. \A d \in DocumentKeys : wdocument'[w][d] # "valid"
  BY <1>1 DEF NoDocuments
<1>3. SweepIsConfined(w)' /\ WritesAreCaptured(w)'
  BY <1>1, <1>2 DEF SweepIsConfined, WritesAreCaptured, InTransaction, NoSources
<1>4. CaptureIsWritten(w)'
  BY <1>1 DEF CaptureIsWritten, InTransaction
<1> QED BY <1>3, <1>4 DEF CaptureInv

\* The first statement of a transaction finds nothing written.
LEMMA CaptureAtStart ==
    ASSUME TypeInv, LinkInv, NEW w \in Writers, CaptureInv(w),
           NEW def \in Definitions, NEW records \in Captures, StartRun(w, def, records)
    PROVE  CaptureInv(w)'
<1> TypeOK
  BY DEF TypeInv
<1>1. /\ pc[w] = "idle" /\ pos'[w] = 1 /\ job'[w].records = records
      /\ pc'[w] = IF records = <<>> THEN "finish" ELSE "source"
      /\ wsource' = wsource /\ wdocument' = wdocument /\ wlink' = wlink
      /\ staleS' = staleS /\ staleD' = staleD
  BY DEF StartRun, Goto, written, sweep, TypeOK
<1>2. wsource[w] = NoSources /\ wdocument[w] = NoDocuments
  BY <1>1 DEF LinkInv, WritesAreConfined, InTransaction
<1>3. staleS[w] = {} /\ staleD[w] = {}
  BY <1>1 DEF CaptureInv, SweepIsConfined
<1>4. \A d \in DocumentKeys : wdocument[w][d] # "valid"
  BY <1>2 DEF NoDocuments
<1>5. SweepIsConfined(w)' /\ WritesAreCaptured(w)'
  BY <1>1, <1>2, <1>3, <1>4 DEF SweepIsConfined, WritesAreCaptured, NoSources
<1>6. Done(w)' = 0
  BY <1>1, EmptySeq DEF Done
<1>7. CaptureIsWritten(w)'
  BY <1>1, <1>6 DEF CaptureIsWritten
<1> QED BY <1>5, <1>7 DEF CaptureInv

\* The rest of the state of w in the three statements for one record.
LEMMA CaptureAtSource ==
    ASSUME TypeInv, LinkInv, NEW w \in Writers, CaptureInv(w), UpsertSource(w)
    PROVE  CaptureInv(w)'
<1> DEFINE row == [corpus |-> job[w].corpus, body |-> Record(w).body, active |-> TRUE]
<1> TypeOK /\ JobsAreRunning
  BY DEF TypeInv
<1>1. /\ pc[w] = "source" /\ pc'[w] = "document" /\ job' = job /\ pos' = pos
      /\ wdocument' = wdocument /\ wlink' = wlink /\ staleS' = staleS /\ staleD' = staleD
  BY DEF UpsertSource, Goto, sweep, TypeOK
<1>2. /\ Key(w) \in SourceKeys /\ pos[w] \in DOMAIN job[w].records
      /\ job[w] \in Jobs /\ Record(w) \in Records
  BY <1>1, AtRecord
<1>3. /\ wsource'[w][Key(w)] = row
      /\ \A s \in SourceKeys \ {Key(w)} : wsource'[w][s] = wsource[w][s]
  <2>1. wsource'[w] = [wsource[w] EXCEPT ![Key(w)] = row]
    BY UpsertedRow
  <2>2. wsource[w] \in SourceTable
    BY DEF TypeOK
  <2> QED BY <1>2, <2>1, <2>2 DEF SourceTable
<1>4. row.active /\ Home(row) = {Document(w)}
  BY <1>2, HomeOfRow DEF Jobs, Records, Document
<1>5. /\ Key(w)' = Key(w) /\ Document(w)' = Document(w) /\ Done(w)' = Done(w)
      /\ Captured(w)' = Captured(w)
  BY <1>1 DEF Key, Document, Record, Done, Captured
<1>6. SweepIsConfined(w)'
  BY <1>1, <1>5 DEF CaptureInv, SweepIsConfined
<1>7. WritesAreCaptured(w)'
  <2>1. job[w].records[pos[w]].native = Key(w)[2] /\ Key(w)[1] = job[w].registry
        /\ Home(row) = {<<job[w].corpus, job[w].records[pos[w]].body>>}
    BY <1>4 DEF Key, Record, Document
  <2>2. ASSUME NEW s \in SourceKeys, wsource'[w][s] # NoRow
        PROVE  /\ s[1] = job[w].registry
               /\ IF wsource'[w][s].active
                  THEN \E i \in DOMAIN job[w].records :
                         /\ job[w].records[i].native = s[2]
                         /\ Home(wsource'[w][s]) = {<<job[w].corpus, job[w].records[i].body>>}
                  ELSE s[2] \notin Captured(w)
    <3>1. CASE s = Key(w) BY <1>2, <1>3, <1>4, <2>1, <3>1
    <3>2. CASE s # Key(w) BY <1>3, <2>2, <3>2 DEF CaptureInv, WritesAreCaptured
    <3> QED BY <3>1, <3>2
  <2> QED BY <1>1, <1>5, <2>2 DEF CaptureInv, WritesAreCaptured
<1>8. CaptureIsWritten(w)'
  <2>1. ASSUME NEW i \in 1..Done(w),
               \A j \in 1..Done(w) : job[w].records[j].native = job[w].records[i].native => j <= i,
               NEW s, s = <<job[w].registry, job[w].records[i].native>>,
               NEW d, d = <<job[w].corpus, job[w].records[i].body>>
        PROVE  /\ wdocument[w][d] = "valid" /\ d \notin staleD[w]
               /\ (Home(wsource'[w][s]) = {d} /\ wsource'[w][s].active) \/ s = Key(w)
    <3>1. /\ wdocument[w][d] = "valid" /\ d \notin staleD[w]
          /\ Home(wsource[w][s]) = {d} /\ wsource[w][s].active
      BY <1>1, <2>1 DEF CaptureInv, CaptureIsWritten, InTransaction
    <3>2. s \in SourceKeys
      BY <1>1, <2>1, DoneRecords, KeysOfRecord DEF InTransaction
    <3> QED BY <1>3, <3>1, <3>2
  <2>2. wsource'[w][Key(w)].active
    BY <1>3, <1>4
  <2> QED BY <1>1, <1>5, <2>1, <2>2 DEF CaptureIsWritten, InTransaction
<1> QED BY <1>6, <1>7, <1>8 DEF CaptureInv

\* The document of the record is valid, and nothing else is written.
LEMMA CaptureAtDocument ==
    ASSUME TypeInv, LinkInv, NEW w \in Writers, CaptureInv(w), UpsertDocument(w)
    PROVE  CaptureInv(w)'
<1> TypeOK /\ JobsAreRunning
  BY DEF TypeInv
<1>1. /\ pc[w] = "document" /\ pc'[w] = "relink" /\ job' = job /\ pos' = pos
      /\ wsource' = wsource /\ wlink' = wlink /\ staleS' = staleS /\ staleD' = staleD
  BY DEF UpsertDocument, Goto, sweep, TypeOK
<1>2. Document(w) \in DocumentKeys /\ pos[w] \in DOMAIN job[w].records
  BY <1>1, AtRecord
<1>3. /\ wdocument'[w][Document(w)] = "valid"
      /\ \A d : d # Document(w) => wdocument'[w][d] = wdocument[w][d]
      /\ \A d : wdocument[w][d] = "valid" => wdocument'[w][d] = "valid"
  BY <1>2 DEF UpsertDocument, TypeOK, DocumentTable
<1>4. /\ Key(w)' = Key(w) /\ Document(w)' = Document(w) /\ Done(w)' = Done(w)
      /\ Captured(w)' = Captured(w)
  BY <1>1 DEF Key, Document, Record, Done, Captured
<1>5. SweepIsConfined(w)'
  BY <1>1, <1>4 DEF CaptureInv, SweepIsConfined
<1>6. WritesAreCaptured(w)'
  <2>1. \A d \in DocumentKeys : wdocument'[w][d] = "valid" =>
           \E i \in DOMAIN job[w].records : d = <<job[w].corpus, job[w].records[i].body>>
    BY <1>2, <1>3 DEF CaptureInv, WritesAreCaptured, Document, Record
  <2> QED BY <1>1, <1>4, <2>1 DEF CaptureInv, WritesAreCaptured
<1>7. CaptureIsWritten(w)'
  BY <1>1, <1>3, <1>4 DEF CaptureInv, CaptureIsWritten, InTransaction
<1> QED BY <1>5, <1>6, <1>7 DEF CaptureInv

\* With its link the record is complete, and replaces an earlier one of the
\* same native id.
LEMMA CaptureAtRelink ==
    ASSUME TypeInv, LinkInv, NEW w \in Writers, CaptureInv(w), Relink(w)
    PROVE  CaptureInv(w)'
<1> TypeOK /\ JobsAreRunning
  BY DEF TypeInv
<1>1. /\ pc[w] = "relink" /\ job' = job /\ wsource' = wsource /\ wdocument' = wdocument
      /\ staleS' = staleS /\ staleD' = staleD
  BY DEF Relink, sweep
<1>2. /\ pos[w] \in DOMAIN job[w].records /\ job[w] \in Jobs
      /\ job[w].records \in Seq(Records) /\ Document(w) \in DocumentKeys
  BY <1>1, AtRecord, CapturesAssumption DEF Jobs
<1>3. /\ \/ pc'[w] = "source" /\ pos'[w] = pos[w] + 1
         \/ pc'[w] = "scan_sources" /\ pos[w] = Len(job[w].records)
      /\ Done(w)' = pos[w] /\ Done(w) = pos[w] - 1 /\ pos[w] \in Nat \ {0}
  BY <1>1, <1>2 DEF Relink, Goto, TypeOK, Done
<1>4. Captured(w)' = Captured(w)
  BY <1>1 DEF Captured
<1>5. staleS[w] = {} /\ staleD[w] = {}
  BY <1>1 DEF CaptureInv, SweepIsConfined
<1>6. SweepIsConfined(w)'
  BY <1>1, <1>2, <1>3, <1>5, EmptySeq DEF SweepIsConfined
<1>7. WritesAreCaptured(w)'
  BY <1>1, <1>4 DEF CaptureInv, WritesAreCaptured
<1>8. CaptureIsWritten(w)'
  <2>1. ASSUME NEW i \in 1..pos[w],
               \A j \in 1..pos[w] : job[w].records[j].native = job[w].records[i].native => j <= i,
               NEW s, s = <<job[w].registry, job[w].records[i].native>>,
               NEW d, d = <<job[w].corpus, job[w].records[i].body>>
        PROVE  wdocument[w][d] = "valid" /\ Home(wsource[w][s]) = {d} /\ wsource[w][s].active
    <3>1. CASE i = pos[w]
      <4>1. d = Document(w) /\ s = Key(w)
        BY <2>1, <3>1 DEF Document, Key, Record
      <4>2. Home(wsource[w][Key(w)]) = {Document(w)}
        BY <1>1 DEF JobsAreRunning, JobIsRunning
      <4> QED BY <1>1, <4>1, <4>2 DEF CaptureInv, CaptureIsWritten
    <3>2. CASE i # pos[w]
      <4>1. job[w].records[pos[w]].native # job[w].records[i].native
        BY <1>3, <2>1, <3>2
      <4>2. s # Key(w)
        BY <2>1, <4>1 DEF Key, Record
      <4>3. /\ i \in 1..Done(w)
            /\ \A j \in 1..Done(w) :
                  job[w].records[j].native = job[w].records[i].native => j <= i
        BY <1>3, <2>1, <3>2
      <4> QED BY <1>1, <2>1, <4>2, <4>3 DEF CaptureInv, CaptureIsWritten, InTransaction
    <3> QED BY <3>1, <3>2
  <2> QED BY <1>1, <1>3, <1>5, <2>1 DEF CaptureIsWritten
<1> QED BY <1>6, <1>7, <1>8 DEF CaptureInv

\* The sweep chooses rows of its entry that were not captured.
LEMMA CaptureAtScanSources ==
    ASSUME TypeInv, LinkInv, NEW w \in Writers, CaptureInv(w), ScanSources(w)
    PROVE  CaptureInv(w)'
<1> TypeOK
  BY DEF TypeInv
<1>1. /\ pc[w] = "scan_sources" /\ pc'[w] = "retire_sources" /\ job' = job /\ pos' = pos
      /\ wsource' = wsource /\ wdocument' = wdocument /\ staleD' = staleD
      /\ \A s \in staleS'[w] : s[1] = job[w].registry /\ s[2] \notin Captured(w)
  BY DEF ScanSources, Goto, written, TypeOK
<1>2. Captured(w)' = Captured(w) /\ Done(w)' = Done(w)
  BY <1>1 DEF Captured, Done
<1>3. SweepIsConfined(w)'
  BY <1>1, <1>2 DEF CaptureInv, SweepIsConfined
<1>4. WritesAreCaptured(w)'
  BY <1>1, <1>2 DEF CaptureInv, WritesAreCaptured
<1>5. CaptureIsWritten(w)'
  BY <1>1, <1>2 DEF CaptureInv, CaptureIsWritten, InTransaction
<1> QED BY <1>3, <1>4, <1>5 DEF CaptureInv

\* It retires none of the captured ones.
LEMMA CaptureAtRetireSource ==
    ASSUME TypeInv, LinkInv, NEW w \in Writers, CaptureInv(w),
           NEW t \in SourceKeys, RetireSource(w, t)
    PROVE  CaptureInv(w)'
<1> TypeOK /\ JobsAreRunning /\ SweepsReachRows
  BY DEF TypeInv
<1>1. /\ pc[w] = "retire_sources" /\ pc' = pc /\ job' = job /\ pos' = pos
      /\ wdocument' = wdocument /\ staleD' = staleD
      /\ t \in staleS[w] /\ staleS'[w] \subseteq staleS[w]
  BY DEF RetireSource, TypeOK
<1>2. ~wsource'[w][t].active /\ \A s \in SourceKeys \ {t} : wsource'[w][s] = wsource[w][s]
  <2>1. SourceView(w)[t] \in SourceRows
    BY <1>1, ViewTypes DEF SweepsReachRows, SourceTable
  <2>2. wsource'[w][t] = [SourceView(w)[t] EXCEPT !.active = FALSE]
    BY DEF RetireSource, TypeOK, SourceTable
  <2> QED BY <2>1, <2>2, RetiredRow DEF SourceRows
<1>3. t[1] = job[w].registry /\ t[2] \notin Captured(w)
  BY <1>1 DEF CaptureInv, SweepIsConfined
<1>4. Captured(w)' = Captured(w) /\ Done(w)' = Done(w)
  BY <1>1 DEF Captured, Done
<1>5. SweepIsConfined(w)'
  BY <1>1, <1>4 DEF CaptureInv, SweepIsConfined
<1>6. WritesAreCaptured(w)'
  <2>1. ASSUME NEW s \in SourceKeys, wsource'[w][s] # NoRow
        PROVE  /\ s[1] = job[w].registry
               /\ IF wsource'[w][s].active
                  THEN \E i \in DOMAIN job[w].records :
                         /\ job[w].records[i].native = s[2]
                         /\ Home(wsource'[w][s]) = {<<job[w].corpus, job[w].records[i].body>>}
                  ELSE s[2] \notin Captured(w)
    BY <1>2, <1>3, <2>1 DEF CaptureInv, WritesAreCaptured
  <2> QED BY <1>1, <1>4, <2>1 DEF CaptureInv, WritesAreCaptured
<1>7. CaptureIsWritten(w)'
  <2>1. ASSUME NEW i \in 1..Done(w), NEW s, s = <<job[w].registry, job[w].records[i].native>>
        PROVE  wsource'[w][s] = wsource[w][s]
    <3>1. i \in DOMAIN job[w].records /\ s \in SourceKeys
      BY <1>1, <2>1, DoneRecords, KeysOfRecord DEF InTransaction
    <3>2. s # t
      BY <1>3, <2>1, <3>1 DEF Captured
    <3> QED BY <1>2, <3>1, <3>2
  <2> QED BY <1>1, <1>4, <2>1 DEF CaptureInv, CaptureIsWritten, InTransaction
<1> QED BY <1>5, <1>6, <1>7 DEF CaptureInv

\* What the transaction has captured and written is supported in its own view,
\* so the sweep over the documents passes it by.
LEMMA CaptureAtScanDocuments ==
    ASSUME TypeInv, LinkInv, NEW w \in Writers, CaptureInv(w), ScanDocuments(w)
    PROVE  CaptureInv(w)'
<1> TypeOK /\ JobsAreRunning
  BY DEF TypeInv
<1>1. /\ pc[w] = "retire_sources" /\ pc'[w] = "retire_documents" /\ job' = job /\ pos' = pos
      /\ wsource' = wsource /\ wdocument' = wdocument /\ staleS' = staleS /\ staleS[w] = {}
      /\ \A d \in staleD'[w] : ~IsSupported(SourceView(w), LinkView(w), d)
  BY DEF ScanDocuments, Goto, written, TypeOK
<1>2. Captured(w)' = Captured(w) /\ Done(w)' = Done(w)
  BY <1>1 DEF Captured, Done
<1>3. SweepIsConfined(w)'
  BY <1>1, <1>2 DEF CaptureInv, SweepIsConfined
<1>4. WritesAreCaptured(w)'
  BY <1>1, <1>2 DEF CaptureInv, WritesAreCaptured
<1>5. CaptureIsWritten(w)'
  <2>1. ASSUME NEW i \in 1..Done(w),
               NEW s, s = <<job[w].registry, job[w].records[i].native>>,
               NEW d, d = <<job[w].corpus, job[w].records[i].body>>,
               Home(wsource[w][s]) = {d}, wsource[w][s].active
        PROVE  d \notin staleD'[w]
    <3>1. s \in SourceKeys
      BY <1>1, <2>1, DoneRecords, KeysOfRecord DEF InTransaction
    <3>2. wsource[w][s] # NoRow
      BY <2>1 DEF Home
    <3>3. SourceView(w)[s] = wsource[w][s]
      BY <3>1, <3>2, ViewOf
    <3>4. LinkView(w)[s] = {d}
      BY <1>1, <2>1, <3>1, <3>3 DEF LinkInv, LinksFollowSources
    <3>5. IsSupported(SourceView(w), LinkView(w), d)
      BY <2>1, <3>1, <3>2, <3>3, <3>4 DEF IsSupported, IsCurrent
    <3> QED BY <1>1, <3>5
  <2> QED BY <1>1, <1>2, <2>1 DEF CaptureInv, CaptureIsWritten, InTransaction
<1> QED BY <1>3, <1>4, <1>5 DEF CaptureInv

\* It retires only what it has chosen.
LEMMA CaptureAtRetireDocument ==
    ASSUME TypeInv, LinkInv, NEW w \in Writers, CaptureInv(w),
           NEW e \in DocumentKeys, RetireDocument(w, e)
    PROVE  CaptureInv(w)'
<1> TypeOK
  BY DEF TypeInv
<1>1. /\ pc[w] = "retire_documents" /\ pc' = pc /\ job' = job /\ pos' = pos
      /\ wsource' = wsource /\ staleS' = staleS
      /\ e \in staleD[w] /\ staleD'[w] \subseteq staleD[w]
      /\ wdocument'[w][e] = "retired"
      /\ \A d : d # e => wdocument'[w][d] = wdocument[w][d]
  BY DEF RetireDocument, TypeOK, DocumentTable
<1>2. Captured(w)' = Captured(w) /\ Done(w)' = Done(w)
  BY <1>1 DEF Captured, Done
<1>3. SweepIsConfined(w)'
  BY <1>1, <1>2 DEF CaptureInv, SweepIsConfined
<1>4. WritesAreCaptured(w)'
  <2>1. \A d \in DocumentKeys : wdocument'[w][d] = "valid" => wdocument[w][d] = "valid"
    BY <1>1
  <2> QED BY <1>1, <1>2, <2>1 DEF CaptureInv, WritesAreCaptured
<1>5. CaptureIsWritten(w)'
  BY <1>1, <1>2 DEF CaptureInv, CaptureIsWritten, InTransaction
<1> QED BY <1>3, <1>4, <1>5 DEF CaptureInv

\* Every step of a writer keeps what is said of it and its capture.
LEMMA CaptureOfWriter ==
    ASSUME TypeInv, LinkInv, NEW w \in Writers, CaptureInv(w), Step(w)
    PROVE  CaptureInv(w)'
<1> TypeOK
  BY DEF TypeInv
<1>1. ASSUME Commit(w) \/ Rollback(w) \/ RecordFailure(w) \/ Crash(w) PROVE CaptureInv(w)'
  <2>1. Discard(w) /\ pc'[w] \in {"idle", "failed"}
    BY <1>1 DEF Commit, Rollback, RecordFailure, Crash, Close, Goto, TypeOK
  <2> QED BY <2>1, CaptureAfterDiscard
<1> QED
  BY <1>1, CaptureAtStart, CaptureAtSource, CaptureAtDocument, CaptureAtRelink,
     CaptureAtScanSources, CaptureAtRetireSource, CaptureAtScanDocuments,
     CaptureAtRetireDocument
  DEF Step, Work, StatementError, DeadlockVictim

\* Next is a step of some writer.
LEMMA NextIsStep == Next => \E w \in Writers : Step(w)
BY DEF Next, Step

\* Nothing is written and nothing chosen when no process has started.
LEMMA CaptureInitially == Init => \A w \in Writers : CaptureInv(w)
<1> SUFFICES ASSUME Init, NEW w \in Writers PROVE CaptureInv(w)
  OBVIOUS
<1> QED BY NothingWritten DEF Init, InTransaction

\* Every step keeps what is said of all writers and their captures.
LEMMA CaptureStep ==
    TypeInv /\ LinkInv /\ (\A w \in Writers : CaptureInv(w)) /\ [Next]_vars
        => \A w \in Writers : CaptureInv(w)'
<1> SUFFICES ASSUME TypeInv, LinkInv, \A w \in Writers : CaptureInv(w), [Next]_vars,
                    NEW v \in Writers
             PROVE  CaptureInv(v)'
  OBVIOUS
<1>1. ASSUME NEW w \in Writers, Step(w) PROVE CaptureInv(v)'
  <2>1. CASE v = w BY <1>1, <2>1, CaptureOfWriter
  <2>2. CASE v # w BY <1>1, <2>2, Isolation, CaptureOfBystander DEF TypeInv
  <2> QED BY <2>1, <2>2
<1>2. CASE UNCHANGED vars
  BY <1>2, CaptureOfBystander DEF vars, store, written, sweep, Same
<1> QED BY <1>1, <1>2, NextIsStep

\* The inductive invariant of the writer holds for any number of concurrent
\* ingests: tables and locks, and what each writer has made of its capture.
THEOREM IngestInvariant == Spec => []IngestInv
<1> DEFINE Inv == TypeInv /\ LinkInv /\ \A w \in Writers : CaptureInv(w)
<1>1. Init => Inv
  BY TypesInitially, LinksInitially, CaptureInitially
<1>2. Inv /\ [Next]_vars => Inv'
  BY TypeOKStep, JobsStep, SweepStep, LocksStep, LinksStep, CaptureStep DEF TypeInv, LinkInv
<1>3. Inv => IngestInv
  BY DEF TypeInv, LinkInv, CaptureInv, IngestInv
<1> QED
  BY <1>1, <1>2, <1>3, PTL DEF Spec

-----------------------------------------------------------------------------
(* What a step does to the knowledge base                                  *)

\* The parts of the invariant by the names they are proved under.
LEMMA InvariantParts == IngestInv <=> TypeInv /\ LinkInv /\ \A w \in Writers : CaptureInv(w)
BY DEF IngestInv, TypeInv, LinkInv, CaptureInv

\* Only a commit changes the tables.
LEMMA StoreSteps ==
    ASSUME NEW w \in Writers, Step(w), ~Commit(w)
    PROVE  UNCHANGED store
BY DEF Step, Work, StatementError, DeadlockVictim, Rollback, StartRun, UpsertSource,
       UpsertDocument, Relink, ScanSources, RetireSource, ScanDocuments, RetireDocument,
       RecordFailure, Crash

\* A commit is the success of its run.
LEMMA CommitSucceeds ==
    ASSUME TypeInv, NEW w \in Writers, Commit(w)
    PROVE  Succeeds(w)
<1>1. pc[w] # "idle"
  BY DEF Commit
<1>2. job[w].run \in DOMAIN runs /\ runs[job[w].run] = "running"
  BY <1>1 DEF TypeInv, JobsAreRunning, JobIsRunning
<1>3. runs'[job[w].run] = "succeeded"
  BY <1>2 DEF Commit
<1> QED BY <1>1, <1>2, <1>3 DEF Succeeds

\* ... and nothing else is: the steps of other writers and the end of a run
\* that failed do not mark it.
LEMMA SuccessIsCommit ==
    ASSUME TypeInv, NEW v \in Writers, NEW w \in Writers, Step(w), Succeeds(v)
    PROVE  v = w /\ Commit(w)
<1> TypeOK /\ JobsAreRunning
  BY DEF TypeInv
<1>1. /\ pc[v] # "idle" /\ job[v].run \in DOMAIN runs
      /\ runs[job[v].run] = "running" /\ runs'[job[v].run] = "succeeded"
  BY DEF Succeeds, JobsAreRunning, JobIsRunning
<1>2. runs \in Seq({"running", "succeeded", "failed"})
  BY DEF TypeOK
<1>3. runs' # runs
  BY <1>1
<1>4. ASSUME NEW def \in Definitions, NEW records \in Captures, StartRun(w, def, records)
      PROVE  FALSE
  <2>1. runs' = Append(runs, "running")
    BY <1>4 DEF StartRun
  <2> QED BY <1>1, <1>2, <2>1
<1>5. ASSUME RecordFailure(w) PROVE FALSE
  <2>1. runs' = [runs EXCEPT ![job[w].run] = "failed"]
    BY <1>5 DEF RecordFailure
  <2> QED BY <1>1, <2>1
<1>6. ASSUME Commit(w) PROVE v = w
  <2>1. runs' = [runs EXCEPT ![job[w].run] = "succeeded"] /\ pc[w] # "idle"
    BY <1>6 DEF Commit
  <2>2. job[v].run = job[w].run
    BY <1>1, <2>1
  <2> QED BY <1>1, <2>1, <2>2 DEF JobsAreRunning
<1> QED
  BY <1>3, <1>4, <1>5, <1>6
  DEF Step, Work, StatementError, DeadlockVictim, Rollback, UpsertSource,
      UpsertDocument, Relink, ScanSources, RetireSource, ScanDocuments, RetireDocument, Crash

\* An empty capture commits what it has found.
LEMMA EmptyCommit ==
    ASSUME IngestInv, NEW w \in Writers, Commit(w), job[w].records = <<>>
    PROVE  UNCHANGED store
<1> TypeOK /\ CaptureInv(w) /\ LinkInv
  BY InvariantParts DEF TypeInv
<1>1. pc[w] = "finish"
  BY DEF Commit, CaptureInv, SweepIsConfined
<1>2. wsource[w] = NoSources /\ wdocument[w] = NoDocuments
  BY <1>1 DEF CaptureInv, SweepIsConfined
<1>3. \A s \in SourceKeys : wlink[w][s] = {}
  BY <1>2 DEF LinkInv, WritesAreConfined, NoSources
<1>4. sources' = sources
  BY <1>2 DEF Commit, SourceView, NoSources, TypeOK, SourceTable
<1>5. documents' = documents
  BY <1>2 DEF Commit, DocumentView, NoDocuments, TypeOK, DocumentTable
<1>6. links' = links
  BY <1>3 DEF Commit, LinkView, TypeOK, LinkTable
<1> QED BY <1>4, <1>5, <1>6 DEF store

\* A write takes effect as a whole with the success of its run or not at all,
\* for any number of ingests, and an empty capture has no effect.
THEOREM SuccessAlone == Spec => OnlySuccessChangesKnowledge
<1>1. IngestInv /\ [Next]_vars =>
         (store' # store => \E w \in Writers : Succeeds(w) /\ job[w].records # <<>>)
  <2> SUFFICES ASSUME IngestInv, Next, store' # store
               PROVE  \E w \in Writers : Succeeds(w) /\ job[w].records # <<>>
    BY DEF vars
  <2>1. PICK w \in Writers : Step(w)
    BY NextIsStep
  <2>2. Commit(w)
    BY <2>1, StoreSteps
  <2> QED BY <2>1, <2>2, InvariantParts, CommitSucceeds, EmptyCommit
<1> QED
  BY <1>1, IngestInvariant, PTL DEF Spec, OnlySuccessChangesKnowledge

\* Nothing becomes searchable except by the commit of a run that captured its
\* text, from this source or from another that shares its lost document.
THEOREM Exposure == Spec => ExposureNeedsCapture
<1>1. IngestInv /\ [Next]_vars =>
         \A row \in Matches(sources', documents', links', Corpora) :
            row \in Matches(sources, documents, links, Corpora)
            \/ \E w \in Writers :
                  /\ Succeeds(w)
                  /\ \E i \in DOMAIN job[w].records :
                        /\ row[1] = <<job[w].corpus, job[w].records[i].body>>
                        /\ \/ row[2] = <<job[w].registry, job[w].records[i].native>>
                           \/ IsCurrent(sources[row[2]]) /\ row[1] \in links[row[2]]
  <2> SUFFICES ASSUME IngestInv, [Next]_vars,
                      NEW row \in Matches(sources', documents', links', Corpora),
                      row \notin Matches(sources, documents, links, Corpora)
               PROVE  \E w \in Writers :
                         /\ Succeeds(w)
                         /\ \E i \in DOMAIN job[w].records :
                               /\ row[1] = <<job[w].corpus, job[w].records[i].body>>
                               /\ \/ row[2] = <<job[w].registry, job[w].records[i].native>>
                                  \/ IsCurrent(sources[row[2]]) /\ row[1] \in links[row[2]]
    OBVIOUS
  <2> TypeInv /\ LinkInv
    BY InvariantParts
  <2>1. store' # store
    BY DEF store
  <2>2. PICK w \in Writers : Commit(w) /\ Step(w)
    BY <2>1, StoreSteps, NextIsStep DEF vars
  <2>3. CaptureInv(w)
    BY InvariantParts
  <2> DEFINE d == row[1]
             s == row[2]
  <2>4. /\ row = <<d, s>> /\ d \in DocumentKeys /\ s \in SourceKeys /\ d[1] \in Corpora
        /\ d \in LinkView(w)[s] /\ DocumentView(w)[d] = "valid" /\ IsCurrent(SourceView(w)[s])
    BY <2>2 DEF Matches, Commit
  <2>5. \E i \in DOMAIN job[w].records :
           /\ d = <<job[w].corpus, job[w].records[i].body>>
           /\ \/ s = <<job[w].registry, job[w].records[i].native>>
              \/ IsCurrent(sources[s]) /\ d \in links[s]
    <3>1. CASE wsource[w][s] # NoRow
      <4>1. SourceView(w)[s] = wsource[w][s] /\ wsource[w][s].active
        BY <2>4, <3>1, ViewOf DEF IsCurrent
      <4>2. LinkView(w)[s] = Home(wsource[w][s])
        BY <2>2, <2>4, <4>1 DEF LinkInv, LinksFollowSources, Commit
      <4>3. s[1] = job[w].registry /\ s = <<s[1], s[2]>>
        BY <2>3, <2>4, <3>1 DEF CaptureInv, WritesAreCaptured, SourceKeys
      <4>4. PICK i \in DOMAIN job[w].records :
               /\ job[w].records[i].native = s[2]
               /\ Home(wsource[w][s]) = {<<job[w].corpus, job[w].records[i].body>>}
        BY <2>3, <2>4, <3>1, <4>1 DEF CaptureInv, WritesAreCaptured
      <4>5. d \in Home(wsource[w][s])
        BY <2>4, <4>2
      <4> QED BY <4>3, <4>4, <4>5
    <3>2. CASE wsource[w][s] = NoRow
      <4>1. d \in links[s] /\ IsCurrent(sources[s])
        BY <2>4, <3>2, ViewOf DEF LinkInv, WritesAreConfined
      <4>2. documents[d] # "valid"
        BY <2>4, <4>1 DEF Matches
      <4>3. wdocument[w][d] = "valid"
        BY <2>4, <4>2 DEF DocumentView
      <4> QED BY <2>3, <2>4, <4>1, <4>3 DEF CaptureInv, WritesAreCaptured
    <3> QED BY <3>1, <3>2
  <2> QED BY <2>2, <2>5, CommitSucceeds
<1> QED
  BY <1>1, IngestInvariant, PTL DEF Spec, ExposureNeedsCapture

\* A source is retired only by a run of its own entry that did not capture it.
THEOREM Retirement == Spec => RetirementNeedsAbsence
<1>1. IngestInv /\ [Next]_vars =>
         \A s \in SourceKeys :
            IsCurrent(sources[s]) /\ ~IsCurrent(sources'[s]) =>
              \E w \in Writers :
                  /\ Succeeds(w)
                  /\ job[w].registry = s[1]
                  /\ job[w].records # <<>>
                  /\ s[2] \notin Captured(w)
  <2> SUFFICES ASSUME IngestInv, [Next]_vars, NEW s \in SourceKeys,
                      IsCurrent(sources[s]), ~IsCurrent(sources'[s])
               PROVE  \E w \in Writers :
                          /\ Succeeds(w)
                          /\ job[w].registry = s[1]
                          /\ job[w].records # <<>>
                          /\ s[2] \notin Captured(w)
    OBVIOUS
  <2> TypeInv
    BY InvariantParts
  <2>1. store' # store
    BY DEF store
  <2>2. PICK w \in Writers : Commit(w) /\ Step(w)
    BY <2>1, StoreSteps, NextIsStep DEF vars
  <2>3. wsource[w][s] # NoRow /\ ~wsource[w][s].active
    BY <2>2, ViewOf DEF Commit, IsCurrent
  <2>4. job[w].registry = s[1] /\ s[2] \notin Captured(w)
    BY <2>3, InvariantParts DEF CaptureInv, WritesAreCaptured
  <2> QED BY <2>1, <2>2, <2>4, CommitSucceeds, EmptyCommit
<1> QED
  BY <1>1, IngestInvariant, PTL DEF Spec, RetirementNeedsAbsence

\* When a run succeeds, what it captured last under each native id is found,
\* whatever other ingests do at the same time.
THEOREM SuccessSearchable == Spec => SuccessMeansSearchable
<1>1. IngestInv /\ [Next]_vars =>
         \A w \in Writers : Succeeds(w) =>
            \A i \in DOMAIN job[w].records :
               LET r == job[w].records[i] IN
               (\A j \in DOMAIN job[w].records :
                     job[w].records[j].native = r.native => j <= i)
               => <<<<job[w].corpus, r.body>>, <<job[w].registry, r.native>>>>
                      \in Matches(sources', documents', links', Corpora)
  <2> SUFFICES ASSUME IngestInv, [Next]_vars, NEW w \in Writers, Succeeds(w),
                      NEW i \in DOMAIN job[w].records,
                      \A j \in DOMAIN job[w].records :
                         job[w].records[j].native = job[w].records[i].native => j <= i
               PROVE  <<<<job[w].corpus, job[w].records[i].body>>,
                        <<job[w].registry, job[w].records[i].native>>>>
                          \in Matches(sources', documents', links', Corpora)
    OBVIOUS
  <2> TypeInv /\ LinkInv /\ CaptureInv(w)
    BY InvariantParts
  <2> DEFINE s == <<job[w].registry, job[w].records[i].native>>
             d == <<job[w].corpus, job[w].records[i].body>>
  <2>1. Commit(w)
    <3>1. Next
      BY DEF Succeeds, vars
    <3> QED BY <3>1, NextIsStep, SuccessIsCommit
  <2>2. job[w] \in Jobs /\ job[w].records \in Seq(Records)
    BY <2>1, CapturesAssumption DEF TypeInv, JobsAreRunning, JobIsRunning, Commit, Jobs
  <2>3. InTransaction(w) /\ Done(w) = Len(job[w].records) /\ pc[w] \notin {"document", "relink"}
    BY <2>1 DEF Commit, InTransaction, Done
  <2>4. wdocument[w][d] = "valid" /\ Home(wsource[w][s]) = {d} /\ wsource[w][s].active
    <3>1. i \in 1..Done(w)
      BY <2>2, <2>3
    <3>2. \A j \in 1..Done(w) :
             job[w].records[j].native = job[w].records[i].native => j <= i
      BY <2>2, <2>3
    <3> HIDE DEF s, d
    <3>3. \/ Home(wsource[w][s]) = {d} /\ wsource[w][s].active
          \/ pc[w] \in {"document", "relink"} /\ s = Key(w)
      BY <2>3, <3>1, <3>2 DEF CaptureInv, CaptureIsWritten, s, d
    <3>4. wdocument[w][d] = "valid"
      BY <2>3, <3>1, <3>2 DEF CaptureInv, CaptureIsWritten, d
    <3> QED BY <2>3, <3>3, <3>4
  <2>5. s \in SourceKeys /\ d \in DocumentKeys /\ d[1] \in Corpora
    BY <2>2, KeysOfRecord DEF Jobs
  <2>6. wsource[w][s] # NoRow
    BY <2>4 DEF Home
  <2>7. SourceView(w)[s] = wsource[w][s] /\ LinkView(w)[s] = {d}
    BY <2>3, <2>4, <2>5, <2>6, ViewOf DEF LinkInv, LinksFollowSources
  <2>8. DocumentView(w)[d] = "valid"
    BY <2>4, <2>5 DEF DocumentView
  <2> QED
    BY <2>1, <2>4, <2>5, <2>6, <2>7, <2>8 DEF Commit, Matches, IsCurrent
<1> QED
  BY <1>1, IngestInvariant, PTL DEF Spec, SuccessMeansSearchable

\* A run ends once: what it was marked with, 'succeeded' or 'failed', no step of
\* its own or of another process marks differently, for any number of writers.
THEOREM RunsEndOnce ==
    Spec => [][\A k \in DOMAIN runs :
                  runs[k] # "running" => k \in DOMAIN runs' /\ runs'[k] = runs[k]]_vars
<1> DEFINE Kept == \A k \in DOMAIN runs :
                      runs[k] # "running" => k \in DOMAIN runs' /\ runs'[k] = runs[k]
<1>1. TypeInv /\ [Next]_vars => Kept
  <2> SUFFICES ASSUME TypeInv, [Next]_vars, NEW k \in DOMAIN runs, runs[k] # "running"
               PROVE  k \in DOMAIN runs' /\ runs'[k] = runs[k]
    OBVIOUS
  <2>1. TypeOK /\ runs \in Seq({"running", "succeeded", "failed"})
    BY DEF TypeInv, TypeOK
  <2>2. CASE runs' = runs
    BY <2>2
  <2>3. CASE runs' = Append(runs, "running")
    BY <2>1, <2>3
  <2>4. ASSUME NEW w \in Writers, pc[w] # "idle", NEW outcome \in {"succeeded", "failed"},
               runs' = [runs EXCEPT ![job[w].run] = outcome]
        PROVE  k \in DOMAIN runs' /\ runs'[k] = runs[k]
    <3>1. runs[job[w].run] = "running"
      BY <2>4 DEF TypeInv, JobsAreRunning, JobIsRunning
    <3> QED
      BY <2>4, <3>1
  <2>5. ASSUME NEW w \in Writers, Step(w)
        PROVE  \/ runs' = runs \/ runs' = Append(runs, "running")
               \/ \E outcome \in {"succeeded", "failed"} :
                     pc[w] # "idle" /\ runs' = [runs EXCEPT ![job[w].run] = outcome]
    BY <2>5 DEF Step, Work, StatementError, DeadlockVictim, Rollback, StartRun, UpsertSource,
       UpsertDocument, Relink, ScanSources, RetireSource, ScanDocuments, RetireDocument,
       RecordFailure, Crash, Commit
  <2> QED
    BY <2>2, <2>3, <2>4, <2>5, NextIsStep DEF vars
<1>2. Spec => []TypeInv
  BY LocksInvariant, PTL
<1> QED
  BY <1>1, <1>2, PTL DEF Spec

-----------------------------------------------------------------------------
(* One transaction at a time                                               *)

\* No two ingests are in their transactions at the same time.
NoOverlap == \A v, w \in Writers : InTransaction(v) /\ InTransaction(w) => v = w

\* What an undisturbed writer sees is what the tables are going to be, so it can
\* be said of its view: the documents of current sources are valid (but for the
\* record being written), and once the sweeps are chosen, a source or document
\* that is to go is either gone or chosen.
SerialInv(w) ==
    /\ pc[w] # "idle" => [registry |-> job[w].registry, corpus |-> job[w].corpus] \in Definitions
    /\ \A s \in SourceKeys :
          IsCurrent(SourceView(w)[s]) /\ ~(pc[w] \in {"document", "relink"} /\ s = Key(w))
              => \A d \in LinkView(w)[s] : DocumentView(w)[d] = "valid" /\ d \notin staleD[w]
    /\ pc[w] \in {"retire_sources", "retire_documents"} =>
          \A s \in SourceKeys :
              s[1] = job[w].registry /\ s[2] \notin Captured(w) /\ IsCurrent(SourceView(w)[s])
                  => s \in staleS[w]
    /\ pc[w] = "retire_documents" =>
          \A d \in DocumentKeys :
              DocumentView(w)[d] = "valid" =>
                  d \in staleD[w] \/ IsSupported(SourceView(w), LinkView(w), d)

\* A step that leaves the views and the sweeps of w alone, between statements
\* of the loop or before it.
LEMMA SerialUndisturbed ==
    ASSUME NEW w \in Writers, SerialInv(w), staleD[w] = {},
           SourceView(w)' = SourceView(w), LinkView(w)' = LinkView(w),
           DocumentView(w)' = DocumentView(w), staleD'[w] = {},
           pc'[w] \notin {"retire_sources", "retire_documents"},
           pc'[w] # "idle" =>
               [registry |-> job'[w].registry, corpus |-> job'[w].corpus] \in Definitions,
           pc[w] \notin {"document", "relink"}
    PROVE  SerialInv(w)'
BY DEF SerialInv

\* A process outside its transaction sees the tables, where the documents of
\* current sources are valid.
LEMMA SerialOutside ==
    ASSUME IngestInv', ValidIffSupported', NEW w \in Writers, ~InTransaction(w)',
           pc'[w] # "idle" =>
               [registry |-> job'[w].registry, corpus |-> job'[w].corpus] \in Definitions
    PROVE  SerialInv(w)'
<1> TypeOK' /\ LinkInv' /\ CaptureInv(w)'
  BY DEF IngestInv, LinkInv, CaptureInv
<1>1. pc'[w] \in {"idle", "failed"}
  BY DEF InTransaction
<1>2. /\ wsource'[w] = NoSources /\ wdocument'[w] = NoDocuments /\ staleD'[w] = {}
      /\ \A s \in SourceKeys : wlink'[w][s] = {}
  BY <1>1 DEF LinkInv, WritesAreConfined, NoSources, CaptureInv, SweepIsConfined
<1>3. SourceView(w)' = sources' /\ DocumentView(w)' = documents' /\ LinkView(w)' = links'
  <2>1. SourceView(w)' = sources'
    BY <1>2 DEF SourceView, NoSources, TypeOK, SourceTable
  <2>2. DocumentView(w)' = documents'
    BY <1>2 DEF DocumentView, NoDocuments, TypeOK, DocumentTable
  <2>3. LinkView(w)' = links'
    BY <1>2 DEF LinkView, TypeOK, LinkTable
  <2> QED BY <2>1, <2>2, <2>3
<1>4. ASSUME NEW s \in SourceKeys, IsCurrent(sources'[s]), NEW d \in links'[s]
      PROVE  documents'[d] = "valid"
  <2>1. d \in DocumentKeys
    BY <1>4 DEF TypeOK, LinkTable
  <2> QED BY <1>4, <2>1 DEF ValidIffSupported, IsSupported
<1> QED BY <1>1, <1>2, <1>3, <1>4 DEF SerialInv

\* A writer that takes no step sees what it saw, as long as nothing is committed.
LEMMA SerialBystander ==
    ASSUME NEW v \in Writers, SerialInv(v), Same(v), UNCHANGED store
    PROVE  SerialInv(v)'
<1>1. /\ SourceView(v)' = SourceView(v) /\ DocumentView(v)' = DocumentView(v)
      /\ LinkView(v)' = LinkView(v) /\ Captured(v)' = Captured(v) /\ Key(v)' = Key(v)
  BY DEF Same, store, SourceView, DocumentView, LinkView, Captured, Key, Record
<1> QED BY <1>1 DEF SerialInv, Same

\* Every run works for an entry of a registry file.
LEMMA JobOfDefinition ==
    ASSUME TypeOK, NEW w \in Writers, Step(w), SerialInv(w), pc'[w] # "idle"
    PROVE  [registry |-> job'[w].registry, corpus |-> job'[w].corpus] \in Definitions
<1>1. ASSUME NEW def \in Definitions, NEW records \in Captures, StartRun(w, def, records)
      PROVE  [registry |-> job'[w].registry, corpus |-> job'[w].corpus] \in Definitions
  <2>1. job'[w].registry = def.registry /\ job'[w].corpus = def.corpus
    BY <1>1 DEF StartRun, TypeOK
  <2>2. [registry |-> def.registry, corpus |-> def.corpus] = def
    BY DefinitionsAssumption
  <2> QED BY <2>1, <2>2
<1>2. CASE job' = job /\ pc[w] # "idle"
  BY <1>2 DEF SerialInv
<1> QED
  BY <1>1, <1>2 DEF Step, Work, StatementError, DeadlockVictim, Rollback, UpsertSource,
     UpsertDocument, Relink, ScanSources, RetireSource, ScanDocuments, RetireDocument,
     RecordFailure, Crash, Commit, Close, Goto, InTransaction, TypeOK

\* At the commit what is valid in the view is what is supported in the view.
LEMMA SerialCommit ==
    ASSUME IngestInv, ValidIffSupported, NEW w \in Writers, SerialInv(w), Commit(w)
    PROVE  ValidIffSupported'
<1> TypeInv /\ TypeOK /\ LinkInv /\ CaptureInv(w)
  BY InvariantParts DEF TypeInv
<1>1. CASE job[w].records = <<>>
  BY <1>1, EmptyCommit DEF store, ValidIffSupported
<1>2. CASE job[w].records # <<>>
  <2>1. pc[w] = "retire_documents" /\ staleD[w] = {}
    BY <1>2 DEF Commit, CaptureInv, SweepIsConfined
  <2>2. sources' = SourceView(w) /\ documents' = DocumentView(w) /\ links' = LinkView(w)
    BY DEF Commit
  <2>3. ASSUME NEW d \in DocumentKeys
        PROVE  DocumentView(w)[d] = "valid" <=> IsSupported(SourceView(w), LinkView(w), d)
    BY <2>1 DEF SerialInv, IsSupported
  <2> QED BY <2>2, <2>3 DEF ValidIffSupported
<1> QED BY <1>1, <1>2

\* A process that starts sees the tables, where every current source is found.
LEMMA SerialAtStart ==
    ASSUME IngestInv, NEW w \in Writers, SerialInv(w),
           NEW def \in Definitions, NEW records \in Captures, StartRun(w, def, records)
    PROVE  SerialInv(w)'
<1> TypeOK /\ CaptureInv(w)
  BY InvariantParts DEF TypeInv
<1>1. /\ pc[w] = "idle" /\ pc'[w] \in {"finish", "source"}
      /\ sources' = sources /\ documents' = documents /\ links' = links
      /\ wsource' = wsource /\ wdocument' = wdocument /\ wlink' = wlink /\ staleD' = staleD
      /\ job'[w].registry = def.registry /\ job'[w].corpus = def.corpus
  BY DEF StartRun, Goto, store, written, sweep, TypeOK
<1>2. [registry |-> def.registry, corpus |-> def.corpus] = def
  BY DefinitionsAssumption
<1>3. /\ SourceView(w)' = SourceView(w) /\ DocumentView(w)' = DocumentView(w)
      /\ LinkView(w)' = LinkView(w)
  BY <1>1 DEF SourceView, DocumentView, LinkView
<1>4. staleD[w] = {}
  BY <1>1 DEF CaptureInv, SweepIsConfined
<1> QED BY <1>1, <1>2, <1>3, <1>4, SerialUndisturbed

\* A source that is upserted may be current before its document is valid.
LEMMA SerialAtSource ==
    ASSUME IngestInv, NEW w \in Writers, SerialInv(w), UpsertSource(w)
    PROVE  SerialInv(w)'
<1> TypeInv /\ TypeOK
  BY InvariantParts DEF TypeInv
<1>1. /\ pc[w] = "source" /\ pc'[w] = "document" /\ job' = job /\ pos' = pos
      /\ sources' = sources /\ documents' = documents /\ links' = links
      /\ wdocument' = wdocument /\ wlink' = wlink /\ staleD' = staleD
  BY DEF UpsertSource, Goto, store, sweep, TypeOK
<1>2. \A s \in SourceKeys \ {Key(w)} : wsource'[w][s] = wsource[w][s]
  BY UpsertedRow
<1>3. Key(w)' = Key(w) /\ LinkView(w)' = LinkView(w) /\ DocumentView(w)' = DocumentView(w)
      /\ \A s \in SourceKeys \ {Key(w)} : SourceView(w)'[s] = SourceView(w)[s]
  BY <1>1, <1>2 DEF Key, Record, LinkView, DocumentView, SourceView
<1> QED BY <1>1, <1>3 DEF SerialInv

\* Documents only become valid.
LEMMA SerialAtDocument ==
    ASSUME IngestInv, NEW w \in Writers, SerialInv(w), UpsertDocument(w)
    PROVE  SerialInv(w)'
<1> TypeInv /\ TypeOK
  BY InvariantParts DEF TypeInv
<1>1. /\ pc[w] = "document" /\ pc'[w] = "relink" /\ job' = job /\ pos' = pos
      /\ sources' = sources /\ documents' = documents /\ links' = links
      /\ wsource' = wsource /\ wlink' = wlink /\ staleD' = staleD
  BY DEF UpsertDocument, Goto, store, sweep, TypeOK
<1>2. Key(w)' = Key(w) /\ LinkView(w)' = LinkView(w) /\ SourceView(w)' = SourceView(w)
  BY <1>1 DEF Key, Record, LinkView, SourceView
<1>3. \A d \in DocumentKeys : DocumentView(w)[d] = "valid" => DocumentView(w)'[d] = "valid"
  BY <1>1 DEF UpsertDocument, DocumentView, TypeOK, DocumentTable
<1>4. \A s \in SourceKeys : LinkView(w)[s] \subseteq DocumentKeys
  BY ViewTypes DEF LinkTable
<1> QED BY <1>1, <1>2, <1>3, <1>4 DEF SerialInv

\* With its link the source is found under its own document, which is valid.
LEMMA SerialAtRelink ==
    ASSUME IngestInv, NEW w \in Writers, SerialInv(w), Relink(w)
    PROVE  SerialInv(w)'
<1> TypeInv /\ TypeOK /\ JobsAreRunning /\ CaptureInv(w)
  BY InvariantParts DEF TypeInv
<1>1. /\ pc[w] = "relink" /\ pc'[w] \in {"source", "scan_sources"} /\ job' = job
      /\ sources' = sources /\ documents' = documents /\ links' = links
      /\ wsource' = wsource /\ wdocument' = wdocument /\ staleD' = staleD
  BY DEF Relink, Goto, store, sweep, TypeOK
<1>2. Key(w) \in SourceKeys /\ Document(w) \in DocumentKeys
  BY <1>1, AtRecord
<1>3. /\ wlink'[w][Key(w)] = {Document(w)}
      /\ \A s \in SourceKeys \ {Key(w)} : wlink'[w][s] = wlink[w][s]
  BY <1>2 DEF Relink, TypeOK, LinkTable
<1>4. /\ SourceView(w)' = SourceView(w) /\ DocumentView(w)' = DocumentView(w)
      /\ \A s \in SourceKeys \ {Key(w)} : LinkView(w)'[s] = LinkView(w)[s]
      /\ LinkView(w)'[Key(w)] = {Document(w)}
  BY <1>1, <1>2, <1>3 DEF SourceView, DocumentView, LinkView
<1>5. staleD[w] = {}
  BY <1>1 DEF CaptureInv, SweepIsConfined
<1>6. DocumentView(w)[Document(w)] = "valid"
  BY <1>1, <1>2 DEF CaptureInv, CaptureIsWritten, DocumentView
<1> QED BY <1>1, <1>4, <1>5, <1>6 DEF SerialInv

\* The sweep chooses every source that is to go.
LEMMA SerialAtScanSources ==
    ASSUME IngestInv, NEW w \in Writers, SerialInv(w), ScanSources(w)
    PROVE  SerialInv(w)'
<1> TypeOK
  BY InvariantParts DEF TypeInv
<1>1. /\ pc[w] = "scan_sources" /\ pc'[w] = "retire_sources" /\ job' = job
      /\ sources' = sources /\ documents' = documents /\ links' = links
      /\ wsource' = wsource /\ wdocument' = wdocument /\ wlink' = wlink /\ staleD' = staleD
      /\ staleS'[w] = {s \in SourceKeys : /\ s[1] = job[w].registry
                                          /\ IsCurrent(SourceView(w)[s])
                                          /\ s[2] \notin Captured(w)}
  BY DEF ScanSources, Goto, store, written, TypeOK
<1>2. /\ SourceView(w)' = SourceView(w) /\ DocumentView(w)' = DocumentView(w)
      /\ LinkView(w)' = LinkView(w) /\ Captured(w)' = Captured(w)
  BY <1>1 DEF SourceView, DocumentView, LinkView, Captured
<1> QED BY <1>1, <1>2 DEF SerialInv

\* A chosen source goes.
LEMMA SerialAtRetireSource ==
    ASSUME IngestInv, NEW w \in Writers, SerialInv(w), NEW t \in SourceKeys, RetireSource(w, t)
    PROVE  SerialInv(w)'
<1> TypeInv /\ TypeOK /\ SweepsReachRows
  BY InvariantParts DEF TypeInv
<1>1. /\ pc[w] = "retire_sources" /\ pc' = pc /\ job' = job
      /\ sources' = sources /\ documents' = documents /\ links' = links
      /\ wdocument' = wdocument /\ wlink' = wlink /\ staleD' = staleD
      /\ t \in staleS[w] /\ staleS'[w] = staleS[w] \ {t}
  BY DEF RetireSource, store, TypeOK
<1>2. ~wsource'[w][t].active /\ wsource'[w][t] # NoRow
      /\ \A s \in SourceKeys \ {t} : wsource'[w][s] = wsource[w][s]
  <2>1. SourceView(w)[t] \in SourceRows
    BY <1>1, ViewTypes DEF SweepsReachRows, SourceTable
  <2>2. wsource'[w][t] = [SourceView(w)[t] EXCEPT !.active = FALSE]
    BY DEF RetireSource, TypeOK, SourceTable
  <2> QED BY <2>1, <2>2, RetiredRow DEF SourceRows
<1>3. /\ DocumentView(w)' = DocumentView(w) /\ LinkView(w)' = LinkView(w)
      /\ Captured(w)' = Captured(w)
  BY <1>1 DEF DocumentView, LinkView, Captured
<1>4. ~IsCurrent(SourceView(w)'[t])
      /\ \A s \in SourceKeys \ {t} : SourceView(w)'[s] = SourceView(w)[s]
  BY <1>1, <1>2 DEF SourceView, IsCurrent
<1> QED BY <1>1, <1>3, <1>4 DEF SerialInv

\* The sweep chooses every valid document that no current source cites.
LEMMA SerialAtScanDocuments ==
    ASSUME IngestInv, NEW w \in Writers, SerialInv(w), ScanDocuments(w)
    PROVE  SerialInv(w)'
<1> TypeOK
  BY InvariantParts DEF TypeInv
<1>1. /\ pc[w] = "retire_sources" /\ pc'[w] = "retire_documents" /\ job' = job
      /\ sources' = sources /\ documents' = documents /\ links' = links
      /\ wsource' = wsource /\ wdocument' = wdocument /\ wlink' = wlink /\ staleS' = staleS
      /\ staleD'[w] = {d \in DocumentKeys : /\ DocumentView(w)[d] = "valid"
                                            /\ ~IsSupported(SourceView(w), LinkView(w), d)}
  BY DEF ScanDocuments, Goto, store, written, TypeOK
<1>2. /\ SourceView(w)' = SourceView(w) /\ DocumentView(w)' = DocumentView(w)
      /\ LinkView(w)' = LinkView(w) /\ Captured(w)' = Captured(w)
  BY <1>1 DEF SourceView, DocumentView, LinkView, Captured
<1>3. ASSUME NEW s \in SourceKeys, IsCurrent(SourceView(w)[s]), NEW d \in LinkView(w)[s]
      PROVE  DocumentView(w)[d] = "valid" /\ d \notin staleD'[w]
  BY <1>1, <1>3 DEF SerialInv, IsSupported
<1>4. \A d \in DocumentKeys : DocumentView(w)[d] = "valid" =>
          d \in staleD'[w] \/ IsSupported(SourceView(w), LinkView(w), d)
  BY <1>1
<1> QED BY <1>1, <1>2, <1>3, <1>4 DEF SerialInv, IsSupported

\* A chosen document goes.
LEMMA SerialAtRetireDocument ==
    ASSUME IngestInv, NEW w \in Writers, SerialInv(w), NEW e \in DocumentKeys, RetireDocument(w, e)
    PROVE  SerialInv(w)'
<1> TypeOK
  BY InvariantParts DEF TypeInv
<1>1. /\ pc[w] = "retire_documents" /\ pc' = pc /\ job' = job
      /\ sources' = sources /\ documents' = documents /\ links' = links
      /\ wsource' = wsource /\ wlink' = wlink /\ staleS' = staleS
      /\ e \in staleD[w] /\ staleD'[w] = staleD[w] \ {e}
      /\ wdocument'[w][e] = "retired"
      /\ \A d : d # e => wdocument'[w][d] = wdocument[w][d]
  BY DEF RetireDocument, store, TypeOK, DocumentTable
<1>2. /\ SourceView(w)' = SourceView(w) /\ LinkView(w)' = LinkView(w)
      /\ Captured(w)' = Captured(w)
  BY <1>1 DEF SourceView, LinkView, Captured
<1>3. /\ DocumentView(w)'[e] = "retired"
      /\ \A d \in DocumentKeys \ {e} : DocumentView(w)'[d] = DocumentView(w)[d]
  BY <1>1 DEF DocumentView
<1>4. \A s \in SourceKeys : LinkView(w)[s] \subseteq DocumentKeys
  BY ViewTypes DEF LinkTable
<1>5. ASSUME NEW s \in SourceKeys, IsCurrent(SourceView(w)[s]), NEW d \in LinkView(w)[s]
      PROVE  DocumentView(w)'[d] = "valid" /\ d \notin staleD'[w]
  <2>1. d \in DocumentKeys /\ DocumentView(w)[d] = "valid" /\ d \notin staleD[w]
    BY <1>1, <1>4, <1>5 DEF SerialInv
  <2> QED BY <1>1, <1>3, <2>1
<1>6. ASSUME NEW d \in DocumentKeys, DocumentView(w)'[d] = "valid"
      PROVE  d \in staleD'[w] \/ IsSupported(SourceView(w), LinkView(w), d)
  BY <1>1, <1>3, <1>6 DEF SerialInv
<1> QED BY <1>1, <1>2, <1>5, <1>6 DEF SerialInv, IsSupported

\* The commit of w leaves the views of the others in order.
CommitSpares(w) ==
    \A v \in Writers \ {w} :
        Commit(w) /\ InTransaction(v) /\ ValidIffSupported' => SerialInv(v)'

\* Every step keeps the views of all writers in order, if only a commit spares
\* those of other transactions: nothing else that a writer does is visible to
\* another, and a process outside its transaction sees the tables.
LEMMA SerialStep ==
    ASSUME IngestInv, IngestInv', ValidIffSupported, NEW w \in Writers, Step(w),
           CommitSpares(w), \A v \in Writers : SerialInv(v)
    PROVE  ValidIffSupported' /\ \A v \in Writers : SerialInv(v)'
<1> TypeInv /\ TypeOK /\ TypeOK'
  BY InvariantParts DEF TypeInv, IngestInv
<1>1. ValidIffSupported'
  <2>1. CASE Commit(w) BY <2>1, SerialCommit
  <2>2. CASE ~Commit(w) BY <2>2, StoreSteps DEF store, ValidIffSupported
  <2> QED BY <2>1, <2>2
<1>2. ASSUME NEW v \in Writers, pc'[v] # "idle"
      PROVE  [registry |-> job'[v].registry, corpus |-> job'[v].corpus] \in Definitions
  <2>1. CASE v = w BY <1>2, <2>1, JobOfDefinition
  <2>2. CASE v # w
    <3>1. pc'[v] = pc[v] /\ job'[v] = job[v]
      BY <2>2, Isolation DEF Same
    <3> QED BY <1>2, <3>1 DEF SerialInv
  <2> QED BY <2>1, <2>2
<1>3. ASSUME NEW v \in Writers, ~InTransaction(v)' PROVE SerialInv(v)'
  BY <1>1, <1>2, <1>3, SerialOutside
<1>4. ASSUME InTransaction(w)' PROVE SerialInv(w)'
  <2>1. ~(Commit(w) \/ RecordFailure(w) \/ Crash(w) \/ Rollback(w))
    BY <1>4 DEF Commit, RecordFailure, Crash, Rollback, Close, Goto, TypeOK, InTransaction
  <2> QED
    BY <2>1, SerialAtStart, SerialAtSource, SerialAtDocument, SerialAtRelink,
       SerialAtScanSources, SerialAtRetireSource, SerialAtScanDocuments, SerialAtRetireDocument
    DEF Step, Work, StatementError, DeadlockVictim
<1>5. ASSUME NEW v \in Writers, v # w, InTransaction(v)' PROVE SerialInv(v)'
  <2>1. Same(v)
    BY <1>5, Isolation
  <2>2. CASE Commit(w)
    BY <1>1, <1>5, <2>1, <2>2 DEF CommitSpares, InTransaction, Same
  <2>3. CASE ~Commit(w)
    BY <2>1, <2>3, StoreSteps, SerialBystander
  <2> QED BY <2>2, <2>3
<1> QED BY <1>1, <1>3, <1>4, <1>5

\* The tables are empty when no process has started.
LEMMA SerialInitially == Init => ValidIffSupported /\ \A w \in Writers : SerialInv(w)
<1> SUFFICES ASSUME Init PROVE ValidIffSupported /\ \A w \in Writers : SerialInv(w)
  OBVIOUS
<1>1. ValidIffSupported
  BY DEF Init, ValidIffSupported, IsSupported, NoDocuments, NoLinks
<1>2. ASSUME NEW w \in Writers PROVE SerialInv(w)
  BY DEF Init, SerialInv, SourceView, LinkView, NoSources, NoLinks, IsCurrent
<1> QED BY <1>1, <1>2

\* What the theorems below are derived from, whatever it is that keeps the
\* transactions from disturbing each other.
Orderly == IngestInv /\ ValidIffSupported /\ \A w \in Writers : SerialInv(w)

\* A stuttering step changes neither tables nor views.
LEMMA OrderlyStutter ==
    ASSUME ValidIffSupported, \A w \in Writers : SerialInv(w), UNCHANGED vars
    PROVE  ValidIffSupported' /\ \A w \in Writers : SerialInv(w)'
<1>1. ValidIffSupported'
  BY DEF vars, store, ValidIffSupported
<1>2. \A w \in Writers : Same(w) /\ UNCHANGED store
  BY DEF vars, written, sweep, Same
<1> QED BY <1>1, <1>2, SerialBystander

\* Without overlap, the writer's invariant holds together with what it says of
\* the views of all writers.
THEOREM SerialInvariant == Spec /\ []NoOverlap => []Orderly
<1> DEFINE Inv == ValidIffSupported /\ \A w \in Writers : SerialInv(w)
<1>1. Init => Inv
  BY SerialInitially
<1>2. Inv /\ IngestInv /\ IngestInv' /\ NoOverlap /\ [Next]_vars => Inv'
  <2>1. ASSUME NEW w \in Writers, NoOverlap PROVE CommitSpares(w)
    BY <2>1 DEF CommitSpares, NoOverlap, Commit, InTransaction
  <2> QED BY <2>1, NextIsStep, SerialStep, OrderlyStutter
<1> HIDE DEF Inv
<1>3. Spec /\ []NoOverlap => []Inv
  BY <1>1, <1>2, IngestInvariant, PTL DEF Spec
<1>4. IngestInv /\ Inv => Orderly
  BY DEF Inv, Orderly
<1> QED
  BY <1>3, <1>4, IngestInvariant, PTL

\* As long as no two transactions overlap, exactly the documents of current
\* sources are valid, for any registries, captures and failures.
THEOREM ValidDocuments == Spec /\ []NoOverlap => []ValidIffSupported
<1>1. Orderly => ValidIffSupported
  BY DEF Orderly
<1> QED BY <1>1, SerialInvariant, PTL

\* A current source whose document is valid can be found by search.
LEMMA OrderlyIsLossless == Orderly => Lossless
<1> SUFFICES ASSUME TypeInv, LinkInv, ValidIffSupported,
                    NEW s \in SourceKeys, IsCurrent(sources[s])
             PROVE  \E d \in DocumentKeys : <<d, s>> \in Matches(sources, documents, links, Corpora)
  BY InvariantParts DEF Lossless, Orderly
<1> DEFINE d == <<sources[s].corpus, sources[s].body>>
<1>1. sources[s] \in SourceRows
  BY DEF TypeInv, TypeOK, SourceTable, IsCurrent
<1>2. d \in DocumentKeys /\ d[1] \in Corpora
  BY <1>1 DEF SourceRows, DocumentKeys
<1>3. d \in links[s]
  BY DEF LinkInv, LinksFollowSources, Home, IsCurrent
<1> HIDE DEF d
<1>4. documents[d] = "valid"
  BY <1>2, <1>3 DEF ValidIffSupported, IsSupported
<1> QED BY <1>2, <1>3, <1>4 DEF Matches

\* As long as no two transactions overlap, capture is lossless, as the
\* documentation promises: every current source can be found, so what breaks it
\* is always the overlap of two ingests.
THEOREM LosslessAlone == Spec /\ []NoOverlap => []Lossless
BY SerialInvariant, OrderlyIsLossless, PTL

-----------------------------------------------------------------------------
(* The refinement                                                          *)

\* A native id that was captured was captured last in one record.
LEMMA LastExists ==
    ASSUME NEW records \in Seq(Records), NEW i \in DOMAIN records
    PROVE  \E l \in DOMAIN records :
              /\ records[l].native = records[i].native
              /\ \A j \in DOMAIN records : records[j].native = records[i].native => j <= l
<1> DEFINE T == {j \in DOMAIN records : records[j].native = records[i].native}
<1>1. i \in T /\ T \in SUBSET Nat /\ Len(records) \in Nat /\ \A j \in T : j <= Len(records)
  OBVIOUS
<1>2. PICK l \in T : \A j \in T : j <= l
  <2> HIDE DEF T
  <2> QED BY <1>1, Greatest
<1> QED BY <1>2

\* The searchable document of a source is its own text, while it is current.
Published ==
    Searchable = [s \in SourceKeys |->
        IF IsCurrent(sources[s]) THEN <<sources[s].corpus, sources[s].body>> ELSE NoRow]

\* What a search shows of a source can be read off its row, because its one
\* link follows it and its document is valid.
LEMMA RowsAreSearchable == IngestInv /\ ValidIffSupported => Published
<1> SUFFICES ASSUME IngestInv, ValidIffSupported, NEW s \in SourceKeys
             PROVE  Searchable[s] =
                       IF IsCurrent(sources[s])
                       THEN <<sources[s].corpus, sources[s].body>> ELSE NoRow
  BY DEF Published, Searchable
<1> DEFINE M == Matches(sources, documents, links, Corpora)
           d == <<sources[s].corpus, sources[s].body>>
<1>1. TypeOK /\ links[s] = Home(sources[s])
  BY InvariantParts DEF TypeInv, LinkInv, LinksFollowSources
<1>2. CASE IsCurrent(sources[s])
  <2>1. links[s] = {d}
    BY <1>1, <1>2 DEF Home, IsCurrent
  <2>2. d \in DocumentKeys /\ d[1] \in Corpora
    BY <1>1, <1>2 DEF TypeOK, SourceTable, SourceRows, IsCurrent, DocumentKeys
  <2>3. documents[d] = "valid"
    BY <1>2, <2>1, <2>2 DEF ValidIffSupported, IsSupported
  <2>4. \A e \in DocumentKeys : <<e, s>> \in M <=> e = d
    BY <1>2, <2>1, <2>2, <2>3 DEF Matches
  <2>5. (CHOOSE e \in DocumentKeys : <<e, s>> \in M) = d
    BY <2>2, <2>4
  <2> QED BY <1>2, <2>2, <2>4, <2>5 DEF Searchable
<1>3. CASE ~IsCurrent(sources[s])
  BY <1>3 DEF Searchable, Matches
<1> QED BY <1>2, <1>3

\* The abstract knowledge base has the keys of this module.
LEMMA SameKeys == KB!SourceKeys = SourceKeys
BY DEF KB!SourceKeys, SourceKeys

\* A source has at most one link, so what a search restricted to some corpora
\* may return is what the abstract knowledge base returns for them, whatever
\* the other writers do.
THEOREM SearchReadsResults ==
    Spec => [](\A corpora \in SUBSET Corpora :
                  Matches(sources, documents, links, corpora) = KB!Results(corpora))
<1> DEFINE Reads == \A corpora \in SUBSET Corpora :
                       Matches(sources, documents, links, corpora) = KB!Results(corpora)
<1>1. LinkInv => Reads
  <2> SUFFICES ASSUME LinkInv, NEW corpora \in SUBSET Corpora,
                      NEW d \in DocumentKeys, NEW s \in SourceKeys
               PROVE  <<d, s>> \in Matches(sources, documents, links, corpora)
                      <=> <<d, s>> \in KB!Results(corpora)
    BY SameKeys DEF Matches, KB!Results, KB!DocumentKeys, DocumentKeys, KB!Corpora, Corpora,
                    KB!Public, Public, KB!Internal, Internal
  <2> DEFINE M == Matches(sources, documents, links, Corpora)
  <2>1. d # NoRow /\ d[1] \in Corpora
    BY NoRowAssumption DEF DocumentKeys
  <2>2. <<d, s>> \in Matches(sources, documents, links, corpora)
        <=> <<d, s>> \in M /\ d[1] \in corpora
    BY <2>1 DEF Matches
  <2>3. ASSUME NEW e \in DocumentKeys, <<e, s>> \in M
        PROVE  Home(sources[s]) = {e}
    BY <2>3 DEF Matches, LinkInv, LinksFollowSources, Home
  <2>4. <<d, s>> \in M <=> Searchable[s] = d
    <3> HIDE DEF M
    <3>1. CASE \E e \in DocumentKeys : <<e, s>> \in M
      <4>1. PICK e \in DocumentKeys : <<e, s>> \in M
        BY <3>1
      <4>2. \A f \in DocumentKeys : <<f, s>> \in M <=> f = e
        BY <4>1, <2>3
      <4>3. (CHOOSE f \in DocumentKeys : <<f, s>> \in M) = e
        BY <4>2
      <4> QED BY <3>1, <4>2, <4>3 DEF Searchable, M
    <3>2. CASE ~\E e \in DocumentKeys : <<e, s>> \in M
      BY <3>2, <2>1 DEF Searchable, M
    <3> QED BY <3>1, <3>2
  <2> QED
    BY <2>2, <2>4, SameKeys DEF KB!Results, KB!DocumentKeys, DocumentKeys, KB!Corpora, Corpora,
                    KB!Public, Public, KB!Internal, Internal
<1> QED
  BY <1>1, LocksInvariant, PTL

\* Without overlap, the commit of a non-empty capture publishes it: the rows
\* of its entry that it captured are current with their last text, the others
\* of the entry are not, and those of other entries are left as they were.
LEMMA CommitPublishes ==
    ASSUME IngestInv, NEW w \in Writers, SerialInv(w), Published, Published',
           Commit(w), job[w].records # <<>>
    PROVE  KB!Next
<1> TypeInv /\ TypeOK /\ LinkInv /\ CaptureInv(w)
  BY InvariantParts DEF TypeInv
<1> DEFINE def == [registry |-> job[w].registry, corpus |-> job[w].corpus]
           records == job[w].records
           last(s) == CHOOSE i \in KB!LastUnder(records, s[2]) : TRUE
<1>1. pc[w] = "retire_documents" /\ staleD[w] = {} /\ staleS[w] = {}
  BY DEF Commit, CaptureInv, SweepIsConfined
<1>2. def \in Definitions
  BY <1>1 DEF SerialInv
<1>3. job[w] \in Jobs /\ records \in Captures /\ records \in Seq(Records)
  BY <1>1, CapturesAssumption DEF TypeInv, JobsAreRunning, JobIsRunning, Jobs
<1>4. sources' = SourceView(w)
  BY DEF Commit
<1>5. ASSUME NEW s \in SourceKeys, s[1] # def.registry
      PROVE  Searchable'[s] = Searchable[s]
  <2>1. wsource[w][s] = NoRow
    BY <1>5 DEF CaptureInv, WritesAreCaptured
  <2>2. sources'[s] = sources[s]
    BY <1>4, <2>1, ViewOf
  <2> QED BY <2>2 DEF Published
<1>6. ASSUME NEW s \in SourceKeys, s[1] = def.registry, KB!LastUnder(records, s[2]) = {}
      PROVE  Searchable'[s] = NoRow
  <2>1. s[2] \notin Captured(w)
    <3> SUFFICES ASSUME NEW i \in DOMAIN records, records[i].native = s[2] PROVE FALSE
      BY DEF Captured
    <3>1. PICK l \in DOMAIN records :
             /\ records[l].native = s[2]
             /\ \A j \in DOMAIN records : records[j].native = s[2] => j <= l
      BY <1>3, LastExists
    <3> QED BY <1>6, <3>1 DEF KB!LastUnder
  <2>2. ~IsCurrent(SourceView(w)[s])
    BY <1>1, <1>6, <2>1 DEF SerialInv
  <2> QED BY <1>4, <2>2 DEF Published
<1>7. ASSUME NEW s \in SourceKeys, s[1] = def.registry, KB!LastUnder(records, s[2]) # {}
      PROVE  Searchable'[s] = <<def.corpus, records[last(s)].body>>
  <2> DEFINE i == last(s)
             d == <<def.corpus, records[i].body>>
  <2>1. /\ i \in DOMAIN records /\ records[i].native = s[2]
        /\ \A j \in DOMAIN records : records[j].native = records[i].native => j <= i
    <3>1. i \in KB!LastUnder(records, s[2])
      BY <1>7
    <3> QED BY <3>1 DEF KB!LastUnder
  <2> HIDE DEF i
  <2>2. s = <<job[w].registry, records[i].native>>
    BY <1>7, <2>1 DEF SourceKeys
  <2>3. InTransaction(w) /\ Done(w) = Len(records) /\ DOMAIN records = 1..Len(records)
    BY <1>1, <1>3 DEF InTransaction, Done
  <2>4. Home(wsource[w][s]) = {d} /\ wsource[w][s].active
    BY <1>1, <2>1, <2>2, <2>3 DEF CaptureInv, CaptureIsWritten
  <2>5. wsource[w][s] # NoRow
    BY <2>4 DEF Home
  <2>6. sources'[s] = wsource[w][s]
    BY <1>4, <2>5, ViewOf
  <2>7. IsCurrent(sources'[s]) /\ <<sources'[s].corpus, sources'[s].body>> = d
    BY <2>4, <2>5, <2>6 DEF IsCurrent, Home
  <2>8. Searchable'[s] = d
    BY <2>7 DEF Published
  <2> QED BY <2>8 DEF i
<1>8. Searchable' = [s \in SourceKeys |-> Searchable'[s]]
  BY DEF Published
<1>9. KB!Publish(def, records)
  BY <1>5, <1>6, <1>7, <1>8, SameKeys DEF KB!Publish
<1> QED BY <1>2, <1>3, <1>9 DEF KB!Next

\* Without overlap, each step of a writer is a publication or a stutter.
LEMMA RefinementStep ==
    ASSUME IngestInv, \A w \in Writers : SerialInv(w), Published, Published',
           [Next]_vars
    PROVE  [KB!Next]_Searchable
<1>1. CASE UNCHANGED store
  BY <1>1 DEF store, Published
<1>2. CASE ~UNCHANGED store
  <2>1. PICK w \in Writers : Commit(w)
    BY <1>2, NextIsStep, StoreSteps DEF vars
  <2>2. job[w].records # <<>>
    BY <1>2, <2>1, EmptyCommit
  <2> QED BY <2>1, <2>2, CommitPublishes
<1> QED BY <1>1, <1>2

\* Orderly steps implement the atomic replacement of a registry entry's texts:
\* a commit publishes its capture and every other step is a stutter.
LEMMA OrderlyRefines == Spec /\ []Orderly => RefinesKnowledgeBase
<1>1. Init => KB!Init
  <2> SUFFICES ASSUME Init PROVE Searchable = [s \in SourceKeys |-> NoRow]
    BY SameKeys DEF KB!Init
  <2> QED BY DEF Init, Searchable, Matches, NoSources, IsCurrent
<1>2. Orderly => Published
  BY RowsAreSearchable DEF Orderly
<1>3. Orderly /\ Published /\ Published' /\ [Next]_vars => [KB!Next]_Searchable
  BY RefinementStep DEF Orderly
<1> QED
  BY <1>1, <1>2, <1>3, PTL DEF Spec, RefinesKnowledgeBase, KB!Spec

\* As long as no two transactions overlap, write() implements the atomic
\* replacement of a registry entry's texts: whatever fails, crashes or is
\* captured, what a search shows changes only from one snapshot to the next.
THEOREM Refinement == Spec /\ []NoOverlap => RefinesKnowledgeBase
BY SerialInvariant, OrderlyRefines, PTL

\* One ingest process, as the command line runs it, never overlaps with itself.
COROLLARY OneProcess ==
    ASSUME \A v, w \in Writers : v = w
    PROVE  Spec => [](ValidIffSupported /\ Lossless) /\ RefinesKnowledgeBase
<1>1. NoOverlap
  BY DEF NoOverlap
<1> QED
  BY <1>1, ValidDocuments, LosslessAlone, Refinement, PTL

-----------------------------------------------------------------------------
(***************************************************************************)
(* Ingests of different corpora.  The sweep over documents is not confined *)
(* to a corpus or a registry, so that two ingests of the two corpora leave *)
(* each other alone is not obvious: it takes that every registry entry     *)
(* keeps to one corpus.                                                    *)
(***************************************************************************)

\* No registry id is in use for both corpora.
OneCorpusEach ==
    \A def, other \in Definitions : def.registry = other.registry => def.corpus = other.corpus

\* Transactions that are open at the same time work for different corpora.
Apart ==
    \A v, w \in Writers :
        v # w /\ InTransaction(v) /\ InTransaction(w) => job[v].corpus # job[w].corpus

Entry(registry, corpus) == [registry |-> registry, corpus |-> corpus]

\* A source is in the corpus of its entry, ...
RowsOfEntries ==
    \A s \in SourceKeys : sources[s] # NoRow => Entry(s[1], sources[s].corpus) \in Definitions

\* ... also in a transaction, and no document of another corpus is written, or
\* chosen by the sweep.
WritesOfEntry(w) ==
    /\ \A s \in SourceKeys :
          wsource[w][s] # NoRow => Entry(s[1], wsource[w][s].corpus) \in Definitions
    /\ \A d \in DocumentKeys :
          wdocument[w][d] # "absent" \/ d \in staleD[w] => d[1] = job[w].corpus

\* A registry determines its corpus.
LEMMA EntryDecides ==
    ASSUME OneCorpusEach, NEW registry, NEW c, NEW e,
           Entry(registry, c) \in Definitions, Entry(registry, e) \in Definitions
    PROVE  c = e
BY DEF OneCorpusEach, Entry

\* What a transaction sees of a source is in the corpus of its entry.
LEMMA ViewOfEntries ==
    ASSUME TypeOK, RowsOfEntries, NEW w \in Writers, WritesOfEntry(w), NEW s \in SourceKeys,
           SourceView(w)[s] # NoRow
    PROVE  Entry(s[1], SourceView(w)[s].corpus) \in Definitions
BY DEF RowsOfEntries, WritesOfEntry, SourceView

\* A link that follows its source leads to a document of the corpus of the source.
LEMMA HomeOfEntry ==
    ASSUME NEW row, NEW d \in Home(row)
    PROVE  row # NoRow /\ d[1] = row.corpus
BY DEF Home

\* The sources of an entry that a transaction does not work for look to it as
\* they are committed.
LEMMA ForeignRows ==
    ASSUME IngestInv, NEW w \in Writers, NEW s \in SourceKeys, s[1] # job[w].registry
    PROVE  wsource[w][s] = NoRow /\ SourceView(w)[s] = sources[s] /\ LinkView(w)[s] = links[s]
<1> TypeOK /\ LinkInv /\ CaptureInv(w)
  BY InvariantParts DEF TypeInv
<1>1. wsource[w][s] = NoRow
  BY DEF CaptureInv, WritesAreCaptured
<1>2. wlink[w][s] = {}
  BY <1>1 DEF LinkInv, WritesAreConfined
<1> QED BY <1>1, <1>2 DEF SourceView, LinkView

\* The documents of another corpus look as they are committed.
LEMMA ForeignDocuments ==
    ASSUME NEW w \in Writers, WritesOfEntry(w), NEW d \in DocumentKeys, d[1] # job[w].corpus
    PROVE  DocumentView(w)[d] = documents[d] /\ d \notin staleD[w]
BY DEF WritesOfEntry, DocumentView

\* The sweep finds nothing to retire in another corpus: what is valid there is
\* cited by a committed source, of another entry, that the sweep sees as well.
LEMMA SweepKeepsToCorpus ==
    ASSUME IngestInv, ValidIffSupported, OneCorpusEach, RowsOfEntries,
           NEW w \in Writers, SerialInv(w), WritesOfEntry(w), pc[w] # "idle",
           NEW d \in DocumentKeys, DocumentView(w)[d] = "valid",
           ~IsSupported(SourceView(w), LinkView(w), d)
    PROVE  d[1] = job[w].corpus
<1> SUFFICES ASSUME d[1] # job[w].corpus PROVE FALSE
  OBVIOUS
<1>1. documents[d] = "valid"
  BY ForeignDocuments
<1>2. PICK s \in SourceKeys : d \in links[s] /\ IsCurrent(sources[s])
  BY <1>1 DEF ValidIffSupported, IsSupported
<1>3. d[1] = sources[s].corpus /\ sources[s] # NoRow
  BY <1>2, HomeOfEntry, InvariantParts DEF LinkInv, LinksFollowSources
<1>4. s[1] # job[w].registry
  <2>1. Entry(s[1], d[1]) \in Definitions
    BY <1>3 DEF RowsOfEntries
  <2>2. Entry(job[w].registry, job[w].corpus) \in Definitions
    BY DEF SerialInv, Entry
  <2> QED BY <2>1, <2>2, EntryDecides
<1> QED
  BY <1>2, <1>4, ForeignRows DEF IsSupported

\* Each step keeps to the corpus of the entry it works for.
LEMMA CorpusStep ==
    ASSUME IngestInv, IngestInv', ValidIffSupported, OneCorpusEach, RowsOfEntries,
           NEW w \in Writers, Step(w), SerialInv(w), \A v \in Writers : WritesOfEntry(v)
    PROVE  RowsOfEntries' /\ \A v \in Writers : WritesOfEntry(v)'
<1> TypeInv /\ TypeOK /\ JobsAreRunning /\ SweepsReachRows /\ CaptureInv(w) /\ TypeOK'
  BY InvariantParts DEF TypeInv, IngestInv
<1>1. RowsOfEntries'
  <2>1. CASE Commit(w) BY <2>1, ViewOfEntries DEF Commit, RowsOfEntries
  <2>2. CASE ~Commit(w) BY <2>2, StoreSteps DEF store, RowsOfEntries
  <2> QED BY <2>1, <2>2
<1>2. ASSUME NEW v \in Writers \ {w} PROVE WritesOfEntry(v)'
  BY <1>2, Isolation DEF Same, WritesOfEntry
<1>3. ASSUME Discard(w) PROVE WritesOfEntry(w)'
  BY <1>3 DEF Discard, WritesOfEntry, NoSources, NoDocuments, TypeOK
<1>4. ASSUME NEW def \in Definitions, NEW records \in Captures, StartRun(w, def, records)
      PROVE  WritesOfEntry(w)'
  <2>1. pc[w] = "idle" /\ wsource' = wsource /\ wdocument' = wdocument /\ staleD' = staleD
    BY <1>4 DEF StartRun, written, sweep
  <2>2. wdocument[w] = NoDocuments /\ wsource[w] = NoSources /\ staleD[w] = {}
    BY <2>1, InvariantParts
    DEF LinkInv, WritesAreConfined, InTransaction, CaptureInv, SweepIsConfined
  <2> QED BY <2>1, <2>2 DEF WritesOfEntry, NoSources, NoDocuments
<1>5. ASSUME UpsertSource(w) PROVE WritesOfEntry(w)'
  <2>1. /\ pc[w] = "source" /\ wdocument' = wdocument /\ staleD' = staleD /\ job' = job
        /\ wsource'[w][Key(w)] = [corpus |-> job[w].corpus, body |-> Record(w).body, active |-> TRUE]
        /\ \A s \in SourceKeys \ {Key(w)} : wsource'[w][s] = wsource[w][s]
    BY <1>5, AtRecord DEF UpsertSource, sweep, TypeOK, SourceTable
  <2>2. Entry(Key(w)[1], job[w].corpus) \in Definitions
    BY <2>1 DEF Key, SerialInv, Entry
  <2> QED BY <2>1, <2>2 DEF WritesOfEntry
<1>6. ASSUME UpsertDocument(w) PROVE WritesOfEntry(w)'
  <2>1. /\ wsource' = wsource /\ staleD' = staleD /\ job' = job
        /\ \A d \in DocumentKeys \ {Document(w)} : wdocument'[w][d] = wdocument[w][d]
    BY <1>6 DEF UpsertDocument, sweep, TypeOK, DocumentTable
  <2>2. Document(w)[1] = job[w].corpus
    BY DEF Document
  <2> QED BY <2>1, <2>2 DEF WritesOfEntry
<1>7. ASSUME NEW t \in SourceKeys, RetireSource(w, t) PROVE WritesOfEntry(w)'
  <2>1. /\ wdocument' = wdocument /\ staleD' = staleD /\ job' = job /\ t \in staleS[w]
        /\ wsource'[w][t] = [SourceView(w)[t] EXCEPT !.active = FALSE]
        /\ \A s \in SourceKeys \ {t} : wsource'[w][s] = wsource[w][s]
    BY <1>7 DEF RetireSource, TypeOK, SourceTable
  <2>2. SourceView(w)[t] \in SourceRows /\ SourceView(w)[t] # NoRow
    BY <2>1, ViewTypes DEF SweepsReachRows, SourceTable
  <2>3. wsource'[w][t].corpus = SourceView(w)[t].corpus
    BY <2>1, <2>2 DEF SourceRows
  <2> QED BY <2>1, <2>2, <2>3, ViewOfEntries DEF WritesOfEntry
<1>8. ASSUME ScanDocuments(w) PROVE WritesOfEntry(w)'
  <2>1. /\ pc[w] # "idle" /\ wsource' = wsource /\ wdocument' = wdocument /\ job' = job
        /\ staleD'[w] = {d \in DocumentKeys : /\ DocumentView(w)[d] = "valid"
                                              /\ ~IsSupported(SourceView(w), LinkView(w), d)}
    BY <1>8 DEF ScanDocuments, written, TypeOK
  <2> QED BY <2>1, SweepKeepsToCorpus DEF WritesOfEntry
<1>9. ASSUME NEW e \in DocumentKeys, RetireDocument(w, e) PROVE WritesOfEntry(w)'
  <2>1. /\ wsource' = wsource /\ job' = job
        /\ e \in staleD[w] /\ staleD'[w] = staleD[w] \ {e}
        /\ \A d \in DocumentKeys \ {e} : wdocument'[w][d] = wdocument[w][d]
    BY <1>9 DEF RetireDocument, TypeOK, DocumentTable
  <2> QED BY <2>1 DEF WritesOfEntry
<1>10. ASSUME Relink(w) \/ ScanSources(w) PROVE WritesOfEntry(w)'
  BY <1>10 DEF Relink, ScanSources, written, sweep, WritesOfEntry
<1>11. WritesOfEntry(w)'
  BY <1>3, <1>4, <1>5, <1>6, <1>7, <1>8, <1>9, <1>10
  DEF Step, Work, StatementError, DeadlockVictim, Rollback, RecordFailure, Crash, Commit
<1> QED BY <1>1, <1>2, <1>11

\* A commit for one corpus leaves the view of a transaction for the other in
\* order: in the other corpus it changes neither sources nor documents, and in
\* its own the tables that it leaves are in order.
LEMMA CorporaSpare ==
    ASSUME IngestInv, IngestInv', OneCorpusEach, Apart, RowsOfEntries, RowsOfEntries',
           NEW w \in Writers, Step(w), \A v \in Writers : SerialInv(v) /\ WritesOfEntry(v)
    PROVE  CommitSpares(w)
<1> SUFFICES ASSUME Commit(w), ValidIffSupported', NEW v \in Writers \ {w}, InTransaction(v)
             PROVE  SerialInv(v)'
  BY DEF CommitSpares
<1> TypeOK /\ LinkInv /\ TypeOK' /\ LinkInv' /\ CaptureInv(v)
  BY InvariantParts DEF TypeInv, IngestInv, LinkInv
<1>0. \A s \in SourceKeys : links'[s] = Home(sources'[s])
  BY DEF LinkInv, LinksFollowSources
<1>1. Same(v)
  BY Isolation
<1>2. /\ pc[v] # "idle" /\ pc[w] # "idle" /\ job[v].corpus # job[w].corpus
      /\ Entry(job[v].registry, job[v].corpus) \in Definitions
      /\ Entry(job[w].registry, job[w].corpus) \in Definitions
  BY DEF Commit, InTransaction, Apart, SerialInv, Entry
<1>3. sources' = SourceView(w) /\ documents' = DocumentView(w) /\ links' = LinkView(w)
  BY DEF Commit
<1>4. ASSUME NEW s \in SourceKeys, Entry(s[1], job[v].corpus) \in Definitions
      PROVE  /\ SourceView(v)'[s] = SourceView(v)[s] /\ LinkView(v)'[s] = LinkView(v)[s]
             /\ sources'[s] = sources[s] /\ links'[s] = links[s]
  <2>1. s[1] # job[w].registry
    BY <1>2, <1>4, EntryDecides
  <2>2. sources'[s] = sources[s] /\ links'[s] = links[s]
    BY <1>3, <2>1, ForeignRows
  <2> QED BY <1>1, <2>2 DEF Same, SourceView, LinkView
<1>5. ASSUME NEW d \in DocumentKeys, d[1] = job[v].corpus
      PROVE  DocumentView(v)'[d] = DocumentView(v)[d]
  <2>1. documents'[d] = documents[d]
    BY <1>2, <1>3, <1>5, ForeignDocuments
  <2> QED BY <1>1, <2>1 DEF Same, DocumentView
<1>6. ASSUME NEW s \in SourceKeys, s[1] # job[v].registry
      PROVE  SourceView(v)'[s] = sources'[s] /\ LinkView(v)'[s] = links'[s]
  <2>1. wsource'[v][s] = NoRow
    BY <1>1, <1>6, ForeignRows DEF Same
  <2>2. wlink'[v][s] = {}
    BY <2>1 DEF LinkInv, WritesAreConfined
  <2> QED BY <2>1, <2>2 DEF SourceView, LinkView
<1>7. ASSUME NEW d \in DocumentKeys, d[1] # job[v].corpus
      PROVE  DocumentView(v)'[d] = documents'[d] /\ d \notin staleD'[v]
  BY <1>1, <1>7 DEF Same, WritesOfEntry, DocumentView
<1>8. ASSUME NEW s \in SourceKeys, IsCurrent(SourceView(v)'[s]),
             ~(pc'[v] \in {"document", "relink"} /\ s = Key(v)'), NEW d \in LinkView(v)'[s]
      PROVE  DocumentView(v)'[d] = "valid" /\ d \notin staleD'[v]
  <2>1. d \in DocumentKeys
    <3>1. LinkView(v)' \in LinkTable
      BY DEF TypeOK, LinkView, LinkTable
    <3> QED BY <1>8, <3>1 DEF LinkTable
  <2>2. Key(v)' = Key(v) /\ pc'[v] = pc[v]
    BY <1>1 DEF Same, Key, Record
  <2>3. CASE Entry(s[1], job[v].corpus) \in Definitions
    <3>1. IsCurrent(SourceView(v)[s]) /\ d \in LinkView(v)[s]
      BY <1>4, <1>8, <2>3
    <3>2. DocumentView(v)[d] = "valid" /\ d \notin staleD[v]
      BY <1>8, <2>2, <3>1 DEF SerialInv
    <3>3. d[1] = SourceView(v)[s].corpus /\ SourceView(v)[s] # NoRow
      BY <1>8, <2>2, <3>1, HomeOfEntry DEF LinkInv, LinksFollowSources
    <3>4. d[1] = job[v].corpus
      BY <2>3, <3>3, ViewOfEntries, EntryDecides
    <3> QED BY <1>1, <1>5, <2>1, <3>2, <3>4 DEF Same
  <2>4. CASE Entry(s[1], job[v].corpus) \notin Definitions
    <3>1. s[1] # job[v].registry
      BY <1>2, <2>4
    <3>2. IsCurrent(sources'[s]) /\ d \in links'[s]
      BY <1>6, <1>8, <3>1
    <3>3. d[1] = sources'[s].corpus /\ sources'[s] # NoRow
      BY <1>0, <3>2, HomeOfEntry
    <3>4. d[1] # job[v].corpus
      BY <2>4, <3>3 DEF RowsOfEntries
    <3>5. documents'[d] = "valid"
      BY <2>1, <3>2 DEF ValidIffSupported, IsSupported
    <3> QED BY <1>7, <2>1, <3>4, <3>5
  <2> QED BY <2>3, <2>4
<1>9. ASSUME pc'[v] \in {"retire_sources", "retire_documents"}, NEW s \in SourceKeys,
             s[1] = job'[v].registry, s[2] \notin Captured(v)', IsCurrent(SourceView(v)'[s])
      PROVE  s \in staleS'[v]
  <2>1. Captured(v)' = Captured(v)
    BY <1>1 DEF Same, Captured
  <2>2. Entry(s[1], job[v].corpus) \in Definitions
    BY <1>1, <1>2, <1>9 DEF Same
  <2> QED BY <1>1, <1>4, <1>9, <2>1, <2>2 DEF Same, SerialInv
<1>10. ASSUME pc'[v] = "retire_documents", NEW d \in DocumentKeys, DocumentView(v)'[d] = "valid",
              d \notin staleD'[v]
       PROVE  IsSupported(SourceView(v), LinkView(v), d)'
  <2>1. CASE d[1] = job[v].corpus
    <3>0. DocumentView(v)[d] = "valid" /\ pc[v] = "retire_documents" /\ d \notin staleD[v]
      BY <1>1, <1>5, <1>10, <2>1 DEF Same
    <3>1. PICK s \in SourceKeys : d \in LinkView(v)[s] /\ IsCurrent(SourceView(v)[s])
      BY <3>0 DEF SerialInv, IsSupported
    <3>2. d[1] = SourceView(v)[s].corpus /\ SourceView(v)[s] # NoRow
      BY <1>1, <1>10, <3>1, HomeOfEntry DEF LinkInv, LinksFollowSources, Same
    <3>3. Entry(s[1], job[v].corpus) \in Definitions
      BY <2>1, <3>2, ViewOfEntries
    <3> QED BY <1>4, <3>1, <3>3 DEF IsSupported
  <2>2. CASE d[1] # job[v].corpus
    <3>1. PICK s \in SourceKeys : d \in links'[s] /\ IsCurrent(sources'[s])
      BY <1>7, <1>10, <2>2 DEF ValidIffSupported, IsSupported
    <3>2. d[1] = sources'[s].corpus /\ sources'[s] # NoRow
      BY <1>0, <3>1, HomeOfEntry
    <3>3. s[1] # job[v].registry
      BY <1>2, <2>2, <3>2, EntryDecides DEF RowsOfEntries
    <3> QED BY <1>6, <3>1, <3>3 DEF IsSupported
  <2> QED BY <2>1, <2>2
<1>11. pc'[v] # "idle" =>
          [registry |-> job'[v].registry, corpus |-> job'[v].corpus] \in Definitions
  BY <1>1, <1>2 DEF Same, Entry
<1> QED BY <1>8, <1>9, <1>10, <1>11 DEF SerialInv

\* While transactions for different corpora are the only ones to overlap, the
\* tables and all views are in order and every entry keeps to its corpus.
THEOREM CorporaInvariant ==
    ASSUME OneCorpusEach
    PROVE  Spec /\ []Apart => [](Orderly /\ RowsOfEntries /\ \A w \in Writers : WritesOfEntry(w))
<1> DEFINE Serial == ValidIffSupported /\ \A w \in Writers : SerialInv(w)
           Kept == RowsOfEntries /\ \A w \in Writers : WritesOfEntry(w)
<1>1. Init => Serial /\ Kept
  BY SerialInitially DEF Init, RowsOfEntries, WritesOfEntry, NoSources, NoDocuments
<1>2. IngestInv /\ IngestInv' /\ Apart /\ Serial /\ Kept /\ [Next]_vars => Serial' /\ Kept'
  <2> SUFFICES ASSUME IngestInv, IngestInv', Apart, Serial, Kept, [Next]_vars
               PROVE  Serial' /\ Kept'
    OBVIOUS
  <2>1. ASSUME NEW w \in Writers, Step(w) PROVE Serial' /\ Kept'
    <3>1. Kept'
      BY <2>1, CorpusStep
    <3>2. CommitSpares(w)
      BY <2>1, <3>1, CorporaSpare
    <3> QED BY <2>1, <3>1, <3>2, SerialStep
  <2>2. CASE UNCHANGED vars
    <3>1. Serial'
      BY <2>2, OrderlyStutter
    <3>2. Kept'
      BY <2>2 DEF vars, store, written, sweep, RowsOfEntries, WritesOfEntry
    <3> QED BY <3>1, <3>2
  <2> QED BY <2>1, <2>2, NextIsStep
<1>3. IngestInv /\ Serial => Orderly
  BY DEF Orderly
<1>4. (Orderly /\ RowsOfEntries /\ \A w \in Writers : WritesOfEntry(w)) <=> Orderly /\ Kept
  OBVIOUS
<1> HIDE DEF Serial, Kept
<1>5. Spec /\ []Apart => [](Orderly /\ Kept)
  BY <1>1, <1>2, <1>3, IngestInvariant, PTL DEF Spec
<1> QED
  BY <1>4, <1>5, PTL

\* Ingests that overlap do no harm to each other if they work for different
\* corpora and no entry changes its corpus: everything that holds of one ingest
\* at a time holds of them too.  So the two entries of the production registry,
\* one for each corpus, need not be ingested one after the other.
THEOREM CorporaApart ==
    ASSUME OneCorpusEach
    PROVE  Spec /\ []Apart => [](ValidIffSupported /\ Lossless) /\ RefinesKnowledgeBase
<1>1. Orderly => ValidIffSupported /\ Lossless
  BY OrderlyIsLossless DEF Orderly
<1>2. Spec /\ []Apart => []Orderly
  BY CorporaInvariant, PTL
<1> QED
  BY <1>1, <1>2, OrderlyRefines, PTL

\* Such ingests do not even meet: none of them ever waits for a row that
\* another one has written, so PostgreSQL has no cycle to break.
THEOREM CorporaNeverWait ==
    ASSUME OneCorpusEach
    PROVE  Spec /\ []Apart => [](\A w \in Writers : WaitsFor(w) = {} /\ ~IsDeadlocked(w))
<1> DEFINE Kept == RowsOfEntries /\ \A w \in Writers : WritesOfEntry(w)
           Free == \A w \in Writers : WaitsFor(w) = {} /\ ~IsDeadlocked(w)
<1>1. ASSUME Apart, Orderly, Kept, NEW w \in Writers PROVE WaitsFor(w) = {}
  <2> TypeInv /\ TypeOK /\ JobsAreRunning /\ LinkInv /\ \A v \in Writers : CaptureInv(v) /\ SerialInv(v)
    BY <1>1, InvariantParts DEF TypeInv, Orderly
  <2>1. ASSUME NEW v \in Writers \ {w}, InTransaction(v), InTransaction(w)
        PROVE  job[v].registry # job[w].registry /\ job[v].corpus # job[w].corpus
    <3>1. job[v].corpus # job[w].corpus
      BY <1>1, <2>1 DEF Apart
    <3>2. /\ Entry(job[v].registry, job[v].corpus) \in Definitions
          /\ Entry(job[w].registry, job[w].corpus) \in Definitions
      BY <2>1 DEF SerialInv, Entry, InTransaction
    <3> QED BY <3>1, <3>2, EntryDecides
  <2>2. ASSUME InTransaction(w), NEW s \in SourceKeys, s[1] = job[w].registry
        PROVE  SourceHolders(w, s) = {}
    <3> SUFFICES ASSUME NEW v \in Writers \ {w}, wsource[v][s] # NoRow PROVE FALSE
      BY DEF SourceHolders
    <3>1. InTransaction(v)
      BY DEF LinkInv, WritesAreConfined, NoSources
    <3>2. s[1] = job[v].registry
      BY DEF CaptureInv, WritesAreCaptured
    <3> QED BY <2>1, <2>2, <3>1, <3>2
  <2>3. ASSUME InTransaction(w), NEW d \in DocumentKeys, d[1] = job[w].corpus
        PROVE  DocumentHolders(w, d) = {}
    <3> SUFFICES ASSUME NEW v \in Writers \ {w}, wdocument[v][d] # "absent" PROVE FALSE
      BY DEF DocumentHolders
    <3>1. InTransaction(v)
      BY DEF LinkInv, WritesAreConfined, NoDocuments
    <3>2. d[1] = job[v].corpus
      BY <1>1 DEF WritesOfEntry
    <3> QED BY <2>1, <2>3, <3>1, <3>2
  <2>4. \A s \in NextSources(w) :
           InTransaction(w) /\ s \in SourceKeys /\ s[1] = job[w].registry
    <3>1. CASE pc[w] = "source"
      <4>1. Key(w) \in SourceKeys /\ Key(w)[1] = job[w].registry
        BY <3>1, AtRecord DEF Key
      <4> QED BY <3>1, <4>1 DEF NextSources, InTransaction
    <3>2. CASE pc[w] = "retire_sources"
      <4>1. \A s \in staleS[w] : s \in SourceKeys /\ s[1] = job[w].registry
        BY DEF TypeOK, CaptureInv, SweepIsConfined
      <4> QED BY <3>2, <4>1 DEF NextSources, InTransaction
    <3> QED BY <3>1, <3>2 DEF NextSources
  <2>5. \A d \in NextDocuments(w) :
           InTransaction(w) /\ d \in DocumentKeys /\ d[1] = job[w].corpus
    <3>1. CASE pc[w] = "document"
      <4>1. Document(w) \in DocumentKeys /\ Document(w)[1] = job[w].corpus
        BY <3>1, AtRecord DEF Document
      <4> QED BY <3>1, <4>1 DEF NextDocuments, InTransaction
    <3>2. CASE pc[w] = "retire_documents"
      <4>1. \A d \in staleD[w] : d \in DocumentKeys /\ d[1] = job[w].corpus
        BY <1>1 DEF TypeOK, WritesOfEntry
      <4> QED BY <3>2, <4>1 DEF NextDocuments, InTransaction
    <3> QED BY <3>1, <3>2 DEF NextDocuments
  <2>6. /\ \A s \in NextSources(w) : SourceHolders(w, s) = {}
        /\ \A d \in NextDocuments(w) : DocumentHolders(w, d) = {}
    BY <2>2, <2>3, <2>4, <2>5
  <2> QED BY <2>6 DEF WaitsFor
<1>2. Apart /\ Orderly /\ Kept => Free
  <2> SUFFICES ASSUME Apart, Orderly, Kept PROVE Free
    OBVIOUS
  <2>1. \A w \in Writers : WaitsFor(w) = {}
    BY <1>1
  <2> QED BY <2>1 DEF IsDeadlocked
<1>3. Spec /\ []Apart => [](Orderly /\ Kept)
  BY CorporaInvariant
<1> HIDE DEF Kept, Free
<1>4. Spec /\ []Apart => []Free
  BY <1>2, <1>3, PTL
<1> QED
  BY <1>4 DEF Free

=============================================================================
