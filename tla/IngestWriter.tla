----------------------------- MODULE IngestWriter -----------------------------
(***************************************************************************)
(* PostgresIngestWriter.write as a transaction on a shared PostgreSQL      *)
(* database, with several ingest processes open at once.                   *)
(*                                                                         *)
(* The connection runs at PostgreSQL's default READ COMMITTED level:       *)
(*   - a statement sees what was committed when it started plus its own    *)
(*     transaction's writes;                                               *)
(*   - INSERT ... ON CONFLICT DO UPDATE and UPDATE wait for another        *)
(*     transaction that has written the row, then act on the newest        *)
(*     committed version;                                                  *)
(*   - an UPDATE chooses its rows with the snapshot of its start, and for  *)
(*     a row it had to wait for it re-evaluates the condition on that row  *)
(*     alone: the rest of the query still sees the old snapshot.           *)
(*                                                                         *)
(* The writes of an open transaction are kept apart (wsource, wdocument,   *)
(* wlink) and merged into the tables when it commits; a written row is a   *)
(* locked row.                                                             *)
(***************************************************************************)
EXTENDS KnowledgeStore

CONSTANTS
    Writers,      \* ingest processes that may be open at the same time
    Definitions,  \* the (registry, corpus) pairs of the registry files in use
    Captures,     \* what an adapter may return: sequences of records
    MaxRuns,      \* bound: ingestion runs started
    NoJob         \* the process is not in write()

ASSUME DefinitionsAssumption ==
    Definitions \subseteq [registry : Registries, corpus : Corpora]

ASSUME CapturesAssumption == Captures \subseteq Seq(Records)

ASSUME MaxRunsAssumption == MaxRuns \in Nat

VARIABLES
    sources,    \* committed rows of `sources'
    documents,  \* committed rows of `documents'
    links,      \* committed rows of `document_sources', by source
    runs,       \* rows of `ingestion_runs', in order of insertion
    pc,         \* the next statement of each writer
    job,        \* the arguments of write() and the id of its run
    pos,        \* index of the record being written
    wsource,    \* rows of `sources' written by the open transaction
    wdocument,  \* rows of `documents' written by the open transaction
    wlink,      \* links inserted by the open transaction, by source
    staleS,     \* rows the running UPDATE on `sources' has still to reach
    staleD      \* rows the running UPDATE on `documents' has still to reach

store    == <<sources, documents, links>>
written  == <<wsource, wdocument, wlink>>
sweep    == <<staleS, staleD>>
vars     == <<store, runs, pc, job, pos, written, sweep>>

-----------------------------------------------------------------------------
(* State of a writer                                                       *)

Jobs == [run : Nat, registry : Registries, corpus : Corpora, records : Captures]

Statements == {"idle", "source", "document", "relink", "scan_sources",
               "retire_sources", "retire_documents", "finish", "failed"}

NoSources   == [s \in SourceKeys |-> NoRow]
NoDocuments == [d \in DocumentKeys |-> "absent"]
NoLinks     == [s \in SourceKeys |-> {}]

Record(w)   == job[w].records[pos[w]]
Key(w)      == <<job[w].registry, Record(w).native>>

\* Fault: every document goes to the public corpus.
Document_DefaultCorpus(w) == <<Public, Record(w).body>>

Document(w) == <<job[w].corpus, Record(w).body>>

Captured(w) == {job[w].records[i].native : i \in DOMAIN job[w].records}

InTransaction(w) == pc[w] \notin {"idle", "failed"}

\* What a statement of writer w sees: its own writes over the committed rows.
\* Every link written replaces the links of its source, so {} means none was.
SourceView(w) ==
    [s \in SourceKeys |-> IF wsource[w][s] = NoRow THEN sources[s] ELSE wsource[w][s]]
DocumentView(w) ==
    [d \in DocumentKeys |->
        IF wdocument[w][d] = "absent" THEN documents[d] ELSE wdocument[w][d]]
LinkView(w) ==
    [s \in SourceKeys |-> IF wlink[w][s] = {} THEN links[s] ELSE wlink[w][s]]

\* The other writers whose open transaction holds a row.
SourceHolders(w, s)   == {v \in Writers \ {w} : wsource[v][s] # NoRow}
DocumentHolders(w, d) == {v \in Writers \ {w} : wdocument[v][d] # "absent"}

\* The rows that the next statement of w writes, and the writers it waits for:
\* none while some row of the statement is free.
NextSources(w) ==
    IF pc[w] = "source" THEN {Key(w)}
    ELSE IF pc[w] = "retire_sources" THEN staleS[w] ELSE {}
NextDocuments(w) ==
    IF pc[w] = "document" THEN {Document(w)}
    ELSE IF pc[w] = "retire_documents" THEN staleD[w] ELSE {}
WaitsFor(w) ==
    LET holders == {SourceHolders(w, s) : s \in NextSources(w)}
                     \cup {DocumentHolders(w, d) : d \in NextDocuments(w)}
    IN IF {} \in holders THEN {} ELSE UNION holders

\* w waits, through other writers, for itself.
IsDeadlocked(w) ==
    \A S \in SUBSET Writers :
        WaitsFor(w) \subseteq S /\ (\A v \in S : WaitsFor(v) \subseteq S) => w \in S

-----------------------------------------------------------------------------
Init ==
    /\ sources = NoSources
    /\ documents = NoDocuments
    /\ links = NoLinks
    /\ runs = <<>>
    /\ pc = [w \in Writers |-> "idle"]
    /\ job = [w \in Writers |-> NoJob]
    /\ pos = [w \in Writers |-> 1]
    /\ wsource = [w \in Writers |-> NoSources]
    /\ wdocument = [w \in Writers |-> NoDocuments]
    /\ wlink = [w \in Writers |-> NoLinks]
    /\ staleS = [w \in Writers |-> {}]
    /\ staleD = [w \in Writers |-> {}]

Goto(w, statement) == pc' = [pc EXCEPT ![w] = statement]

\* write() is called with a source definition and what its adapter captured;
\* the run is inserted as 'running' and committed on its own.
StartRun(w, def, records) ==
    /\ pc[w] = "idle"
    /\ Len(runs) < MaxRuns
    /\ runs' = Append(runs, "running")
    /\ job' = [job EXCEPT ![w] = [run |-> Len(runs) + 1, registry |-> def.registry,
                                  corpus |-> def.corpus, records |-> records]]
    /\ pos' = [pos EXCEPT ![w] = 1]
    /\ Goto(w, IF records = <<>> THEN "finish" ELSE "source")
    /\ UNCHANGED <<store, written, sweep>>

\* Fault: the conflict clause does not reset valid_until.
UpsertSource_StaysRetired(w) ==
    /\ pc[w] = "source"
    /\ SourceHolders(w, Key(w)) = {}
    /\ wsource' = [wsource EXCEPT ![w][Key(w)] =
            [corpus |-> job[w].corpus, body |-> Record(w).body,
             active |-> SourceView(w)[Key(w)] = NoRow \/ IsCurrent(SourceView(w)[Key(w)])]]
    /\ Goto(w, "document")
    /\ UNCHANGED <<store, runs, job, pos, wdocument, wlink, sweep>>

\* INSERT INTO sources ... ON CONFLICT (registry_id, native_id) DO UPDATE.
UpsertSource(w) ==
    /\ pc[w] = "source"
    /\ SourceHolders(w, Key(w)) = {}
    /\ wsource' = [wsource EXCEPT ![w][Key(w)] =
            [corpus |-> job[w].corpus, body |-> Record(w).body, active |-> TRUE]]
    /\ Goto(w, "document")
    /\ UNCHANGED <<store, runs, job, pos, wdocument, wlink, sweep>>

\* Fault: a document that exists is left as it is.
UpsertDocument_KeepsExisting(w) ==
    /\ pc[w] = "document"
    /\ DocumentHolders(w, Document(w)) = {}
    /\ wdocument' = [wdocument EXCEPT ![w][Document(w)] =
            IF DocumentView(w)[Document(w)] = "absent" THEN "valid"
            ELSE DocumentView(w)[Document(w)]]
    /\ Goto(w, "relink")
    /\ UNCHANGED <<store, runs, job, pos, wsource, wlink, sweep>>

\* INSERT INTO documents ... ON CONFLICT (corpus, content_hash) DO UPDATE.
UpsertDocument(w) ==
    /\ pc[w] = "document"
    /\ DocumentHolders(w, Document(w)) = {}
    /\ wdocument' = [wdocument EXCEPT ![w][Document(w)] = "valid"]
    /\ Goto(w, "relink")
    /\ UNCHANGED <<store, runs, job, pos, wsource, wlink, sweep>>

\* Fault: the links of the previous text are not deleted.
Relink_KeepsOldLinks(w) ==
    /\ pc[w] = "relink"
    /\ wlink' = [wlink EXCEPT ![w][Key(w)] = LinkView(w)[Key(w)] \cup {Document(w)}]
    /\ IF pos[w] < Len(job[w].records)
       THEN pos' = [pos EXCEPT ![w] = @ + 1] /\ Goto(w, "source")
       ELSE pos' = pos /\ Goto(w, "scan_sources")
    /\ UNCHANGED <<store, runs, job, wsource, wdocument, sweep>>

\* DELETE FROM document_sources WHERE source_id = ..., then INSERT of the one
\* link.  Both are confined to a source whose row this transaction holds.
Relink(w) ==
    /\ pc[w] = "relink"
    /\ wlink' = [wlink EXCEPT ![w][Key(w)] = {Document(w)}]
    /\ IF pos[w] < Len(job[w].records)
       THEN pos' = [pos EXCEPT ![w] = @ + 1] /\ Goto(w, "source")
       ELSE pos' = pos /\ Goto(w, "scan_sources")
    /\ UNCHANGED <<store, runs, job, wsource, wdocument, sweep>>

\* Fault: the sweep is not confined to the registry entry.
ScanSources_AllRegistries(w) ==
    /\ pc[w] = "scan_sources"
    /\ staleS' = [staleS EXCEPT ![w] =
            {s \in SourceKeys : IsCurrent(SourceView(w)[s]) /\ s[2] \notin Captured(w)}]
    /\ Goto(w, "retire_sources")
    /\ UNCHANGED <<store, runs, job, pos, written, staleD>>

\* UPDATE sources SET valid_until = now(): the statement picks its rows.
ScanSources(w) ==
    /\ pc[w] = "scan_sources"
    /\ staleS' = [staleS EXCEPT ![w] =
            {s \in SourceKeys :
                /\ s[1] = job[w].registry
                /\ IsCurrent(SourceView(w)[s])
                /\ s[2] \notin Captured(w)}]
    /\ Goto(w, "retire_sources")
    /\ UNCHANGED <<store, runs, job, pos, written, staleD>>

\* ... and updates them one by one, in any order, waiting for the row if it
\* must.  A row that meanwhile became retired is only locked.
RetireSource(w, s) ==
    /\ pc[w] = "retire_sources"
    /\ s \in staleS[w]
    /\ SourceHolders(w, s) = {}
    /\ wsource' = [wsource EXCEPT ![w][s] = [SourceView(w)[s] EXCEPT !.active = FALSE]]
    /\ staleS' = [staleS EXCEPT ![w] = @ \ {s}]
    /\ UNCHANGED <<store, runs, pc, job, pos, wdocument, wlink, staleD>>

\* Fault: the sweep does not see that the transaction has just retired sources.
ScanDocuments_BeforeSources(w) ==
    /\ pc[w] = "retire_sources"
    /\ staleS[w] = {}
    /\ staleD' = [staleD EXCEPT ![w] =
            {d \in DocumentKeys :
                /\ DocumentView(w)[d] = "valid"
                /\ ~IsSupported(sources, LinkView(w), d)
                /\ ~IsSupported(SourceView(w), LinkView(w), d)}]
    /\ Goto(w, "retire_documents")
    /\ UNCHANGED <<store, runs, job, pos, written, staleS>>

\* UPDATE documents SET valid_until = now(), over the documents of every
\* registry: those no current source cites in the snapshot of the statement.
ScanDocuments(w) ==
    /\ pc[w] = "retire_sources"
    /\ staleS[w] = {}
    /\ staleD' = [staleD EXCEPT ![w] =
            {d \in DocumentKeys :
                /\ DocumentView(w)[d] = "valid"
                /\ ~IsSupported(SourceView(w), LinkView(w), d)}]
    /\ Goto(w, "retire_documents")
    /\ UNCHANGED <<store, runs, job, pos, written, staleS>>

\* A row that had to be waited for is re-checked for valid_until IS NULL only;
\* that NOT EXISTS was decided in ScanDocuments is what IngestWriter is about.
RetireDocument(w, d) ==
    /\ pc[w] = "retire_documents"
    /\ d \in staleD[w]
    /\ DocumentHolders(w, d) = {}
    /\ wdocument' = [wdocument EXCEPT ![w][d] = "retired"]
    /\ staleD' = [staleD EXCEPT ![w] = @ \ {d}]
    /\ UNCHANGED <<store, runs, pc, job, pos, wsource, wlink, staleS>>

\* The process leaves write(): nothing of its transaction remains open.
Close(w) ==
    /\ Goto(w, "idle")
    /\ job' = [job EXCEPT ![w] = NoJob]

Discard(w) ==
    /\ pos' = [pos EXCEPT ![w] = 1]
    /\ wsource' = [wsource EXCEPT ![w] = NoSources]
    /\ wdocument' = [wdocument EXCEPT ![w] = NoDocuments]
    /\ wlink' = [wlink EXCEPT ![w] = NoLinks]
    /\ staleS' = [staleS EXCEPT ![w] = {}]
    /\ staleD' = [staleD EXCEPT ![w] = {}]

\* The run is marked 'succeeded' and everything is committed.
Commit(w) ==
    /\ \/ pc[w] = "finish"
       \/ pc[w] = "retire_documents" /\ staleD[w] = {}
    /\ sources' = SourceView(w)
    /\ documents' = DocumentView(w)
    /\ links' = LinkView(w)
    /\ runs' = [runs EXCEPT ![job[w].run] = "succeeded"]
    /\ Close(w)
    /\ Discard(w)

\* Fault: the handler commits what was written so far.
Rollback_Commits(w) ==
    /\ sources' = SourceView(w)
    /\ documents' = DocumentView(w)
    /\ links' = LinkView(w)
    /\ Goto(w, "failed")
    /\ Discard(w)
    /\ UNCHANGED <<runs, job>>

\* Fault: the handler does not roll back.
Rollback_Forgotten(w) ==
    /\ Goto(w, "failed")
    /\ UNCHANGED <<store, runs, job, pos, written, sweep>>

\* A statement, or the commit itself, raises: rollback.
Rollback(w) ==
    /\ Goto(w, "failed")
    /\ Discard(w)
    /\ UNCHANGED <<store, runs, job>>

StatementError(w) == InTransaction(w) /\ Rollback(w)

\* Fault: nobody breaks a cycle of waiting transactions.
DeadlockVictim_Never(w) == InTransaction(w) /\ IsDeadlocked(w) /\ FALSE /\ Rollback(w)

\* PostgreSQL cancels one transaction of a cycle of waiting transactions.
DeadlockVictim(w) == InTransaction(w) /\ IsDeadlocked(w) /\ Rollback(w)

\* After the rollback the run is marked 'failed' and committed.
RecordFailure(w) ==
    /\ pc[w] = "failed"
    /\ runs' = [runs EXCEPT ![job[w].run] = "failed"]
    /\ Close(w)
    /\ Discard(w)
    /\ UNCHANGED store

\* The process dies or loses its connection, or is cancelled (a cancellation
\* is not an Exception): the server rolls back and the run stays 'running'.
Crash(w) ==
    /\ pc[w] # "idle"
    /\ Close(w)
    /\ Discard(w)
    /\ UNCHANGED <<store, runs>>

\* The statements of write(), as long as none of them raises.
Work(w) ==
    \/ UpsertSource(w)
    \/ UpsertDocument(w)
    \/ Relink(w)
    \/ ScanSources(w)
    \/ \E s \in SourceKeys : RetireSource(w, s)
    \/ ScanDocuments(w)
    \/ \E d \in DocumentKeys : RetireDocument(w, d)
    \/ Commit(w)
    \/ DeadlockVictim(w)
    \/ RecordFailure(w)

Next ==
    \E w \in Writers :
        \/ \E def \in Definitions, records \in Captures : StartRun(w, def, records)
        \/ Work(w)
        \/ StatementError(w)
        \/ Crash(w)

Spec == Init /\ [][Next]_vars

\* The server executes what it is sent and detects deadlocks; operators need
\* not start runs, and neither errors nor crashes have to happen.
FairSpec == Spec /\ \A w \in Writers : WF_vars(Work(w))

-----------------------------------------------------------------------------
(* Properties                                                              *)

\* Types of the tables, of the audit rows and of every writer's state.
TypeOK ==
    /\ sources \in SourceTable
    /\ documents \in DocumentTable
    /\ links \in LinkTable
    /\ runs \in Seq({"running", "succeeded", "failed"})
    /\ pc \in [Writers -> Statements]
    /\ job \in [Writers -> Jobs \cup {NoJob}]
    /\ pos \in [Writers -> Nat \ {0}]
    /\ wsource \in [Writers -> SourceTable]
    /\ wdocument \in [Writers -> DocumentTable]
    /\ wlink \in [Writers -> LinkTable]
    /\ staleS \in [Writers -> SUBSET SourceKeys]
    /\ staleD \in [Writers -> SUBSET DocumentKeys]

\* What a search may return next to the title of a source is the text that
\* was captured from that source last, in the corpus it was captured for.
\* search() filters on the corpus of the document alone, so this is what keeps
\* the text of an internal source away from carriers when a source changes
\* corpus or text, whatever writers run at the same time.
SearchIsAligned ==
    \A row \in Matches(sources, documents, links, Corpora) :
        row[1] = <<sources[row[2]].corpus, sources[row[2]].body>>

\* Between two statements of write() a source row and its link disagree, but
\* only in the open transaction, only for the record being written, and only
\* while the transaction holds the row.
LinksFollowSources ==
    /\ \A s \in SourceKeys : links[s] = Home(sources[s])
    /\ \A w \in Writers, s \in SourceKeys :
        \/ LinkView(w)[s] = Home(SourceView(w)[s])
        \/ pc[w] \in {"document", "relink"} /\ s = Key(w)

\* No two open transactions have written the same row.
RowsAreLocked ==
    \A v, w \in Writers :
        v # w =>
            /\ \A s \in SourceKeys : wsource[v][s] = NoRow \/ wsource[w][s] = NoRow
            /\ \A d \in DocumentKeys : wdocument[v][d] = "absent" \/ wdocument[w][d] = "absent"

\* A link is written under the lock of its source; a process that is not in
\* its transaction has nothing uncommitted.
WritesAreConfined ==
    \A w \in Writers :
        /\ \A s \in SourceKeys : wlink[w][s] # {} => wsource[w][s] # NoRow
        /\ ~InTransaction(w) => wsource[w] = NoSources /\ wdocument[w] = NoDocuments

\* A process in write() has a run of its own, still marked 'running', and
\* stands at one of its records; the row it has just written is that record.
JobIsRunning(w) ==
    pc[w] # "idle" =>
        /\ job[w] \in Jobs
        /\ job[w].run \in DOMAIN runs
        /\ runs[job[w].run] = "running"
        /\ pc[w] \in {"source", "document", "relink"} => pos[w] \in DOMAIN job[w].records
        /\ pc[w] \in {"document", "relink"} => Home(wsource[w][Key(w)]) = {Document(w)}

JobsAreRunning ==
    /\ \A w \in Writers : JobIsRunning(w)
    /\ \A v, w \in Writers :
        v # w /\ pc[v] # "idle" /\ pc[w] # "idle" => job[v].run # job[w].run

\* The sweep over the sources reaches only rows that exist, also when another
\* transaction commits between its choice of rows and its writes.
SweepsReachRows ==
    \A w \in Writers : \A s \in staleS[w] : SourceView(w)[s] # NoRow

\* An UPDATE has rows to reach only while it is executed, and those of the
\* first sweep belong to the entry and were not captured.  An empty capture
\* writes nothing.
SweepIsConfined(w) ==
    /\ staleS[w] # {} => pc[w] = "retire_sources"
    /\ staleD[w] # {} => pc[w] = "retire_documents"
    /\ \A s \in staleS[w] : s[1] = job[w].registry /\ s[2] \notin Captured(w)
    /\ pc[w] = "finish" =>
          job[w].records = <<>> /\ wsource[w] = NoSources /\ wdocument[w] = NoDocuments
    /\ pc[w] \in {"scan_sources", "retire_sources", "retire_documents"} =>
          job[w].records # <<>>

\* What a transaction writes it has captured, and what it retires it has not.
WritesAreCaptured(w) ==
    /\ \A s \in SourceKeys : wsource[w][s] # NoRow =>
          /\ s[1] = job[w].registry
          /\ IF wsource[w][s].active
             THEN \E i \in DOMAIN job[w].records :
                     /\ job[w].records[i].native = s[2]
                     /\ Home(wsource[w][s]) = {<<job[w].corpus, job[w].records[i].body>>}
             ELSE s[2] \notin Captured(w)
    /\ \A d \in DocumentKeys : wdocument[w][d] = "valid" =>
          \E i \in DOMAIN job[w].records : d = <<job[w].corpus, job[w].records[i].body>>

\* The records that the loop of write() is through with.
Done(w) ==
    IF pc[w] \in {"source", "document", "relink"} THEN pos[w] - 1 ELSE Len(job[w].records)

\* Of these, those that no later one replaces are in the open transaction as
\* they were captured, and neither sweep is going to take their documents; what
\* is written of the record being written is as captured, too.
CaptureIsWritten(w) ==
    /\ pc[w] \in {"document", "relink"} => wsource[w][Key(w)].active
    /\ pc[w] = "relink" => wdocument[w][Document(w)] = "valid"
    /\ InTransaction(w) =>
        \A i \in 1..Done(w) :
            (\A j \in 1..Done(w) : job[w].records[j].native = job[w].records[i].native => j <= i)
            => LET s == <<job[w].registry, job[w].records[i].native>>
                   d == <<job[w].corpus, job[w].records[i].body>>
               IN /\ wdocument[w][d] = "valid" /\ d \notin staleD[w]
                  /\ \/ Home(wsource[w][s]) = {d} /\ wsource[w][s].active
                     \/ pc[w] \in {"document", "relink"} /\ s = Key(w)

\* The inductive invariant of the writer.  It relates the committed tables,
\* the uncommitted writes and the locks of all writers (SearchIsAligned rests
\* on this), and what each writer has written to what it has captured (which
\* decides what its commit may expose, retire and leave unsearchable).
IngestInv ==
    /\ TypeOK /\ JobsAreRunning /\ SweepsReachRows
    /\ RowsAreLocked /\ WritesAreConfined /\ LinksFollowSources
    /\ \A w \in Writers : SweepIsConfined(w) /\ WritesAreCaptured(w) /\ CaptureIsWritten(w)

\* The run of w is marked 'succeeded' by this step.
Succeeds(w) ==
    /\ pc[w] # "idle"
    /\ runs[job[w].run] = "running"
    /\ runs'[job[w].run] = "succeeded"

\* A write takes effect as a whole and together with the success of its run:
\* errors, deadlocks, crashes and empty captures (an outage upstream) leave
\* every source, document and link as they were.
OnlySuccessChangesKnowledge ==
    [][store' # store => \E w \in Writers : Succeeds(w) /\ job[w].records # <<>>]_vars

\* A source becomes searchable with a text only by the commit of a run that
\* captured that very text for that corpus, from this source: neither a sweep nor
\* a link left behind brings one back.  One exception remains, of the same text:
\* a current source that cites it, but whose document was retired under it (see
\* Lossless), is found again when any entry captures the text for the corpus.
ExposureNeedsCapture ==
    [][\A row \in Matches(sources', documents', links', Corpora) :
          row \in Matches(sources, documents, links, Corpora)
          \/ \E w \in Writers :
                /\ Succeeds(w)
                /\ \E i \in DOMAIN job[w].records :
                      /\ row[1] = <<job[w].corpus, job[w].records[i].body>>
                      /\ \/ row[2] = <<job[w].registry, job[w].records[i].native>>
                         \/ IsCurrent(sources[row[2]]) /\ row[1] \in links[row[2]]]_vars

\* A source stops being current only by the success of a non-empty run of its
\* own registry entry that did not capture it.
RetirementNeedsAbsence ==
    [][\A s \in SourceKeys :
          IsCurrent(sources[s]) /\ ~IsCurrent(sources'[s]) =>
            \E w \in Writers :
                /\ Succeeds(w)
                /\ job[w].registry = s[1]
                /\ job[w].records # <<>>
                /\ s[2] \notin Captured(w)]_vars

\* When a run succeeds, the last record captured under each native id can be
\* found by search, whatever the run itself or others retired on the way.
SuccessMeansSearchable ==
    [][\A w \in Writers : Succeeds(w) =>
          \A i \in DOMAIN job[w].records :
             LET r == job[w].records[i] IN
             (\A j \in DOMAIN job[w].records : job[w].records[j].native = r.native => j <= i)
             => <<<<job[w].corpus, r.body>>, <<job[w].registry, r.native>>>>
                    \in Matches(sources', documents', links', Corpora)]_vars

\* Nothing that one ingest does, and no lock it waits for, keeps another in
\* write() for ever: PostgreSQL breaks the cycles that the record order and
\* the two sweeps can close.
EveryRunEnds == \A w \in Writers : pc[w] # "idle" ~> pc[w] = "idle"

\* What the documentation promises ("Capture is lossless"): every current
\* source can be found by search.
Lossless ==
    \A s \in SourceKeys :
        IsCurrent(sources[s]) =>
            \E d \in DocumentKeys : <<d, s>> \in Matches(sources, documents, links, Corpora)

\* With one writer at a time, exactly the documents that a current source
\* cites are valid: none is lost and none outlives its sources.
ValidIffSupported ==
    \A d \in DocumentKeys : documents[d] = "valid" <=> IsSupported(sources, links, d)

\* The searchable document of each source.
Searchable == [s \in SourceKeys |->
    IF \E d \in DocumentKeys : <<d, s>> \in Matches(sources, documents, links, Corpora)
    THEN CHOOSE d \in DocumentKeys : <<d, s>> \in Matches(sources, documents, links, Corpora)
    ELSE NoRow]

KB == INSTANCE KnowledgeBase WITH content <- Searchable

\* With one writer at a time, the writer's statements amount to the atomic
\* replacement of a registry entry's texts: what is searchable afterwards is
\* the snapshot, all of it and nothing older.
RefinesKnowledgeBase == KB!Spec

=============================================================================
