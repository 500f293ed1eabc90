# Carrier onboarding knowledge base: a formal model

This directory holds a TLA+ development of the carrier onboarding knowledge
base: a small service that ingests approved sources into PostgreSQL and answers
the questions of carriers and staff from them. The modules follow the Python
and SQL of `src/`; `PROJECT.json` maps each definition to the lines it stands
for. TLC checks small instances, TLAPS proves the safety properties for
instances of any size.

Contents: [the system](#1-the-system), [the modules](#2-the-modules),
[the runs](#3-the-runs), [bounds and fairness](#4-bounds-and-fairness),
[the proofs](#5-the-proofs), [what was found](#6-what-was-found),
[what is left out](#7-what-is-left-out), [the plan](#8-the-plan).

## 1. The system

| Component | Code | State it keeps | Operations |
|---|---|---|---|
| Ingest command | `ingest/cli.py`, `ingest/registry.py` | the selected entries, a position in them | load and validate a registry file, capture and write each source in turn |
| Source adapters | `ingest/adapters.py`, `ingest/ome.py` | none (the sources are upstream) | cut a file into chunks, select transcripts, group messages by conversation |
| Ingest writer | `ingest/writer.py` | a database transaction, one row of `ingestion_runs` | upsert source and document, replace the link, retire what is missing, finish the run |
| Knowledge store | `db/migrations/*.sql` | `sources`, `documents`, `document_sources`, `ingestion_runs` | none of its own |
| Retrieval | `retrieval/repository.py` | none | search the valid documents of some corpora |
| Authorizer | `auth/carrier_hub.py`, `domain.py` | none | turn a bearer token into a principal: by signature, or by asking Carrier Hub |
| Answer service | `retrieval/service.py` | none | route a question, read one source of evidence, synthesize |
| Carrier Hub client | `carrier_hub/*.py` | none | read and project the status of one application |
| Market clients | `market/*.py` | none | read one aggregate row of a LoHi view |
| HTTP API | `api/app.py` | none | validation, dependency injection, mapping of failures to statuses |
| Question inventory | `ingest/question_inventory.py` | a report file | read all transcripts, extract, redact and classify their questions |
| Evaluation | `retrieval/evaluate.py` | none | an offline report |
| Deployment | `settings.py`, `docker-compose.yml`, `docs/ome-analytics-rollout.md` | none | apply migrations, choose the schema and the roles |

**How they interact.** An operator runs the ingest command with a registry file.
For each entry, one after the other, the command awaits an adapter and then the
writer. The writer commits a `running` row first, then does everything else in a
second transaction. Several commands may run at the same time and share only
the database. A request passes through the authorizer, which may call Carrier
Hub, then through body validation, then through the answer service. The service
awaits one dependency (Carrier Hub, a LoHi view, or a search) and after a search
perhaps the language model. Requests and ingests also share only the database.
Every `await` lets all other requests run, and ingests run in other processes
at any time.

**What is hard.**

* The writer's statements run at READ COMMITTED. The sweep over `documents` is
  global: it crosses registry entries and so the transactions of other ingests.
  Its condition is decided with the snapshot of the statement, while the rows it
  updates may be newer.
* Ingests lock rows in the order of their captures and of two sweeps. They can
  deadlock.
* A source row and its link are replaced by different statements, and a source
  may change its corpus. Search filters on the corpus of the document, but shows
  the title of the source.
* Retired rows come back: two `valid_until` columns are reset in two tables.
* A crash, a cancellation, a failed statement or a failed commit may come after
  any step of the writer, a failing adapter after any source of a command.
* The meaning of an empty capture (an outage) differs from that of a short one
  (deletions), and the adapters decide which of the two the writer sees.
* Each dependency of a request may fail at its own await; evidence is held
  across the await of the language model while ingests retire it.
* A search judges validity with the time of its BEGIN, and reads its rows with
  a later snapshot.
* Carrier Hub and the marketplace of LoHi change between question and answer,
  and answer in forms that only partly fit what the clients expect: dates that
  are none, names that are not unique, counts on both sides of a bound.
* The migrations, and one cast of the search, name relations without a schema:
  what they mean depends on the role, on the order, and on what exists.

**What makes each part correct.**

* *Writer*: a write takes effect as a whole with the success of its run or not
  at all; what search shows is the text last captured from the source, in the
  corpus it was captured for; a source is retired only because a successful run
  of its own entry did not capture it; what a successful run captured can be
  found; every run ends.
* *Command and adapters*: success means that every selected source is published
  as captured; transcripts are never public; cutting and grouping lose nothing.
* *Store*: what the writer can write to, the service can search; a search shows
  nothing that was out of date before it began, and misses nothing that lasted.
* *Live tools*: a lookup ends once, with a failure or with data about the very
  application or market it was asked for, as of a moment within the lookup; the
  parts of a card, and of a market row, fit together.
* *Inventory*: every question is counted once, under its speaker, and by its
  own wording.
* *Request path*: internal knowledge reaches staff only, a live status only the
  capability that names the application; every text of an answer is cited; a
  handoff is sent because nothing that matches was there and not because
  something failed; qualified guidance is marked; every request is answered,
  unless a database keeps it waiting.

## 2. The modules

```
KnowledgeStore          tables, keys, validity, the rows a search may return
  IngestWriter          the writer as a transaction, several at a time
    IngestWriterProofs
    MCIngestWriter
  KnowledgeBase         abstract: a successful capture replaces an entry at once
  IngestCommand         the command; publishes through KnowledgeBase
    IngestCommandProofs
    MCIngestCommand
  AnswerService         the request path; reads and changes KnowledgeBase
    AnswerServiceProofs
    MCAnswerService
  SearchTiming          the clocks and snapshots of a search and an ingest
    SearchTimingProofs
    MCSearchTiming
Places                  the part of a sequence at some of its places (pure)
    PlacesProofs        facts of numbers, recursion and sequences
  Adapters              what a capture makes of a source (pure); in IngestCommand
  QuestionInventory     the report on the questions of all transcripts
    QuestionInventoryProofs
    MCQuestionInventory
LiveLookup              abstract: what a live tool promises
  StatusLookup          the application status, from payload to card
    StatusLookupProofs
    MCStatusLookup
  MarketLookup          the two market tools over the views of LoHi
    MarketLookupProofs
    MCMarketLookup
Provisioning            the migrations and what they leave for the service
    MCProvisioning      (its proofs are the second part of SearchTimingProofs)
```

`IngestWriter` implements `KnowledgeBase` as long as transactions do not overlap
(run `ingest_serial`, theorem `Refinement`), or overlap only for different
corpora (theorem `CorporaApart`). `IngestCommand` and `AnswerService` are built
on the abstract `KnowledgeBase` instead of the writer, so that their state stays
small. `SearchTiming` has times where the others have booleans for validity, and
implements `KnowledgeBase` as well (theorem `TimingRefinement`).
`StatusLookup` and `MarketLookup` refine `LiveLookup`,
which is what `AnswerService` takes for granted of its two live dependencies.

**KnowledgeStore** fixes the vocabulary. A row of `sources` is named by
`(registry, native)`, a row of `documents` by `(corpus, body)`: the unique keys
of the schema. No row is ever deleted, so the surrogate ids are not needed.
SHA-256 is taken as injective, so a body stands for its hash. `valid_until` is
only ever set to the current time or to NULL, so it is a boolean. `Matches` is
the query of `repository.py` without ranking.

**IngestWriter** keeps what an open transaction wrote (`wsource`, `wdocument`,
`wlink`) apart from the committed tables; a written row is a locked row.
The actions are the statements of `write()`: `StartRun`, `UpsertSource`,
`UpsertDocument`, `Relink` (DELETE and INSERT on `document_sources`, both
confined to a source whose row is locked), `ScanSources`/`RetireSource` and
`ScanDocuments`/`RetireDocument` (an UPDATE chooses its rows with its snapshot,
then locks and changes them one by one, in any order), `Commit` (marks the run
`succeeded` in the same transaction), `StatementError` and `DeadlockVictim`
(rollback), `RecordFailure` (the second commit of the error path), `Crash`. An
empty capture goes straight to `Commit`. A statement that needs a row of another
open transaction is not enabled until that one ends: PostgreSQL's row lock. The
refinement of waiting that matters: after the wait, the UPDATE re-checks its
condition on the new version of the row alone, and for `documents` that is
`valid_until IS NULL` and not the `NOT EXISTS` over other tables.

**KnowledgeBase** has one variable, the searchable document of each source, and
one action, `Publish`: a non-empty capture replaces everything its registry
entry published before; the last record of a native id wins.

**Places** has `At`, the part of a sequence that stands at given places: what a
loop with a condition, or a WHERE clause, keeps of what it goes through. It is
`SelectSeq` without its recursive definition, which no proof could open.

**Adapters** models texts as sequences of lines with a length. `Chunks` is the
greedy cut of `_chunks`, `Cut` its loop line by line, including the separator it
counts for each line and the one empty chunk of an empty file. The native id of
a chunk is the resolved path of its file and its index (`adapters.py:64`).
`OmeRecords` keeps the order of the query: blank rows are skipped by SQL, then
the limit, and only then are rows without call id or date and irrelevant ones
dropped. `FrontRecords` groups relevant messages by conversation, each message
once.

**IngestCommand** has `Start` (validation of the whole registry file, selection
of one source or all), `Capture`, `CaptureFails`, `Write`, `WriteFails`,
`Finish`, and `Edit` for the owners of the sources, who change them at any
time. Registry files are inputs; some of those checked are invalid. The path of
an entry is the resolved one: to run the command from another directory is to
run it with another path. Three assumptions tie the constants together: each
source holds what its kind can hold (`HoldingsAssumption`), ids and texts are
enough to name what is captured of it (`RecordsAssumption`), and a line tells
whether it was said in a call (`SeparationAssumption`), without which "a text of
a transcript" would not mean anything: a policy file may well contain a sentence
that somebody also said.

**AnswerService** has one action for each stretch of the handler between two
awaits: `Receive` (header, capability), `UserInfo`, `ApplicationStatus`,
`Market`, `BeginSearch`, `Select`, `SearchFails`, `Synthesize`, and `Ingest` for
what happens to the knowledge base meanwhile. `Dispatch` is the common end of
both token lanes: validation of the body and routing. A service that was started
without a DSN has an `UnconfiguredRepository`, whose search finds nothing
(`SearchNothing`). Statuses follow the handler: caught failures are 503,
exceptions that no handler catches (a `ValueError` of a market name, a reply of
Carrier Hub that is no object, a completion without choices) are 500. The order
of hits is any order: ranking is abstracted, the limit is not.

A search is judged by the clock of its BEGIN and reads a later snapshot.
`window` holds, for each request between the two, the rows that were current at
every moment since its BEGIN (`kept`) and at some moment (`seen`). `Select` may
return any choice of rows that has all of the former and none but the latter, up
to the limit. That this is what the two clocks come to is not assumed:
`NothingLastingIsMissed` and `NothingStaleIsShown` of `SearchTiming` say it of
the `WHERE` clause and of the times that ingests write.

**SearchTiming** keeps a clock, the validity times of both tables, one open
ingest at a time and any number of searches. psycopg sends `BEGIN` when the
first statement is executed, in a message of its own, and `now()` is the time of
`BEGIN`; the query takes its snapshot when it arrives. So a search is two
actions, `BeginSearch` and `Select`, and so is an ingest, `BeginIngest` (whose
`now()` is written to the rows) and `CommitIngest`. `WrittenSource` and
`WrittenDocument` are what the statements of a whole `write()` leave of a row;
how they interleave is the subject of `IngestWriter`. `kept`, `seen` and
`overtaken` are history variables: no guard reads them.

**StatusLookup** follows one call of `get_application_context`: `Ask` (with the
check of the id), `Serve` and `Change` for Carrier Hub, `Down`, and `Receive`,
which projects, checks and makes the card. A reply is a record of the fields
that the client reads, each with the classes of values it tells apart: a date
may be missing, unreadable, a date, or a date without a UTC time (`_parse_time`
forgives what it cannot parse, not what it cannot convert). `Raises` collects
every way in which the projection fails, including the dates that no card shows.
The summaries of training and verification, which the client computes and
`_status_card` leaves out, are not in the model.

**MarketLookup** has the loads and pools of LoHi, which change at any time, and
the two views of `docs/*.sql` as operators: `Listed` (the HAVING clauses),
`Availability` (the CASE), `Matches` (the WHERE of the client). `Query` is one
snapshot, the two-row rule, and `IsValid`, the validation of `market/models.py`:
counts, and the texts of facilities, equipment and markets, of which `Fitting`
names those the models accept (a null or empty city is not among them, nor a
time zone of more than 100 characters). The limits (10, 3 and 10) are constants.

**Provisioning** runs the statements of the migrations one by one, in sequences
that a plan gives, each of which may stop for ever at an error or with the
server. `SearchPath` and `Resolved` are PostgreSQL's rules; `CanIngest` and
`CanSearch` what the statements of the service name.

**QuestionInventory** has `Call` (OME stores a transcript), `Read`, `Scan` (one
row), `Truncate` and `Write` (the two steps of `write_text`, which empties the
file first) and `Abort`, at any time: between the two it leaves a torn file where
the earlier report was. A line is its speaker label, the terms and the
identifiers it holds, and its shape. `Redact` turns identifiers into terms, which
is what the placeholders are for `classify`, and drops the terms that need a part
of an identifier (`lost`).

Faulty variants of operators (`Relink_KeepsOldLinks` and the like, marked
"Fault:" in their comment) stand before the operators they vary. They are used
by no specification. Substituted for the real operator they break one property
each, which shows that the property depends on that line of the code.

## 3. The runs

| Run | Asks | Answer |
|---|---|---|
| `ingest_concurrent` | Two ingests interleaved statement by statement, with locks, failures, deadlocks and crashes: can they expose, retire or lose anything without a run that captured or missed it, and does every run end? | no, and yes |
| `ingest_serial` | One ingest at a time: is what search shows exactly the latest snapshot, and is exactly what is cited valid? | yes (refines `KnowledgeBase`) |
| `ingest_lossless` | Two at a time: can every current source be found? | **no**, see 6 |
| `answer_synthesis` | Internal knowledge, live status, evidence, handoffs, and what may keep a request waiting, for every token and routing | they hold; only a database may |
| `answer_conflict` | With synthesis: does an answer made of qualified guidance say so? | **no**, see 6 |
| `ingest_command` | Is a command that reports success published as captured, do transcripts stay internal, are chunks and conversations faithful, and is a source retired only for cause? | yes |
| `ingest_window` | Does OME still lack what is retired? | **no**, see 6 |
| `status` | Is a status card complete, fresh, refused only for cause, and about the right application? | yes (refines `LiveLookup`) |
| `market` | Are market rows unambiguous, refused only for cause, and fit to be shown? | yes (refines `LiveLookup`) |
| `search_clocks` | With clocks and snapshots apart: does a search show anything stale, or miss anything that lasts? | no |
| `provision_local` | Whatever migrations ran and wherever they stopped: is a database that can be written to one that can be searched? | yes |
| `inventory_report` | In a report written to its end: is every question counted once, under its speaker, in the category of the wording that redaction leaves? | yes |

What each property says, and about which behaviour of the code, stands before
its definition. Some deserve a word here.

* `SearchIsAligned` is the writer's part of the carrier-safe boundary. Search
  filters on the corpus of the *document*. A source that moves from public to
  internal must therefore never stay linked to its former public document, at
  any moment another session can see. `ExposureNeedsCapture` is its companion
  over steps: no source becomes searchable with a text except by the success of
  a run that captured this text from it for this corpus. The exception in it is
  the repair of finding 1: a current source that lost its shared document is
  found again when any entry captures the same text for the same corpus.
* `SuccessMeansSearchable` holds with two overlapping writers *at the commit*.
  What `ingest_lossless` shows is the loss that comes after it.
* `DoneMeansPublished` compares the knowledge base with what the command
  captured, after the whole loop, over all entries: an adapter failure that is
  passed over, or a registry file with an id twice, breaks it.
* `HandoffIsHonest` relates the reply to what the knowledge base held from the
  BEGIN of the search to its SELECT, seen with the rights of the caller's token:
  no row that matches was there all the time. It does not say that nothing
  matches. A source whose text an ingest replaces in between has neither its old
  row all the time nor its new one, and the search can miss it, see 6.
* `OnlyDatabasesHold` says what can keep a caller waiting for ever: the LoHi views
  and the knowledge base, which are called without a timeout, and nothing else.
* `RetiredForCause` ties what disappears to the step, the entry and the capture
  that made it disappear, across edits of the sources between capture and write.
  It is exact about three causes that are weaker than a deletion, see 6.
* `NothingStaleIsShown` relates two tables, two clocks and a history: whatever a
  search returns was current at some moment between its BEGIN and its snapshot.
  `NothingLastingIsMissed` is the other direction: what was current at every
  moment is returned. It would fail if the upsert of an unchanged document set
  its `valid_from` again. `UndisturbedIsExact` adds when the result is exactly
  what is current: unless an ingest both begins and commits inside that gap.
  Ingests that began before may commit in it, and the resolution of the clock
  does not matter.
* `NothingThin` says what the code guarantees of the disclosure rule
  (`docs/market-catalog-data-contract.md:67`), which is less than the rule for
  equipment, see 6.
* `RowsRefusedForCause` lists why a row that the view has fails the request: a
  text that the models do not accept or, on the opportunity route alone,
  equipment between the limits of view and model.
* `EveryQuestionOnce` is about reports that were written to their end, whatever
  a torn one left behind; `WordingGoesFirst` says both how far redaction may move
  a question and when it may not move it at all.
* `BandFitsEquipment` puts three bounds of the view and one of the client into
  relation.
* `WrittenIsSearchable` holds for all sequences of migrations, also the
  meaningless ones: an unqualified name can make the service fail, but never
  make it write to one schema and search another.

## 4. Bounds and fairness

**Writer.** Two registry entries, two native ids, two texts; entry A occurs with
both corpora. The captures are empty, of one record under either id, of two in
both orders, and of one native id twice with different texts. A capture of the
second id alone matters: only after it can the first id be retired and return.
One writer with four runs takes them all and covers capture, retirement, return
and a change of corpus in sequence. Two writers take three captures, an empty
one, one with a native id twice, and one whose texts come in the other order, so
that two writers can close a cycle of locks. `MaxRuns = 3` lets one process run
again while the other is open, so retired rows come back and runs overlap in
pairs; the lock conflicts and snapshots of READ COMMITTED are relations between
two transactions. The type invariant of `IngestWriter` is a conjunct of
`IngestInv`, and that of `SearchTiming` one of `TimingInv`.

**Requests.** One request with every token, market argument, application and
body validity, six questions (one of each route, one of several, one that
matches nothing) and up to three ingests. Requests share nothing but the
knowledge base, which they only read, so a second request adds no behaviour; the
theorems of `AnswerServiceProofs` hold for any set of requests. The service is
started with a database and without one.
`EvidenceLimit = 2` against three possible hits makes the limit bite.

**Command.** Three sources, one of each enabled kind. Files of up to three lines
of two lengths, limits below, at and above the exact fit and one that a single
line exceeds; transcript tables with blank, incomplete and irrelevant rows
around a limit of two; message lists over two conversations, scattered, repeated
and with messages that are irrelevant alone. Registry files: three that load, of
different order, visibility, chunk size and path, and one for each reason to be
rejected or to stop the loop.

**Search.** One search, times 1 to 3, one registry entry, two ids and two texts:
three times are enough for an ingest that begins before, at and after the BEGIN
of the search and for one that retires what another has written. Any number of
searches, entries and times is the matter of `SearchTimingProofs`.

**Live tools.** `status` has two lookups of two applications, one with an id that
cannot be part of a path, which change once; two trainings with every pair of
dates that count, and one deviation of each other kind. `market` has two pools
with names that collide and titles with untidy white space, two loads and limits
2, 1 and 2 in place of 10, 3 and 10, so that counts fall below, between and on
them; one of two facilities and one of the two pools have texts that the models
refuse. Lookups and loads are symmetric where a `.cfg` says so; no liveness is
checked there. Forms, numbers and limits are arbitrary in
`StatusLookupProofs` and `MarketLookupProofs`.

**Provisioning.** All sequences of the four migrations without repetition, that
is, every order and every omission, stopped at every statement. **Inventory.**
Two calls of up to two lines out of eight, two of which lose words to an
identifier, with reports at any time.

`CHECK_DEADLOCK FALSE` is said where the model ends: after `MaxRuns` runs no
process has anything left to do, and a request is answered once.

**Fairness.** `EveryRunEnds` assumes weak fairness of the statements of each
writer (`Work`), which includes the deadlock detector: the database executes
what it is sent. Starting runs, failing statements and crashes are not fair.
Since waiting for a lock is a disabled action, this does not assume that locks
are granted. `OnlyDatabasesHold` assumes weak fairness of `ServeTimed` for each
request: the replies of Carrier Hub, for which httpx is given five seconds
(`auth/carrier_hub.py:66`, `carrier_hub/client.py:33` and `:54`), and of the
language model, whose client has a limit of its own. Nothing is assumed of the
databases (`ServeFromDatabase`): the code sets neither a connect nor a statement
timeout (`retrieval/repository.py:51`, `market/client.py:47` and `:99`), so a
request may wait for them for ever, and the property says so.

## 5. The proofs

`IngestWriterProofs` proves, for any number of writers, registry entries, native
ids, texts, captures and runs:

* `TypeCorrect`, `LocksInvariant`, `IngestInvariant`: `Spec => []IngestInv`, in
  three layers;
* `SearchAligned`: `Spec => []SearchIsAligned`;
* the action properties: `SuccessAlone` (`OnlySuccessChangesKnowledge`),
  `Exposure` (`ExposureNeedsCapture`), `Retirement` (`RetirementNeedsAbsence`)
  and `SuccessSearchable` (`SuccessMeansSearchable`);
* `RunsEndOnce`: what a run has ended with is never marked differently;
* `SearchReadsResults`: for every set of corpora, `Matches` returns what
  `KnowledgeBase` returns;
* as long as no two transactions overlap (`NoOverlap`, any number of processes
  and runs): `SerialInvariant`, `ValidDocuments` (`ValidIffSupported`),
  `LosslessAlone` (`Lossless`) and `Refinement` (`RefinesKnowledgeBase`);
  `OneProcess` has them for a single process without a hypothesis on behaviours;
* as long as transactions that overlap work for different corpora (`Apart`), and
  each entry keeps to one corpus (`OneCorpusEach`): `CorporaInvariant`,
  `CorporaApart` (again `ValidIffSupported`, `Lossless` and
  `RefinesKnowledgeBase`) and `CorporaNeverWait`.

`SearchIsAligned` is not inductive. A commit merges the writes of one
transaction into tables that others may have changed since it began, so it is
preserved only because no two transactions hold the same row (`RowsAreLocked`)
and because a link is only ever written under the lock of its source
(`WritesAreConfined`). Inside a transaction source and link do disagree between
two statements, so the invariant says where: at the record being written
(`LinksFollowSources`). That in turn needs to know that the writer stands at a
record of its job (`JobsAreRunning`), and that the sweep never touches a row
that does not exist, though it chose its rows in an older snapshot
(`SweepsReachRows`).

The argument has layers. `TypeInv` (types, jobs, sweeps) is inductive by itself;
given it, `LinkInv` (locks, confinement, links) is; given both, `CaptureInv` is:
what a sweep is to reach was not captured (`SweepIsConfined`), what is written
was (`WritesAreCaptured`), and the records that the loop is through with are in
the transaction unless a later record of the same native id replaced them
(`CaptureIsWritten`). The heart of the second layer is the lemma `Bystander`:
what a step of one writer changes is invisible to the rows another writer has
written. The third layer is what the action properties need: each follows from
it by looking at the one step that changes the tables, the commit. So *with any
number of writers* nothing becomes searchable, and nothing is retired, except by
the success of a run whose capture says so.

Without overlap more is true, and `ingest_lossless` shows that it needs that.
`SerialInv` speaks of the view of an open transaction: the documents of
current sources are valid in it but for the record being written, and once a
sweep has chosen its rows, what is to go is gone or chosen. At the commit the
view becomes the tables. `LosslessAlone` delimits finding 1: the loss takes two
overlapping ingests. `Refinement` maps each commit to `Publish` of
`KnowledgeBase` and every other step to a stutter. `NoOverlap` is stated of the
behaviour, as a temporal hypothesis, because nothing in the code enforces it:
operators who run their commands one after the other do.

Which overlaps are harmless? `SerialStep`, the heart of the argument, asks only
that the commit of one writer spares what another one sees (`CommitSpares`).
Ingests of different entries are not enough: the sweep over documents is
confined neither to an entry nor to a corpus, and that is finding 1. Ingests of
different corpora are, because a document row belongs to one corpus, provided
that every entry keeps to one corpus. Otherwise a source that has moved would
be in a corpus that its ingest does not work for. Then everything that a
transaction reads, sweeps or writes is a row of its own corpus
(`RowsOfEntries`, `WritesOfEntry`), so that such ingests do not even wait for
each other. `config/sources.production.yaml` is such a registry: one public
entry and one internal one. A registry file may break `OneCorpusEach` over time,
when an entry changes its visibility; the theorem then says nothing, and
`ingest_concurrent` has such an entry.

`AnswerServiceProofs` proves, for any number of requests, applications,
questions and ingests:

* `TypeCorrect`: `Spec => []TypeOK`;
* `AnswerInvariant`: `Spec => []AnswerInv`;
* `BoundaryHolds`: `Spec => []InternalNeedsStaff`;
* `ApplicationScope`: `Spec => []OwnApplicationOnly`;
* `HonestHandoff`: `Spec => HandoffIsHonest`;
* `EvidenceHolds`: `Spec => []AnswersRestOnEvidence`;
* `QualifiedWithoutSynthesis`: with `Synthesis = FALSE`,
  `Spec => []QualifiedIsConditional`;
* `CitedIsCaptured`: whatever is cited was captured from the source it is cited
  from, for the corpus it is cited in;
* `InternalEntriesNeedStaff`: what an internal entry publishes reaches only staff.

Here the invariant `RequestInv` is kept for each request separately. It ties the
principal to the token (`IsEntitled`: internal exactly for staff, an application
only from a capability that names it), the held evidence to the principal, and
the phase to what must be known in it. Steps of other requests and ingests leave
all of this alone, which is the point: evidence held across the await of the
language model remains evidence the caller was entitled to when it was read.
`HonestHandoff` is about any choice between `kept` and `seen`, and the search that
makes it is the matter of `NeverStale` and `LastingIsFound` below.
`QualifiedWithoutSynthesis` delimits finding 2: the counterexample of `answer_conflict` needs
a language model, since an answer without one is its first hit alone.
`CitedIsCaptured` follows a text the whole way, from the capture through the
knowledge base, the window of a search and the evidence to the citation; that a
citation is of a hit, or of evidence held since one, is the lemma `CitedSteps`.
Its corollary `InternalEntriesNeedStaff` puts the boundary in the terms of the registry file, in which operators decide it.

`IngestCommandProofs` proves, for any registry files, sources of any length and
any number of commands:

* `CommandInvariant`: `Spec => []CommandInv`, and with it `TypeCorrect`;
* `DonePublishes`: `Spec => []DoneMeansPublished`;
* `TranscriptsInternal`: `Spec => []TranscriptsStayInternal`, and `PublicSources`,
  which says it of the kinds of sources instead of their lines;
* `FilesAreCut`: `Spec => []ChunksAreFaithful`;
* `WholeConversations`: `Spec => []ConversationsAreWhole`;
* `RetirementHasCause`: `Spec => RetiredForCause`;
* `RetiredIsAbsent`: with `FewTranscripts`, `Spec => RetiredMeansAbsent`.

`CommandInv` says that every entry before the position of the command is
published as captured (`IsPublished`), which the next entry leaves alone because
`load_registry` lets no id occur twice, and that whatever is searchable under a
source is one of the records that some accepted entry makes of something this
source may hold (`HasOrigin`). Everything about transcripts follows from the
second. `FilesAreCut` and `WholeConversations` are facts of the adapters: a loop
invariant of `_chunks` (what is closed and what is open make up the lines so far,
the size is that of the open chunk, no closed chunk could have taken one line
more), and what `Distinct` keeps. `RetirementHasCause` needs that a relevant,
complete transcript within the limit is always among the records
(`CallsAreKept`), a relevant message always in some conversation. `RetiredIsAbsent`
delimits finding 3: as long as no table has more rows than the query returns, a
retired transcript is absent, incomplete, or no longer the text that was published.

`QuestionInventoryProofs` proves, for any calls, transcripts and categories:

* `ReportInvariant`: `Spec => []ReportInv`;
* `QuestionsOnce`: `Spec => []EveryQuestionOnce`;
* `AskedByCarriers`: `Spec => []CarriersAskedThem`;
* `WordingDecides`: `Spec => []WordingGoesFirst`.

`ReportInv` says that the records are the questions of the rows scanned so far,
each once, with the kind and category of their line; that each is counted once
rests on the calls of different rows being different. The output is a whole
report, and then one of a single reading, or it is torn or absent; about the
latter nothing is claimed. The last theorem needs that the names of identifiers
are terms of the last category alone, which `_CATEGORIES` satisfies and
`InventoryAssumption` states: a question that loses its own terms to an
identifier can then move to a later category, and never to an earlier one.

`PlacesProofs` holds what these proofs share: that numbers below a bound have a
greatest, that `At` keeps exactly the places it is given and their order, what
`FlattenSeq` does with one part more. It also is the way around induction theorems
with an operator parameter: `Induction` is about a *set* of numbers that holds 0
and with each number the next, `Recursion` about a *function* of steps. A
recursive function of the model, such as `Cut`, is then shown to exist and to
satisfy its equation, and a fact about all its values is one about the set of
numbers at which it holds.

`StatusLookupProofs` proves, for any applications, trainings, vendors and
forms of replies, all properties of `StatusLookup` that the runs check:
`TypeCorrect`, `RequirementsListed`, `FreshCards`, `Refusals` and, as a refinement of `LiveLookup`, `PromiseKept`. Their common invariant
`StatusInv` says of each lookup that its end is the card of what it was served
or a failure, and when a refusal may occur; the rest is what the operators of
the projection yield for any form.

`MarketLookupProofs` proves, for any number of loads, pools and lookups and any
limits and texts: `TypeCorrect`, `NeverGuessed`, `DisclosureHolds`
(`NothingThin`), `RefusedForCause` (`RowsRefusedForCause`), `BandFits` and
`PromiseKept`. Here the work is in the counting lemmas: sets of
loads are finite, counts grow with the set counted, so what is listed under one
bound fits what is counted under another; and in `Query`, where several rows,
none and exactly one exclude each other.

`SearchTimingProofs` proves, for any number of searches, any registry entries
and captures and any length of time:

* `TimingInvariant`: `Spec => []TimingInv`;
* `NeverStale`: `Spec => []NothingStaleIsShown`;
* `LastingIsFound`: `Spec => []NothingLastingIsMissed`;
* `UndisturbedExact`: `Spec => UndisturbedIsExact`;
* `TimingRefinement`: `Spec => KB!Spec`, where the content of `KnowledgeBase` is
  what is current in the tables (`Content`);
* `SearchReadsContent`: a search that no ingest overtakes returns
  `KB!Results(Corpora)`.

`NothingStaleIsShown` needs to know what an old clock lets through in tables that
move on under it, `NothingLastingIsMissed` what it does not shut out. `TimingInv`
says that what it lets through has been current since the search began, and that
it lets through what has been current ever since (`SearchInv`). A commit keeps
the first because a row that it retires was current before, because a source
never outlives its document (`HomesOutlive`), and because the open ingest began
after everything that the tables say (`IngestIsLatest`). It keeps the second
because a row that is still current after the commit kept its `valid_from`, an
upsert included (`CommitKeepsLasting`). A search that no ingest overtakes has a
clock that is later than every time in the tables (`StampedBy`), so that it reads
what is current.

This ties the two clocks of a search to `AnswerService`: its `Select` returns
rows that include those of `kept` and are among those of `seen`, which is what
`LastingIsFound` and `NeverStale` prove of the tables; and with
`TimingRefinement` and `SearchReadsContent` both modules are about one and the
same abstract knowledge base.

The second part of the module is about `Provisioning`, which it extends as well
(hence the names `ProvisioningInit`, `ProvisioningNext` and `ProvisioningSpec`), for
plans of any length, with repetitions:

* `ProvisioningInvariant`: `ProvisioningSpec => []ProvisioningInv`;
* `WrittenSearchable`: `ProvisioningSpec => []WrittenIsSearchable`;
* `RolloutServesNothing`: with `KB_SCHEMA=carrier_kb` and roles of other names,
  `ProvisioningSpec => [](~CanIngest /\ ~CanSearch)`.

`ProvisioningInv` says that a schema with the table of sources has the type of
the search as well. Between the two statements of one migration this holds only
because nothing that the session itself does in between changes what an
unqualified name means (`Past`). `WrittenSearchable` supposes that `KB_SCHEMA` is
`carrier_kb` exactly when the role of the service has that name, as in the local
deployment. Without it the theorem is false: a role `carrier_kb` whose settings
say `public` finds the type of the search in the other schema once 000002 comes
last. What becomes of the rollout of the documentation, where the role has
another name, is the matter of `RolloutServesNothing`.

The assumptions are those named in the modules, and TLC evaluates them in every
run: the definitions and captures are made of registries, corpora and records;
the sentinels (`NoRow`, `NoApplication`, `Nothing`) are no ordinary values; limits
are positive; each source holds what its kind can hold, in ids and texts that have
names, and its lines are those of a call or not (`HoldingsAssumption`,
`RecordsAssumption`, `SeparationAssumption`); only the last category has names of
identifiers. `NoOverlap`, `Apart`, `OneCorpusEach`, `Synthesis = FALSE`,
`FewTranscripts` and the names of roles and schemas are hypotheses of single
theorems and stand in their statements.

Only model-checked is liveness (`EveryRunEnds`, `OnlyDatabasesHold`), which
needs fairness and ENABLED, both out of reach of the provers.

`Lossless`, `QualifiedIsConditional` and `RetiredMeansAbsent` have counterexamples
and are proved under the hypotheses that exclude these, as said above.

## 6. What was found

Three findings are runs that end in a counterexample.

1. **A current source can become unsearchable** (`ingest_lossless`,
   `writer.py:93`). Ingest 1 has replaced its citation of a text that another
   source shares. Ingest 2 upserts and cites that text and commits after
   ingest 1's sweep has taken its snapshot, before the sweep reaches the row.
   The sweep waits for the row, finds it valid, and retires it. Source 2 stays
   current and has no searchable document until it is captured again. Both
   ingests are of one corpus: `CorporaApart` shows that it takes that, or an entry
   that changes its corpus.
   `docs/architecture.md:18` says "Capture is lossless".
2. **Qualified guidance can be synthesized into a supported answer**
   (`answer_conflict`, `service.py:103`). Only the first hit is searched for
   "conflicting" and the like, while synthesis reads up to eight.
   `docs/canonical-policy-evidence.md:34-36` asks to surface the context instead
   of a single unqualified answer.
3. **Old transcripts are retired though OME still holds them** (`ingest_window`,
   `ome.py:40`). The query returns the newest 10000 rows, and the writer takes
   what passes the filters for a complete snapshot (`writer.py:77`).

Other places where the code does less than a text of the repository says came up
while modelling. They have no run of their own; where a property of section 3
says how far the code does hold, it is named.

* An emptied file yields one empty chunk (`adapters.py:102`), so the writer's rule
  for empty captures (`writer.py:79-80`) does not apply and its other chunks are
  retired.
* A native id holds the resolved path of the file (`adapters.py:64`): once the path
  is edited in the registry, or the command is run from another directory, all
  chunks of an unchanged file are retired and published again under other ids,
  while `docs/architecture.md:18` calls the capture idempotent on
  `(registry_id, native_id)`. `RetiredForCause` allows these two causes and the
  window of finding 3, and nothing else that is weaker than a deletion.
* Two overlapping ingests of one entry leave both captures current
  (`writer.py:84`): each sweep sees only what was committed before it began, and
  no lock or constraint keeps the commands apart.
* A search can find nothing although its source was always current
  (`repository.py:58`): when an ingest replaces a text between the BEGIN of the
  search and its snapshot, the old row is gone and the new one is not valid yet.
  The caller is then told that no approved source answers, which `HandoffIsHonest`
  allows in this case alone. `UndisturbedIsExact` says that nothing less causes
  it. A retry finds the text.
* The status card never has a next action (`carrier_hub/client.py:86`), which
  `docs/carrier-hub-contract.md:35-36` lists among its contents.
* `docs/market-catalog-data-contract.md:67` asks to suppress any aggregate with
  fewer than ten completed loads. Facilities keep to it. Equipment does not: the
  catalog view counts all recent loads (`docs/market-catalog-prototype.sql`), the
  opportunity view open ones, and the model checks the number it is given
  (`market/models.py:22`). Ten open loads and no completed one are shown.
  `NothingThin` states both counts.
* An opportunity row with equipment of three to nine loads fails the request
  (`market/models.py:22`): the view lists it, the client refuses the whole row.
  So does, on either route, a single text that is null, empty or too long
  (`market/models.py:11-14`): the views require a facility to have an id and not
  to have a city. `RowsRefusedForCause` shows that there is no other cause.
* A completion without choices raises an `IndexError` that `service.py:207` does
  not catch: the request ends with 500 instead of the first text.
* A service without a DSN answers every search with a handoff
  (`api/app.py:32-34`), as if no approved source answered.
* The local migrations do not serve `KB_SCHEMA=public`, for which
  `000003_ingestion_runs.sql:1` says they are: 000002 creates a schema with the
  name of the local role, and later unqualified names go there.
* `docs/ome-analytics-rollout.md:12` names migration 000002 alone, which lacks a
  table and a column that ingest and search need; and the runtime role does not
  find the type `kb_corpus` of the search (`repository.py:57`).
  `RolloutServesNothing` proves that no order of the migrations mends it.
* A phone number makes a question a support question
  (`question_inventory.py:36`): its placeholder contains a term of
  `support_contact`. It may also take the wording along: of "w-9 555-123-4567" the
  pattern of `question_inventory.py:17` leaves "w-[phone]", and a question about
  documents is counted as one about support. `WordingGoesFirst` shows that a
  question which keeps a term of its own category is not affected.
* An end within `write_text` (`question_inventory.py:123`) leaves a torn file, and
  the earlier report is lost.

## 7. What is left out

* Ranking, full-text matching and the wording of prompts and answers; the
  excerpts and metadata of documents. A question is a set of routing terms and
  the set of texts that match it.
* Text fields of Carrier Hub and LoHi beyond what decides control: explanations
  and labels. Of the lengths that pydantic checks only the outcome is modelled: a
  reply of Carrier Hub that exceeds them is one that is not complete, a text of
  LoHi is `Fitting` or not.
* The summaries of training and verification of the Carrier Hub client, which no
  answer shows.
* Indexes and the unused embedding columns; grants, beyond the search path of
  the role; the Helm values, which hold no logic.
* Health and readiness probes, logging, the request id middleware: no state.
* Failures of a search in a service without a database: it has none to fail.
* The Drive, Slack and LoHi view adapters, which only raise.
* `evaluate.py`: a loop of searches without state, whose results depend on
  full-text matching alone.
* In the inventory, the regular expressions themselves: a line has the
  identifiers and the shape that they find.
* Two commands of the same registry entry racing between capture and write: the
  older capture may win, and the writer cannot know. Their writes are
  interleaved in `ingest_concurrent`.
* The contents of tokens: expiry and signature are one bit, verifiable or not.

## 8. The plan

Done, in this order: `KnowledgeStore`, `IngestWriter`, `KnowledgeBase`,
`IngestWriterProofs` (the tables are what everything else relies on);
`AnswerService` and `AnswerServiceProofs` (the boundary); `Adapters` and
`IngestCommand`; `LiveLookup` with `StatusLookup` and `MarketLookup` and their
proofs; `SearchTiming` with its proofs; `Provisioning`; `QuestionInventory`; the
action properties and the refinement of the writer, the evidence of the answers,
`PlacesProofs`, `IngestCommandProofs` and `QuestionInventoryProofs`.

Then: the refinement of `KnowledgeBase` by `SearchTiming`, the proofs of
`Provisioning`, the overlaps that are harmless (`NoOverlap`, `Apart`), and the way
from capture to citation.

What is left is how far finding 1 reaches when ingests of one corpus overlap: a
current source is unsearchable only if its document was retired by a sweep that
chose its rows before the citation was committed. This takes a history of the
sweeps, which the writer does not keep.
