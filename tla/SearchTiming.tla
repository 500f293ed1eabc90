----------------------------- MODULE SearchTiming -----------------------------
(***************************************************************************)
(* The clocks of search and ingest.  psycopg sends BEGIN on its own, before*)
(* the first statement: now() is the time of BEGIN, while the statement    *)
(* reads a snapshot taken when it arrives.  A search compares valid_from   *)
(* and valid_until, written with the now() of an ingest, with its own      *)
(* now(), and an ingest may begin and commit between its BEGIN and its     *)
(* snapshot.                                                               *)
(*                                                                         *)
(* One ingest at a time, whose statements take effect when it commits:     *)
(* IngestWriter is about the others.  Texts, ranks and limits are left to  *)
(* AnswerService, whose Select returns any set of rows between `kept' and  *)
(* `seen': what this module shows of a search is the contract used there.  *)
(***************************************************************************)
EXTENDS KnowledgeStore

CONSTANTS
    Searches,     \* calls of PostgresKnowledgeRepository.search
    Definitions, Captures,   \* of the ingests, as in KnowledgeBase
    MaxTime,      \* bound: the clock
    Nothing       \* no ingest is in its transaction, no result yet

\* valid_until IS NULL: later than every time.
Forever == MaxTime + 1

Times == 1..MaxTime
Rows  == DocumentKeys \X SourceKeys

SourceRowType   == [home : DocumentKeys, until : 1..Forever]
DocumentRowType == [from : Times, until : 1..Forever]

\* overtakes: the searches that had sent BEGIN when the ingest did.
IngestType == [begin : Times, def : Definitions, records : Captures,
               overtakes : SUBSET Searches]

ASSUME TimingAssumption ==
    /\ Definitions \subseteq [registry : Registries, corpus : Corpora]
    /\ Captures \subseteq Seq(Records)
    /\ MaxTime \in Nat \ {0}
    /\ NoRow \notin SourceRowType \cup DocumentRowType
    /\ Nothing \notin IngestType
    /\ \A rows \in SUBSET Rows : rows # Nothing

VARIABLES
    now,        \* the clock of the database server
    source,     \* rows of `sources': the document they are linked to, valid_until
    document,   \* rows of `documents': valid_from and valid_until
    ingest,     \* the open transaction of the writer: its now() and its arguments
    begun,      \* now() of each search, 0 before its BEGIN
    result,     \* the rows it returned, of the corpora of its caller or not
    kept,       \* history: the rows that were current at every moment since its BEGIN
    seen,       \* history: the rows that were current at some moment since its BEGIN
    overtaken   \* history: an ingest began after its BEGIN and has committed

tables   == <<source, document>>
searches == <<begun, result, kept, seen, overtaken>>
vars     == <<now, tables, ingest, searches>>

\* The rows <<document, source>> joined by document_sources.
Linked == {row \in Rows : source[row[2]] # NoRow /\ source[row[2]].home = row[1]}

\* Those that are current, in both tables.
Current == {row \in Linked : source[row[2]].until = Forever /\ document[row[1]].until = Forever}

\* Fault: the condition on the sources, of migration 000004, is left out.
Visible_AnySource(t) == {row \in Linked : document[row[1]].from <= t /\ t < document[row[1]].until}

\* The WHERE clause of search() for a transaction that began at time t.
Visible(t) ==
    {row \in Linked : /\ document[row[1]].from <= t
                      /\ t < document[row[1]].until
                      /\ t < source[row[2]].until}

Init ==
    /\ now = 1
    /\ source = [s \in SourceKeys |-> NoRow]
    /\ document = [d \in DocumentKeys |-> NoRow]
    /\ ingest = Nothing
    /\ begun = [q \in Searches |-> 0]
    /\ result = [q \in Searches |-> Nothing]
    /\ kept = [q \in Searches |-> {}]
    /\ seen = [q \in Searches |-> {}]
    /\ overtaken = [q \in Searches |-> FALSE]

Tick ==
    /\ now < MaxTime
    /\ now' = now + 1
    /\ UNCHANGED <<tables, ingest, searches>>

Pending(q) == begun[q] # 0 /\ result[q] = Nothing

\* The transaction of a write() begins.  An empty capture changes nothing.
BeginIngest(def, records) ==
    /\ ingest = Nothing
    /\ records # <<>>
    /\ ingest' = [begin |-> now, def |-> def, records |-> records,
                  overtakes |-> {q \in Searches : Pending(q)}]
    /\ UNCHANGED <<now, tables, searches>>

RollBack ==
    /\ ingest # Nothing
    /\ ingest' = Nothing
    /\ UNCHANGED <<now, tables, searches>>

\* The records that the capture holds of a source; the last of them stays.
Captured(s) ==
    {i \in DOMAIN ingest.records :
        s[1] = ingest.def.registry /\ ingest.records[i].native = s[2]}
LastText(s) ==
    ingest.records[CHOOSE i \in Captured(s) : \A j \in Captured(s) : j <= i].body

\* Upserts reset valid_until; what the entry has and its capture has not is
\* retired with the now() of the ingest.
WrittenSource(s) ==
    IF Captured(s) # {}
    THEN [home |-> <<ingest.def.corpus, LastText(s)>>, until |-> Forever]
    ELSE IF s[1] = ingest.def.registry /\ source[s] # NoRow /\ source[s].until = Forever
    THEN [home |-> source[s].home, until |-> ingest.begin]
    ELSE source[s]

IsUpserted(d) ==
    d[1] = ingest.def.corpus /\ \E i \in DOMAIN ingest.records : ingest.records[i].body = d[2]

Supports(s, d) ==
    WrittenSource(s) # NoRow /\ WrittenSource(s).home = d /\ WrittenSource(s).until = Forever

\* Fault: a row is inserted without its valid_from.
ValidFrom_Unset(d) == IF document[d] = NoRow THEN 0 ELSE document[d].from

\* Fault: the upsert of a text that is there sets its valid_from again.
ValidFrom_Refreshed(d) == IF document[d] = NoRow \/ IsUpserted(d) THEN ingest.begin ELSE document[d].from

\* valid_from is set when the row is inserted.
ValidFrom(d) == IF document[d] = NoRow THEN ingest.begin ELSE document[d].from

\* Fault: valid_from is the time of the commit.
WrittenDocument_FromCommit(d) ==
    IF ~IsUpserted(d) /\ (document[d] = NoRow \/ document[d].until # Forever) THEN document[d]
    ELSE [from |-> IF document[d] = NoRow THEN now ELSE document[d].from,
          until |-> IF \E s \in SourceKeys : Supports(s, d) THEN Forever ELSE ingest.begin]

\* What was upserted or was current before is current if a current source
\* cites it, and retired by the sweep if not.
WrittenDocument(d) ==
    IF ~IsUpserted(d) /\ (document[d] = NoRow \/ document[d].until # Forever) THEN document[d]
    ELSE [from |-> ValidFrom(d),
          until |-> IF \E s \in SourceKeys : Supports(s, d) THEN Forever ELSE ingest.begin]

CommitIngest ==
    /\ ingest # Nothing
    /\ source' = [s \in SourceKeys |-> WrittenSource(s)]
    /\ document' = [d \in DocumentKeys |-> WrittenDocument(d)]
    /\ overtaken' = [q \in Searches |-> overtaken[q] \/ (Pending(q) /\ q \in ingest.overtakes)]
    /\ kept' = [q \in Searches |-> IF Pending(q) THEN kept[q] \cap Current' ELSE kept[q]]
    /\ seen' = [q \in Searches |-> IF Pending(q) THEN seen[q] \cup Current' ELSE seen[q]]
    /\ ingest' = Nothing
    /\ UNCHANGED <<now, begun, result>>

\* BEGIN
BeginSearch(q) ==
    /\ begun[q] = 0
    /\ begun' = [begun EXCEPT ![q] = now]
    /\ kept' = [kept EXCEPT ![q] = Current]
    /\ seen' = [seen EXCEPT ![q] = Current]
    /\ UNCHANGED <<now, tables, ingest, result, overtaken>>

\* The SELECT arrives, is answered from its snapshot, and returns.
Select(q) ==
    /\ Pending(q)
    /\ result' = [result EXCEPT ![q] = Visible(begun[q])]
    /\ UNCHANGED <<now, tables, ingest, begun, kept, seen, overtaken>>

Next ==
    \/ Tick
    \/ \E def \in Definitions, records \in Captures : BeginIngest(def, records)
    \/ RollBack
    \/ CommitIngest
    \/ \E q \in Searches : BeginSearch(q) \/ Select(q)

Spec == Init /\ [][Next]_vars

-----------------------------------------------------------------------------
(* Properties                                                              *)

\* Types of the tables, the transactions and the histories.
TypeOK ==
    /\ now \in Times
    /\ source \in [SourceKeys -> SourceRowType \cup {NoRow}]
    /\ document \in [DocumentKeys -> DocumentRowType \cup {NoRow}]
    /\ ingest \in IngestType \cup {Nothing}
    /\ begun \in [Searches -> 0..MaxTime]
    /\ result \in [Searches -> (SUBSET Rows) \cup {Nothing}]
    /\ kept \in [Searches -> SUBSET Rows]
    /\ seen \in [Searches -> SUBSET Rows]
    /\ overtaken \in [Searches -> BOOLEAN]

\* Two clocks and two tables, and yet no row is out of date: whatever a search
\* returns was current, text and source together, at some moment between its
\* BEGIN and its snapshot.  So a text that was retired before is never shown.
NothingStaleIsShown ==
    \A q \in Searches : result[q] # Nothing => result[q] \subseteq seen[q]

\* Nor is a row missed that was there all the time: what was current at every
\* moment from its BEGIN to its snapshot is returned, however many ingests
\* rewrote, retired and revived its source and its text around it.
NothingLastingIsMissed ==
    \A q \in Searches : result[q] # Nothing => kept[q] \subseteq result[q]

\* A search misses nothing and shows nothing else than what is current at its
\* snapshot, unless an ingest began and committed within it: an ingest that
\* had begun before may commit at any time, and nothing depends on the
\* resolution of the clock.
UndisturbedIsExact ==
    [][\A q \in Searches :
          result'[q] # result[q] /\ ~overtaken[q] => result'[q] = Current]_vars

\* The document that a source is linked to is there, and no source outlives it.
HomesOutlive ==
    \A s \in SourceKeys : source[s] # NoRow =>
        /\ document[source[s].home] # NoRow
        /\ source[s].until <= document[source[s].home].until

\* Nothing was written with a time after t.
StampedBy(t) ==
    /\ \A s \in SourceKeys :
          source[s] # NoRow => source[s].until = Forever \/ source[s].until <= t
    /\ \A d \in DocumentKeys : document[d] # NoRow => document[d].from <= t

\* What its clock lets through has been current since a search began, what has
\* been current ever since it lets through, and an ingest that is not to
\* overtake it began before.
SearchInv(q) ==
    /\ begun[q] = 0 => result[q] = Nothing
    /\ result[q] # Nothing => kept[q] \subseteq result[q] /\ result[q] \subseteq seen[q]
    /\ Pending(q) =>
          /\ begun[q] <= now
          /\ Visible(begun[q]) \subseteq seen[q]
          /\ kept[q] \subseteq Current \cap Visible(begun[q])
          /\ ~overtaken[q] => StampedBy(begun[q])
          /\ ingest # Nothing /\ q \notin ingest.overtakes => ingest.begin <= begun[q]

\* The open ingest began in the past, and wrote nothing since.
IngestIsLatest == ingest # Nothing => ingest.begin <= now /\ StampedBy(ingest.begin)

\* The inductive invariant behind these properties: it relates the validity of
\* sources to that of documents, and both to the clocks of the transactions.
TimingInv ==
    /\ TypeOK /\ HomesOutlive /\ StampedBy(now) /\ IngestIsLatest
    /\ \A q \in Searches : SearchInv(q)

=============================================================================
