---------------------------- MODULE KnowledgeStore ----------------------------
(***************************************************************************)
(* The tables of the knowledge base and the one query that reads them.     *)
(*                                                                         *)
(* A row of `sources' is identified by (registry_id, native_id), a row of  *)
(* `documents' by (corpus, content_hash); both are unique keys of the      *)
(* schema.  SHA-256 is taken to be injective on the bodies in play, so a   *)
(* body stands for its own content_hash.  Surrogate uuids are left out: no *)
(* row is ever deleted, so the unique key names the same row for ever.     *)
(* `valid_until' is only ever set to the current time or back to NULL,     *)
(* hence a row is either current or retired.                               *)
(***************************************************************************)
EXTENDS Naturals, Sequences, FiniteSets

CONSTANTS
    Registries,  \* source ids of the registry file
    Natives,     \* native_id values an adapter may emit
    Bodies,      \* document texts
    NoRow        \* there is no such row

Public   == "carrier_public"
Internal == "carrier_internal"
Corpora  == {Public, Internal}

SourceKeys   == Registries \X Natives
DocumentKeys == Corpora \X Bodies

SourceRows == [corpus : Corpora, body : Bodies, active : BOOLEAN]

ASSUME NoRowAssumption == NoRow \notin SourceRows \cup DocumentKeys

\* A captured record: what an adapter hands to the writer.
Records == [native : Natives, body : Bodies]

\* The states of a row of `documents' (retired: valid_until IS NOT NULL).
DocumentStates == {"absent", "valid", "retired"}

\* The tables, in this order: a row per source key, a state per document
\* key, and the rows of document_sources as the documents joined to a source.
SourceTable   == [SourceKeys -> SourceRows \cup {NoRow}]
DocumentTable == [DocumentKeys -> DocumentStates]
LinkTable     == [SourceKeys -> SUBSET DocumentKeys]

IsCurrent(row) == row # NoRow /\ row.active

\* The document that belongs to a source row: its own text in its own corpus.
Home(row) == IF row = NoRow THEN {} ELSE {<<row.corpus, row.body>>}

\* Some current source still cites document d.
IsSupported(sources, links, d) ==
    \E s \in SourceKeys : d \in links[s] /\ IsCurrent(sources[s])

\* The rows <<document, source>> that PostgresKnowledgeRepository.search may
\* return for the corpora of a principal.  Note that the filter is on the
\* corpus of the DOCUMENT, while title, url and native_id come from the source.
Matches(sources, documents, links, corpora) ==
    {row \in DocumentKeys \X SourceKeys :
        /\ row[1] \in links[row[2]]
        /\ row[1][1] \in corpora
        /\ documents[row[1]] = "valid"
        /\ IsCurrent(sources[row[2]])}

=============================================================================
