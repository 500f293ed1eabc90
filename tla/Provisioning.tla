----------------------------- MODULE Provisioning -----------------------------
(***************************************************************************)
(* The migrations of db/migrations and what they leave for the service.    *)
(*                                                                         *)
(* Some of their statements, and one cast of the search, name relations    *)
(* and types without a schema.  PostgreSQL resolves such a name with the   *)
(* search_path of the session, the schema named like its role and then     *)
(* public, and migration 000002 creates a schema that is named like the    *)
(* role of the local database.                                             *)
(***************************************************************************)
EXTENDS Naturals, Sequences

CONSTANTS
    Owner,       \* role that applies the migrations
    Runtime,     \* role of the service, with the grants of the rollout document
    KbSchema,    \* KB_SCHEMA of the settings
    Vector,      \* the extension pgvector is available
    Plans        \* the sequences of migrations that may be applied

Schemas == {"public", "carrier_kb"}
Tables  == {"sources", "documents", "document_sources", "ingestion_runs"}

\* Where "path" is the first schema of the search_path.  Guarded statements
\* are content with an object that exists.
Create(name, where, guarded) == [name |-> name, where |-> where, guarded |-> guarded]

\* Fault: a type of migration 000002 is created without its schema.
Migration_UnqualifiedType ==
    << <<Create("vector", "public", TRUE), Create("kb_corpus", "path", FALSE),
         Create("sources", "path", FALSE), Create("documents", "path", FALSE),
         Create("document_sources", "path", FALSE)>>,
       <<Create("kb_corpus", "public", TRUE), Create("schema", "carrier_kb", TRUE),
         Create("sources", "carrier_kb", TRUE), Create("documents", "carrier_kb", TRUE),
         Create("document_sources", "carrier_kb", TRUE)>>,
       <<Create("ingestion_runs", "path", TRUE)>>,
       <<Create("valid_until", "path", TRUE)>> >>

\* 000001 to 000004; valid_until is the column of `sources'.  Indexes are left
\* out.
Migration ==
    << <<Create("vector", "public", TRUE), Create("kb_corpus", "path", FALSE),
         Create("sources", "path", FALSE), Create("documents", "path", FALSE),
         Create("document_sources", "path", FALSE)>>,
       <<Create("schema", "carrier_kb", TRUE), Create("kb_corpus", "carrier_kb", TRUE),
         Create("sources", "carrier_kb", TRUE), Create("documents", "carrier_kb", TRUE),
         Create("document_sources", "carrier_kb", TRUE)>>,
       <<Create("ingestion_runs", "path", TRUE)>>,
       <<Create("valid_until", "path", TRUE)>> >>

ASSUME ProvisioningAssumption ==
    /\ KbSchema \in Schemas
    /\ Vector \in BOOLEAN
    /\ Plans \subseteq Seq(1..4)

VARIABLES
    objects,  \* <<schema, name>> of what exists
    plan,     \* the migrations to apply
    at,       \* the migration and the statement that come next
    stopped   \* a statement raised, or the server went down

provisioningVars == <<objects, plan, at, stopped>>

-----------------------------------------------------------------------------
\* "$user", public: schemas that do not exist are skipped.
SearchPath(role) ==
    IF role = "carrier_kb" /\ <<"carrier_kb", "schema">> \in objects
    THEN <<"carrier_kb", "public">> ELSE <<"public">>

\* The schema in which a name without schema is found, if any.
Resolved(role, name) ==
    LET path  == SearchPath(role)
        found == {i \in DOMAIN path : <<path[i], name>> \in objects}
    IN IF found = {} THEN "none" ELSE path[CHOOSE i \in found : \A j \in found : i <= j]

\* A new object goes to the first schema of the path, a new column to the
\* table that is found.
Target(statement) ==
    IF statement.where # "path" THEN statement.where
    ELSE IF statement.name = "valid_until" THEN Resolved(Owner, "sources")
    ELSE Head(SearchPath(Owner))

\* CREATE EXTENSION without the extension, CREATE TYPE or TABLE of what is
\* there, ALTER TABLE of what is not.
Raises(statement) ==
    \/ statement.name = "vector" /\ ~Vector
    \/ Target(statement) = "none"
    \/ ~statement.guarded /\ <<Target(statement), statement.name>> \in objects

\* Each file is run in a session of its own and stops at its first error; so
\* does the initialization of the container, which is not resumed.
ProvisioningInit ==
    /\ objects = {}
    /\ plan \in Plans
    /\ at = <<1, 1>>
    /\ stopped = FALSE

Finished == at[1] > Len(plan)

Apply ==
    /\ ~stopped /\ ~Finished
    /\ LET file == Migration[plan[at[1]]]
           statement == file[at[2]]
       IN IF Raises(statement) THEN stopped' = TRUE /\ UNCHANGED <<objects, at>>
          ELSE /\ objects' = objects \cup {<<Target(statement), statement.name>>}
               /\ at' = IF at[2] < Len(file) THEN <<at[1], at[2] + 1>> ELSE <<at[1] + 1, 1>>
               /\ UNCHANGED stopped
    /\ UNCHANGED plan

\* The server goes down before the end.
Interrupt ==
    /\ ~stopped /\ ~Finished
    /\ stopped' = TRUE
    /\ UNCHANGED <<objects, plan, at>>

ProvisioningNext == Apply \/ Interrupt

ProvisioningSpec == ProvisioningInit /\ [][ProvisioningNext]_provisioningVars

-----------------------------------------------------------------------------
(* What the service needs                                                  *)

Has(names) == \A name \in names : <<KbSchema, name>> \in objects

\* The statements of PostgresIngestWriter find their tables and columns.
CanIngest == Has(Tables \cup {"valid_until"})

\* So does the query of search(), whose array is cast to the kb_corpus of the
\* search_path and compared with the column of documents: each migration gives
\* this column the type of its own schema.
CanSearch ==
    /\ Has({"sources", "documents", "document_sources", "valid_until"})
    /\ Resolved(Runtime, "kb_corpus") = KbSchema

\* Whatever order the migrations come in and wherever they stop, a database
\* that the writer can write to is one that the service can search: unqualified
\* names never divide the two between schemas.
WrittenIsSearchable == CanIngest => CanSearch

\* The session that applies migration m is past its i-th statement.
Past(m, i) == ~Finished /\ plan[at[1]] = m /\ at[2] > i

\* The inductive invariant behind it: a schema with the table of sources has
\* the type as well, because each migration creates the type in the schema that
\* its tables go to next, and the search_path does not change between the two.
ProvisioningInv ==
    /\ plan \in Seq(1..4) /\ at[1] \in Nat \ {0}
    /\ ~Finished => at[2] \in DOMAIN Migration[plan[at[1]]]
    /\ \A o \in objects : o[1] = "carrier_kb" => <<"carrier_kb", "schema">> \in objects
    /\ \A s \in Schemas : <<s, "sources">> \in objects => <<s, "kb_corpus">> \in objects
    /\ Past(1, 2) => <<Head(SearchPath(Owner)), "kb_corpus">> \in objects
    /\ Past(2, 1) => <<"carrier_kb", "schema">> \in objects
    /\ Past(2, 2) => <<"carrier_kb", "kb_corpus">> \in objects

=============================================================================
