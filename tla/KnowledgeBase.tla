---------------------------- MODULE KnowledgeBase ----------------------------
(***************************************************************************)
(* What the writer promises: a knowledge base in which a source is its     *)
(* registry entry's text under a native id, and where a non-empty capture  *)
(* replaces, at one moment, everything its registry entry published before.*)
(* Statements, rows, validity and links do not exist at this level.        *)
(***************************************************************************)
EXTENDS KnowledgeStore

CONSTANTS
    Definitions,  \* the (registry, corpus) pairs of the registry files in use
    Captures      \* what an adapter may return: sequences of records

VARIABLE content  \* the searchable document of each source, if it has one

\* The records of the snapshot that no later record replaces.
LastUnder(records, native) ==
    {i \in DOMAIN records :
        /\ records[i].native = native
        /\ \A j \in DOMAIN records : records[j].native = native => j <= i}

\* Every source has at most one document, in one corpus.
TypeOK == content \in [SourceKeys -> DocumentKeys \cup {NoRow}]

Init == content = [s \in SourceKeys |-> NoRow]

\* A successful ingest.  An empty capture publishes nothing.
Publish(def, records) ==
    /\ records # <<>>
    /\ content' = [s \in SourceKeys |->
          IF s[1] # def.registry THEN content[s]
          ELSE IF LastUnder(records, s[2]) = {} THEN NoRow
          ELSE LET i == CHOOSE i \in LastUnder(records, s[2]) : TRUE
               IN <<def.corpus, records[i].body>>]

Next == \E def \in Definitions, records \in Captures : Publish(def, records)

Spec == Init /\ [][Next]_content

\* The rows that a search restricted to some corpora may return.
Results(corpora) ==
    {row \in DocumentKeys \X SourceKeys :
        content[row[2]] = row[1] /\ row[1][1] \in corpora}

=============================================================================
