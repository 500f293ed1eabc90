----------------------------- MODULE IngestCommand -----------------------------
(***************************************************************************)
(* The ingest command: it loads a registry file, captures the sources of   *)
(* the file one after the other and hands each capture to the writer,      *)
(* while the sources themselves change.  Operators run one command at a    *)
(* time; between two of them they edit the registry file.                  *)
(*                                                                         *)
(* The writer is the one of KnowledgeBase: a capture is published whole or *)
(* not at all.                                                             *)
(***************************************************************************)
EXTENDS KnowledgeStore, Adapters

CONSTANTS
    SourceKind,   \* the kind of source behind each registry id
    Holdings,     \* what that source may hold: lines, calls or messages
    Files,        \* registry files: sequences of entries
    All,          \* the command is not restricted to one source
    Nothing,      \* the command has captured nothing from a source
    Paths,        \* of files, resolved: an entry whose path or working
                  \* directory changes is an entry with another one
    ChunkLimits   \* chunk_chars that load_registry accepts

EnabledKinds == {"static_file", "front_csv", "ome_transcripts"}
Kinds        == EnabledKinds \cup {"google_drive", "slack", "lohi_view"}

\* An entry of a registry file; located: it has the file ids, channel ids, view
\* or path its kind needs.
Entries == [registry : Registries, kind : Kinds, corpus : Corpora,
            located : BOOLEAN, path : Paths, chunkChars : Nat]

ASSUME CommandAssumption ==
    /\ SourceKind \in [Registries -> EnabledKinds]
    /\ DOMAIN Holdings = Registries
    /\ Files \subseteq Seq(Entries)
    /\ \A file \in Files : \A i \in DOMAIN file :
          file[i].kind \in {SourceKind[file[i].registry]} \cup (Kinds \ EnabledKinds)
    /\ All \notin Registries
    /\ ChunkLimits \subseteq Nat
    /\ \A r \in Registries : Nothing \notin Holdings[r]

VARIABLES
    content,    \* the knowledge base, see KnowledgeBase
    upstream,   \* what each source holds
    phase,      \* what the command does next
    selection,  \* the entries it ingests
    pos,        \* the entry it is at
    seen,       \* what it has captured each source from
    outcome     \* how the last command ended

vars == <<content, upstream, phase, selection, pos, seen, outcome>>

KB == INSTANCE KnowledgeBase WITH
         Definitions <- [registry : Registries, corpus : Corpora],
         Captures <- Seq(Records)

\* The capture of an entry from what its source holds.
Captured(entry, holding) ==
    CASE entry.kind = "static_file"     -> StaticFileRecords(holding, entry.chunkChars, entry.path)
      [] entry.kind = "front_csv"       -> FrontRecords(holding)
      [] entry.kind = "ome_transcripts" -> OmeRecords(holding)

\* The entries that an accepted registry file may have for an enabled kind.
EnabledEntries ==
    {entry \in [registry : Registries, kind : EnabledKinds, corpus : Corpora,
                located : {TRUE}, path : Paths, chunkChars : ChunkLimits] :
        /\ entry.kind = SourceKind[entry.registry]
        /\ entry.kind = "ome_transcripts" => entry.corpus = Internal}

\* Rows of the transcript query and of a Front export.
CallRows == [call : Natives, transcript : Seq(Lines), complete : BOOLEAN]
MailRows == [conversation : Natives, message : Lines]

ASSUME HoldingsAssumption ==
    \A r \in Registries :
        /\ SourceKind[r] = "static_file"     => Holdings[r] \subseteq Seq(Lines)
        /\ SourceKind[r] = "front_csv"       => Holdings[r] \subseteq Seq(MailRows)
        /\ SourceKind[r] = "ome_transcripts" => Holdings[r] \subseteq Seq(CallRows)

\* Natives and Bodies are large enough for what the adapters make of the holdings.
ASSUME RecordsAssumption ==
    \A entry \in EnabledEntries : \A holding \in Holdings[entry.registry] :
        Captured(entry, holding) \in Seq(Records)

-----------------------------------------------------------------------------
Init ==
    /\ KB!Init
    /\ upstream \in {u \in [Registries -> UNION {Holdings[r] : r \in Registries}] :
                        \A r \in Registries : u[r] \in Holdings[r]}
    /\ phase = "idle"
    /\ selection = <<>>
    /\ pos = 1
    /\ seen = [r \in Registries |-> Nothing]
    /\ outcome = "none"

\* A source changes at any time.
Edit(r, holding) ==
    /\ upstream' = [upstream EXCEPT ![r] = holding]
    /\ UNCHANGED <<content, phase, selection, pos, seen, outcome>>

\* Fault: an id may occur twice.
Loads_Duplicates(file) ==
    \A i \in DOMAIN file :
        /\ file[i].located
        /\ file[i].kind = "ome_transcripts" => file[i].corpus = Internal
        /\ file[i].chunkChars \in ChunkLimits

\* Fault: transcripts may be public.
Loads_PublicTranscripts(file) ==
    /\ \A i, j \in DOMAIN file : file[i].registry = file[j].registry => i = j
    /\ \A i \in DOMAIN file : file[i].located /\ file[i].chunkChars \in ChunkLimits

\* load_registry accepts the file.
Loads(file) ==
    /\ \A i, j \in DOMAIN file : file[i].registry = file[j].registry => i = j
    /\ \A i \in DOMAIN file :
        /\ file[i].located
        /\ file[i].kind = "ome_transcripts" => file[i].corpus = Internal
        /\ file[i].chunkChars \in ChunkLimits

\* The ids of a file that loads are unique, so one source of it is one entry.
Selected(file, choice) ==
    IF choice = All THEN file
    ELSE LET named == {i \in DOMAIN file : file[i].registry = choice}
         IN IF named = {} THEN <<>> ELSE <<file[CHOOSE i \in named : TRUE]>>

\* The command raises, or returns the number of records.
End(result) ==
    /\ phase' = "idle"
    /\ selection' = IF result = "failed" THEN <<>> ELSE selection
    /\ pos' = 1
    /\ seen' = IF result = "failed" THEN [r \in Registries |-> Nothing] ELSE seen
    /\ outcome' = result

\* The command is called with a registry file and perhaps one source of it.
Start(file, choice) ==
    /\ phase = "idle"
    /\ UNCHANGED <<content, upstream>>
    /\ IF Loads(file) /\ (choice = All \/ Selected(file, choice) # <<>>)
       THEN /\ phase' = "capture"
            /\ selection' = Selected(file, choice)
            /\ pos' = 1
            /\ seen' = [r \in Registries |-> Nothing]
            /\ outcome' = "none"
       ELSE End("failed")

Entry == selection[pos]

\* Fault: any kind of source is captured.
Capture_AnyKind ==
    /\ phase = "capture"
    /\ pos \in DOMAIN selection
    /\ seen' = [seen EXCEPT ![Entry.registry] = upstream[Entry.registry]]
    /\ phase' = "write"
    /\ UNCHANGED <<content, upstream, selection, pos, outcome>>

\* The adapter of the entry reads its source.
Capture ==
    /\ phase = "capture"
    /\ pos \in DOMAIN selection
    /\ Entry.kind \in EnabledKinds
    /\ seen' = [seen EXCEPT ![Entry.registry] = upstream[Entry.registry]]
    /\ phase' = "write"
    /\ UNCHANGED <<content, upstream, selection, pos, outcome>>

\* No adapter is enabled for the entry, or its adapter raises.
CaptureFails ==
    /\ phase = "capture"
    /\ pos \in DOMAIN selection
    /\ End("failed")
    /\ UNCHANGED <<content, upstream>>

\* Fault: an empty capture retires everything.
Write_RetiresOnEmpty ==
    /\ phase = "write"
    /\ LET records == Captured(Entry, seen[Entry.registry]) IN
          IF records = <<>>
          THEN content' = [s \in SourceKeys |-> IF s[1] = Entry.registry THEN NoRow ELSE content[s]]
          ELSE KB!Publish([registry |-> Entry.registry, corpus |-> Entry.corpus], records)
    /\ pos' = pos + 1
    /\ phase' = "capture"
    /\ UNCHANGED <<upstream, selection, seen, outcome>>

\* The writer publishes the capture, if there is any record in it.
Write ==
    /\ phase = "write"
    /\ LET records == Captured(Entry, seen[Entry.registry]) IN
          IF records = <<>> THEN UNCHANGED content
          ELSE KB!Publish([registry |-> Entry.registry, corpus |-> Entry.corpus], records)
    /\ pos' = pos + 1
    /\ phase' = "capture"
    /\ UNCHANGED <<upstream, selection, seen, outcome>>

\* The writer raises, with its transaction rolled back, or the process dies.
WriteFails ==
    /\ phase = "write"
    /\ End("failed")
    /\ UNCHANGED <<content, upstream>>

\* Every selected source has been ingested.
Finish ==
    /\ phase = "capture"
    /\ pos \notin DOMAIN selection
    /\ End("done")
    /\ UNCHANGED <<content, upstream>>

Next ==
    \/ \E r \in Registries : \E holding \in Holdings[r] : Edit(r, holding)
    \/ \E file \in Files, choice \in Registries \cup {All} : Start(file, choice)
    \/ Capture \/ CaptureFails
    \/ Write \/ WriteFails
    \/ Finish

Spec == Init /\ [][Next]_vars

-----------------------------------------------------------------------------
(* Properties                                                              *)

\* Types of the knowledge base and of the command.
TypeOK ==
    /\ KB!TypeOK
    /\ \A r \in Registries : upstream[r] \in Holdings[r] /\ seen[r] \in Holdings[r] \cup {Nothing}
    /\ phase \in {"idle", "capture", "write"}
    /\ selection \in Seq(Entries)
    /\ pos \in 1..Len(selection) + 1
    /\ phase = "write" => Entry.kind \in EnabledKinds /\ seen[Entry.registry] # Nothing
    /\ outcome \in {"none", "done", "failed"}

\* The lines of every transcript that a recruiter-call source holds.
TranscriptLines ==
    UNION {UNION {UNION {ToSet(h[i].transcript) : i \in DOMAIN h} : h \in Holdings[r]} :
               r \in {q \in Registries : SourceKind[q] = "ome_transcripts"}}

\* A line tells where a text comes from: files and messages have none of a call.
ASSUME SeparationAssumption ==
    \A r \in Registries : \A h \in Holdings[r] :
        /\ SourceKind[r] = "static_file" => ToSet(h) \cap TranscriptLines = {}
        /\ SourceKind[r] = "front_csv" =>
              {h[i].message : i \in DOMAIN h} \cap TranscriptLines = {}

\* The transcripts of recruiter calls are never carrier-safe, whatever an
\* operator writes in the registry file and whichever file was ingested
\* before.
TranscriptsStayInternal ==
    \A s \in SourceKeys :
        content[s] # NoRow /\ content[s][1] = Public =>
            ToSet(content[s][2]) \cap TranscriptLines = {}

\* When a command reports success, each source it selected is published as it
\* was captured, all of it and nothing older, unless nothing was captured.  An
\* adapter that raises, or an id that occurs twice, must not be passed over.
DoneMeansPublished ==
    outcome = "done" =>
        \A i \in DOMAIN selection :
            LET entry   == selection[i]
                records == Captured(entry, seen[entry.registry]) IN
            records # <<>> =>
                \A n \in Natives :
                    LET last == KB!LastUnder(records, n) IN
                    content[<<entry.registry, n>>] =
                        IF last = {} THEN NoRow
                        ELSE <<entry.corpus, records[CHOOSE j \in last : TRUE].body>>

\* What a chunk adds up to, a newline for each line.
Size(chunk) ==
    LET size[n \in 0..Len(chunk)] ==
            IF n = 0 THEN 0 ELSE size[n - 1] + LineSize[chunk[n]] + 1
    IN size[Len(chunk)]

\* A file is cut without loss, no chunk that could have been split exceeds the
\* limit, and no line starts a chunk that would have fitted the one before.
ChunksAreFaithful ==
    \A r \in Registries, limit \in ChunkLimits :
        SourceKind[r] = "static_file" =>
            LET file   == upstream[r]
                chunks == Chunks(file, limit) IN
            /\ FlattenSeq(chunks) = file
            /\ \A i \in DOMAIN chunks : Size(chunks[i]) <= limit \/ Len(chunks[i]) = 1
            /\ \A i \in 2..Len(chunks) :
                  Size(chunks[i - 1]) + LineSize[chunks[i][1]] + 1 > limit

\* A conversation is one record with every relevant message of it, once, and
\* no message of another.
ConversationsAreWhole ==
    \A r \in Registries :
        SourceKind[r] = "front_csv" =>
            LET rows    == upstream[r]
                records == FrontRecords(rows)
                kept    == {i \in DOMAIN rows : rows[i].message \in Relevant} IN
            /\ {records[i].native : i \in DOMAIN records} = {rows[i].conversation : i \in kept}
            /\ \A i, j \in DOMAIN records : records[i].native = records[j].native => i = j
            /\ \A i \in DOMAIN records :
                  /\ ToSet(records[i].body) =
                        {rows[j].message : j \in {k \in kept : rows[k].conversation = records[i].native}}
                  /\ Len(records[i].body) = Cardinality(ToSet(records[i].body))

\* Where a row of the transcript query stands among those with a transcript.
Place(rows, i) == Cardinality({j \in 1..i : rows[j].transcript # <<>>})

\* What the capture of an entry saw of its source is cause to retire a native
\* id: the file is cut into fewer chunks or is found under another path, no
\* relevant message is left of the conversation, or no usable transcript of the
\* call is relevant and among the OmeLimit newest.
HasCause(entry, holding, native) ==
    CASE entry.kind = "static_file" ->
            native[1] # entry.path \/ native[2] >= Len(Chunks(holding, entry.chunkChars))
      [] entry.kind = "front_csv" ->
            \A i \in DOMAIN holding :
               holding[i].conversation = native => holding[i].message \notin Relevant
      [] entry.kind = "ome_transcripts" ->
            \A i \in DOMAIN holding :
               holding[i].call = native =>
                  \/ ~holding[i].complete \/ ~IsRelevant(holding[i].transcript)
                  \/ Place(holding, i) > OmeLimit

\* A source is retired only while its own entry is written, for a cause in
\* what was captured for it, and never by an empty capture: failures, other
\* entries, edits after the capture and an outage upstream take nothing away.
\* Three causes are weaker than the deletion the writer takes them for: a call
\* that OmeLimit newer ones have pushed out, a file that was emptied, which is
\* captured as one empty chunk, and a file whose path has changed, in the
\* registry or with the working directory: all its chunks are retired, and
\* published again under other native ids.
RetiredForCause ==
    [][\A s \in SourceKeys :
          content[s] # NoRow /\ content'[s] = NoRow =>
             /\ phase = "write" /\ Entry.registry = s[1]
             /\ Captured(Entry, seen[s[1]]) # <<>>
             /\ HasCause(Entry, seen[s[1]], s[2])]_vars

\* What the writer says of its sweep ("Retire records absent from a non-empty
\* complete-source snapshot"): a transcript that the source still holds is not
\* retired.
RetiredMeansAbsent ==
    [][\A s \in SourceKeys :
          content[s] # NoRow /\ content'[s] = NoRow /\ SourceKind[s[1]] = "ome_transcripts" =>
             \A i \in DOMAIN seen[s[1]] :
                 seen[s[1]][i].complete /\ seen[s[1]][i].call = s[2] =>
                     seen[s[1]][i].transcript # content[s][2]]_vars

=============================================================================
