------------------------------- MODULE Adapters -------------------------------
(***************************************************************************)
(* What the enabled source adapters make of what a source holds.           *)
(*                                                                         *)
(* A text is a sequence of lines and a line is a constant of some length:  *)
(* reading, encoding and the layout of tables are left out, what is kept,  *)
(* cut, grouped and numbered is not.                                       *)
(***************************************************************************)
EXTENDS Places, SequencesExt

CONSTANTS
    Lines,      \* lines of files, transcripts and messages
    LineSize,   \* the characters of each
    Relevant,   \* lines that contain a relevance term (and no excluded one)
    OmeLimit    \* rows the transcript query returns (10000)

ASSUME AdaptersAssumption ==
    /\ LineSize \in [Lines -> Nat]
    /\ Relevant \subseteq Lines
    /\ OmeLimit \in Nat \ {0}

-----------------------------------------------------------------------------
(* Files                                                                   *)

\* Fault: the size of the chunk that was closed is carried over.
AddLine_KeepsSize(chunks, line, limit) ==
    IF chunks.current # <<>> /\ chunks.size + LineSize[line] + 1 > limit
    THEN [closed |-> Append(chunks.closed, chunks.current), current |-> <<line>>,
          size |-> chunks.size + LineSize[line] + 1]
    ELSE [chunks EXCEPT !.current = Append(@, line), !.size = @ + LineSize[line] + 1]

\* One more line: it opens a new chunk if it would not fit the current one.
AddLine(chunks, line, limit) ==
    IF chunks.current # <<>> /\ chunks.size + LineSize[line] + 1 > limit
    THEN [closed |-> Append(chunks.closed, chunks.current), current |-> <<line>>,
          size |-> LineSize[line] + 1]
    ELSE [chunks EXCEPT !.current = Append(@, line), !.size = @ + LineSize[line] + 1]

\* The chunks after each number of lines of a file.
Cut(file, limit) ==
    LET cut[n \in 0..Len(file)] ==
            IF n = 0 THEN [closed |-> <<>>, current |-> <<>>, size |-> 0]
            ELSE AddLine(cut[n - 1], file[n], limit)
    IN cut

\* StaticFileAdapter._chunks: the texts of a file, at least one.
Chunks(file, limit) ==
    LET last == Cut(file, limit)[Len(file)]
    IN IF last.current = <<>> THEN << <<>> >> ELSE Append(last.closed, last.current)

\* The chunks of a file are its records, under its resolved path and their index.
StaticFileRecords(file, limit, path) ==
    LET chunks == Chunks(file, limit)
    IN [i \in DOMAIN chunks |-> [native |-> <<path, i - 1>>, body |-> chunks[i]]]

-----------------------------------------------------------------------------
(* Transcripts                                                             *)

IsRelevant(text) == \E i \in DOMAIN text : text[i] \in Relevant

\* OmeTranscriptAdapter.capture.  A row is [call, transcript, complete], newest
\* first; the query skips blank transcripts and returns OmeLimit rows at most,
\* and only then are rows without call id or date and irrelevant ones dropped.
OmeRecords(rows) ==
    LET present == {i \in DOMAIN rows : rows[i].transcript # <<>>}
        window  == {i \in present : Rank(present, i) <= OmeLimit}
        kept    == {i \in window : rows[i].complete /\ IsRelevant(rows[i].transcript)}
    IN At([i \in DOMAIN rows |-> [native |-> rows[i].call, body |-> rows[i].transcript]], kept)

-----------------------------------------------------------------------------
(* Messages                                                                *)

\* The elements of a sequence, each at its first place.
Distinct(seq) == At(seq, {i \in DOMAIN seq : \A j \in 1..i - 1 : seq[j] # seq[i]})

\* Fault: a message that was seen in another conversation is dropped.
Conversation_GlobalDistinct(rows, native) ==
    At([i \in DOMAIN rows |-> rows[i].message],
       {i \in DOMAIN rows : /\ rows[i].conversation = native
                            /\ \A j \in 1..i - 1 : rows[j].message # rows[i].message})

\* The messages of a conversation, each once.
Conversation(rows, native) ==
    LET own == At(rows, {i \in DOMAIN rows : rows[i].conversation = native})
    IN Distinct([i \in DOMAIN own |-> own[i].message])

\* FrontCsvAdapter.capture: one record per conversation of relevant messages,
\* in the order in which the conversations begin.
FrontRecords(rows) ==
    LET kept    == At(rows, {i \in DOMAIN rows : rows[i].message \in Relevant})
        natives == Distinct([i \in DOMAIN kept |-> kept[i].conversation])
    IN [i \in DOMAIN natives |->
           [native |-> natives[i], body |-> Conversation(kept, natives[i])]]

=============================================================================
