---------------------------- MODULE MCIngestCommand ----------------------------
(* Small instances of IngestCommand for TLC.                               *)
EXTENDS IngestCommand

CONSTANTS F, O, R, a, b, m, n, c1, c2, c3, k1, k2, p1, p2

\* Texts of up to three lines, and the natives of chunks, calls and conversations.
MCBodies == UNION {[1..len -> Lines] : len \in 0..3}
MCNatives == ({p1, p2} \X (0..2)) \cup {c1, c2, c3, k1, k2}

\* a and b are lines of files and messages, m and n are lines of calls.
MCLineSize == [l \in Lines |-> IF l = a THEN 2 ELSE IF l = b THEN 5 ELSE 3]

call(c, text, complete) == [call |-> c, transcript |-> text, complete |-> complete]
mail(k, l) == [conversation |-> k, message |-> l]

\* Files of nothing, of one chunk and of two, with a line over the limit of five.
FileHoldings == {<<>>, <<a>>, <<b, a, a>>}

\* Calls with relevant and irrelevant, blank and incomplete rows.
Transcripts ==
    {<<>>, <<call(c1, <<m>>, TRUE)>>,
     <<call(c2, <<>>, TRUE), call(c1, <<m>>, TRUE), call(c3, <<n>>, TRUE)>>,
     <<call(c2, <<n, m>>, TRUE), call(c1, <<m>>, TRUE)>>,
     <<call(c3, <<m>>, TRUE), call(c2, <<m>>, FALSE), call(c1, <<m>>, TRUE)>>}

\* Conversations that are scattered and repeat each other.
Mails ==
    {<<>>, <<mail(k1, a), mail(k2, a), mail(k1, a)>>, <<mail(k1, b), mail(k2, b), mail(k1, a)>>}

MCHoldings ==
    [r \in {F, O, R} |-> IF r = F THEN FileHoldings ELSE IF r = O THEN Transcripts ELSE Mails]
\* The source of transcripts alone.
MCCalls == [r \in {O} |-> Transcripts]

Kind(r) == IF r = F THEN "static_file" ELSE IF r = O THEN "ome_transcripts" ELSE "front_csv"
MCSourceKind == [r \in Registries |-> Kind(r)]

entry(r, k, c, limit) ==
    [registry |-> r, kind |-> k, corpus |-> c, located |-> TRUE, path |-> p1,
     chunkChars |-> limit]

\* Files that load, one of them with another path, and files with a public
\* transcript source, an id that occurs twice, a kind that is not enabled, a
\* missing path and a bad limit.
MCFiles ==
    {<<entry(F, "static_file", Public, 6), entry(O, "ome_transcripts", Internal, 6)>>,
     <<entry(R, "front_csv", Internal, 6), entry(F, "static_file", Internal, 9)>>,
     <<[entry(F, "static_file", Public, 6) EXCEPT !.path = p2]>>,
     <<entry(O, "ome_transcripts", Public, 6)>>,
     <<entry(F, "static_file", Public, 6), entry(F, "static_file", Internal, 6)>>,
     <<entry(O, "slack", Public, 6), entry(F, "static_file", Public, 6)>>,
     <<[entry(F, "static_file", Public, 6) EXCEPT !.located = FALSE]>>,
     <<entry(R, "front_csv", Public, 4)>>}
MCCallFile == {<<entry(O, "ome_transcripts", Internal, 6)>>}

=============================================================================
