---------------------------- MODULE MCIngestWriter ----------------------------
(* Small instances of IngestWriter for TLC.                                *)
EXTENDS IngestWriter

CONSTANTS A, B, n1, n2, x, y

rec(n, b) == [native |-> n, body |-> b]

\* A is public in one registry file and internal in another; B is public.
MCDefinitions ==
    {[registry |-> A, corpus |-> Public], [registry |-> A, corpus |-> Internal],
     [registry |-> B, corpus |-> Public]}

\* Two sources of one corpus, which may share a document.
MCTwoPublic ==
    {[registry |-> A, corpus |-> Public], [registry |-> B, corpus |-> Public]}

\* Nothing, one record of either id, two records in both orders, and one
\* native id captured twice with different texts.
MCCaptures ==
    {<<>>, <<rec(n1, x)>>, <<rec(n2, y)>>, <<rec(n1, x), rec(n2, y)>>,
     <<rec(n2, y), rec(n1, x)>>, <<rec(n1, x), rec(n1, y)>>}

\* Nothing, one native id captured twice, and two records with the texts in
\* the other order, so that two writers may close a cycle of locks.
MCMeetingCaptures == {<<>>, <<rec(n1, x), rec(n1, y)>>, <<rec(n1, y), rec(n2, x)>>}

\* Enough for two writers to meet on a document and on a source.
MCFewCaptures == {<<>>, <<rec(n1, x)>>, <<rec(n2, y)>>, <<rec(n1, y), rec(n2, x)>>}

=============================================================================
