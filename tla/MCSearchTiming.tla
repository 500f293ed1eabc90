---------------------------- MODULE MCSearchTiming ----------------------------
(* Small instances of SearchTiming for TLC.                                *)
EXTENDS SearchTiming

CONSTANTS A, B, n1, n2, x, y

rec(n, b) == [native |-> n, body |-> b]

\* Two entries that may publish the same text; A may change its corpus.
MCDefinitions ==
    {[registry |-> A, corpus |-> Public], [registry |-> A, corpus |-> Internal],
     [registry |-> B, corpus |-> Public]}

\* Each text under either id, and one id captured twice.
MCCaptures ==
    {<<rec(n1, x)>>, <<rec(n1, y)>>, <<rec(n2, x)>>, <<rec(n1, x), rec(n1, y)>>}

\* Two sources with one text as well.
MCPairs == MCCaptures \cup {<<rec(n1, x), rec(n2, x)>>}
MCOneEntry == {[registry |-> A, corpus |-> Public]}

=============================================================================
