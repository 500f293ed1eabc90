---------------------------- MODULE MCAnswerService ----------------------------
(* Small instances of AnswerService for TLC.                               *)
EXTENDS AnswerService

CONSTANTS A, B, n1, n2, x, y, z, app1, app2

rec(n, b) == [native |-> n, body |-> b]

MCDefinitions ==
    {[registry |-> A, corpus |-> Public], [registry |-> A, corpus |-> Internal],
     [registry |-> B, corpus |-> Internal]}

\* x and y are plain, z is qualified; n2 is published beside n1 or not at all.
MCCaptures == {<<>>, <<rec(n1, x)>>, <<rec(n1, z), rec(n2, y)>>, <<rec(n1, x), rec(n2, z)>>}

\* One question per route, one that belongs to several, and questions about
\* one, all or none of the texts.
MCQuestions ==
    {[terms |-> {}, about |-> {x, y, z}],
     [terms |-> {}, about |-> {y}],
     [terms |-> {"application_status", "market_catalog"}, about |-> {x}],
     [terms |-> {"earnings", "market_opportunity"}, about |-> {x}],
     [terms |-> {"market_opportunity", "market_catalog"}, about |-> {y, z}],
     [terms |-> {"market_catalog"}, about |-> {}]}

=============================================================================
