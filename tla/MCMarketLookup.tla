---------------------------- MODULE MCMarketLookup ----------------------------
(* Small instances of MarketLookup for TLC.                                *)
EXTENDS MarketLookup, TLC

CONSTANTS north, south, van, dock, yard, p1

tidy(n)   == [name |-> n, tidy |-> TRUE]
ragged(n) == [name |-> n, tidy |-> FALSE]

MCTitles == {tidy(north), ragged(north), tidy(south)}

MCCargoes == {{van}, {yard}, {van, dock}}

\* The yard has no city, and the time zone of one pool is too long.
MCFitting == {van, dock, p1}

\* Loads are interchangeable.
MarketSymmetry == Permutations(Loads)

=============================================================================
