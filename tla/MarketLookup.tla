----------------------------- MODULE MarketLookup -----------------------------
(***************************************************************************)
(* The market tools: LohiMarketCatalogClient and                           *)
(* LohiMarketOpportunityClient read one row of an aggregate view by the    *)
(* name of a market, and validate it before the answer service shows it.   *)
(*                                                                         *)
(* The pools and loads of LoHi are external and change at any time; the    *)
(* views are the two prototypes in docs/.  A query reads one snapshot.     *)
(***************************************************************************)
EXTENDS Naturals, FiniteSets

CONSTANTS
    Lookups,     \* calls of get_market
    Loads, Pools,
    Titles,      \* [name, tidy]: tidy titles have single spaces only
    Trailers, Facilities,
    Cargoes,     \* trailer types and facilities of a load
    Fitting,     \* aggregates and pools whose texts the models of the client accept
    Sample,      \* the smallest aggregate that may be shown (10)
    Floor,       \* the smallest one that the opportunity view lists (3)
    Active,      \* open loads of an active market (10)
    Blank,       \* a market name of white space
    Nothing      \* not asked or answered yet

Tags   == Trailers \cup Facilities
Names  == {t.name : t \in Titles}
Routes == {"market_catalog", "market_opportunity"}

\* A lookup asks one tool for one name, and ends with a failure or with the data
\* of a pool; rows is how many rows were returned.
Questions == [route : Routes, name : Names \cup {Blank}]
Replies ==
    [outcome : {"down", "invalid", "unknown"}, rows : 0..2]
    \cup [outcome : Names, rows : {1}, pool : Pools, listed : SUBSET Tags,
          availability : {"none", "limited", "active"}]

ASSUME MarketAssumption ==
    /\ Titles \subseteq [name : Names, tidy : BOOLEAN]
    /\ IsFiniteSet(Loads)
    /\ Trailers \cap Facilities = {}
    /\ Cargoes \subseteq SUBSET Tags
    /\ Fitting \subseteq Tags \cup Pools
    /\ {Sample, Floor, Active} \subseteq Nat \ {0}
    /\ Blank \notin Names
    /\ Nothing \notin Names \cup {Blank, "down", "invalid", "unknown"}
    /\ Names \cap {"down", "invalid", "unknown"} = {}
    /\ Nothing \notin Replies \cup Questions

VARIABLES
    title, archived,  \* external_title and archived_at of each pool
    load,             \* each load: its state, pool, trailer types and facilities
    asked,            \* the tool and the market name of each lookup
    reply             \* what it ended with

lohi == <<title, archived, load>>
vars == <<lohi, asked, reply>>

\* manual: open but not auto-dispatchable.  A load that is not posted, has no
\* pool, was cancelled or left the windows of time is Nothing.
LoadType == [state : {"manual", "open", "completed"}, pool : Pools, tags : Cargoes]

-----------------------------------------------------------------------------
(* The views                                                               *)

LoadsOf(p, states) == {x \in Loads : /\ load[x] # Nothing
                                     /\ load[x].pool = p
                                     /\ load[x].state \in states}

OpenLoads(p) == Cardinality(LoadsOf(p, {"open"}))

\* What an aggregate of a route counts: facilities the completed loads of 90
\* days, equipment all recent loads or, for the opportunity, the open ones.
Counted(route, tag) ==
    IF tag \in Facilities THEN {"completed"}
    ELSE IF route = "market_opportunity" THEN {"open"} ELSE {"manual", "open", "completed"}

Count(route, tag, p) ==
    Cardinality({x \in LoadsOf(p, Counted(route, tag)) : tag \in load[x].tags})

\* Fault: both views list aggregates from Floor on.
Listed_SameFloor(route, p) ==
    {tag \in IF route = "market_opportunity" THEN Trailers ELSE Tags :
        Count(route, tag, p) >= Floor}

\* The aggregates in the row of a pool: HAVING count(...) >= 10, and >= 3.
Listed(route, p) ==
    {tag \in IF route = "market_opportunity" THEN Trailers ELSE Tags :
        Count(route, tag, p) >= IF route = "market_opportunity" THEN Floor ELSE Sample}

\* Fault: one load makes a market active.
Availability_NoLimited(p) == IF OpenLoads(p) = 0 THEN "none" ELSE "active"

\* Fault: a band that MarketOpportunityContext does not know.
Availability_Unknown(p) == IF OpenLoads(p) = 0 THEN "none" ELSE "some"

\* The CASE of the opportunity view.
Availability(p) ==
    IF OpenLoads(p) = 0 THEN "none" ELSE IF OpenLoads(p) < Active THEN "limited" ELSE "active"

\* Fault: any market whose name resembles the one asked for.
Matches_Similar(name) == {p \in Pools : ~archived[p]}

\* lower(market_name) = lower(normalized): white space is normalized in the
\* name asked for, and not in the title.
Matches(name) == {p \in Pools : ~archived[p] /\ title[p] = [name |-> name, tidy |-> TRUE]}

-----------------------------------------------------------------------------
(* The lookup                                                              *)

\* Fault: the counts of a row are not validated.
IsValid_AnyCount(route, p) ==
    /\ Listed(route, p) \subseteq Fitting
    /\ route = "market_catalog" => p \in Fitting

\* MarketFacility, MarketEquipment and MarketContext: one aggregate with a count
\* below ten, or with a name, city, state or type that is null, empty or too long,
\* fails the row, and so does a time zone that is too long.
IsValid(route, p) ==
    /\ \A tag \in Listed(route, p) : tag \in Fitting /\ Count(route, tag, p) >= Sample
    /\ route = "market_catalog" => p \in Fitting

Failure(outcome, rows) == [outcome |-> outcome, rows |-> rows]

Data(route, p) == [outcome |-> title[p].name, rows |-> 1, pool |-> p,
                   listed |-> Listed(route, p), availability |-> Availability(p)]

Init ==
    /\ title \in [Pools -> Titles]
    /\ archived = [p \in Pools |-> FALSE]
    /\ load = [x \in Loads |-> Nothing]
    /\ asked = [l \in Lookups |-> Nothing]
    /\ reply = [l \in Lookups |-> Nothing]

\* The marketplace: a load is posted, completed, or leaves the windows.
Post(x, p, tags, state) ==
    /\ load[x] = Nothing
    /\ load' = [load EXCEPT ![x] = [state |-> state, pool |-> p, tags |-> tags]]
    /\ UNCHANGED <<title, archived, asked, reply>>

Complete(x) ==
    /\ load[x] # Nothing
    /\ load' = [load EXCEPT ![x].state = "completed"]
    /\ UNCHANGED <<title, archived, asked, reply>>

Drop(x) ==
    /\ load' = [load EXCEPT ![x] = Nothing]
    /\ UNCHANGED <<title, archived, asked, reply>>

Rename(p, t) ==
    /\ title' = [title EXCEPT ![p] = t]
    /\ UNCHANGED <<archived, load, asked, reply>>

Archive(p) ==
    /\ archived' = [archived EXCEPT ![p] = TRUE]
    /\ UNCHANGED <<title, load, asked, reply>>

\* get_market: a blank name is refused before the view is read.
Ask(l, route, name) ==
    /\ asked[l] = Nothing
    /\ asked' = [asked EXCEPT ![l] = [route |-> route, name |-> name]]
    /\ reply' = IF name = Blank THEN [reply EXCEPT ![l] = Failure("invalid", 0)] ELSE reply
    /\ UNCHANGED lohi

Awaiting(l) == asked[l] # Nothing /\ reply[l] = Nothing

\* The database of LoHi cannot be reached, or the query fails.
Down(l) ==
    /\ Awaiting(l)
    /\ reply' = [reply EXCEPT ![l] = Failure("down", 0)]
    /\ UNCHANGED <<lohi, asked>>

\* Fault: the first of several rows is taken.
Query_First(l) ==
    /\ Awaiting(l)
    /\ LET found == Matches(asked[l].name)
           route == asked[l].route
       IN \/ found = {} /\ reply' = [reply EXCEPT ![l] = Failure("unknown", 0)]
          \/ \E p \in found :
                reply' = [reply EXCEPT ![l] = IF IsValid(route, p) THEN Data(route, p)
                                              ELSE Failure("invalid", 1)]
    /\ UNCHANGED <<lohi, asked>>

\* At most two rows are read: several are an error, none is a handoff.
Query(l) ==
    /\ Awaiting(l)
    /\ LET found == Matches(asked[l].name)
           route == asked[l].route
       IN \/ found = {} /\ reply' = [reply EXCEPT ![l] = Failure("unknown", 0)]
          \/ Cardinality(found) > 1 /\ reply' = [reply EXCEPT ![l] = Failure("invalid", 2)]
          \/ \E p \in found :
                /\ found = {p}
                /\ reply' = [reply EXCEPT ![l] = IF IsValid(route, p) THEN Data(route, p)
                                                 ELSE Failure("invalid", 1)]
    /\ UNCHANGED <<lohi, asked>>

Trade ==
    \/ \E x \in Loads :
          \/ \E p \in Pools, tags \in Cargoes, state \in {"manual", "open"} :
                Post(x, p, tags, state)
          \/ Complete(x)
          \/ Drop(x)
    \/ \E p \in Pools : Archive(p) \/ \E t \in Titles : Rename(p, t)

Next ==
    \/ Trade
    \/ \E l \in Lookups :
          \/ \E route \in Routes, name \in Names \cup {Blank} : Ask(l, route, name)
          \/ Down(l)
          \/ Query(l)

Spec == Init /\ [][Next]_vars

-----------------------------------------------------------------------------
(* Properties                                                              *)

\* Types of the marketplace and of the lookups.
TypeOK ==
    /\ title \in [Pools -> Titles]
    /\ archived \in [Pools -> BOOLEAN]
    /\ load \in [Loads -> LoadType \cup {Nothing}]
    /\ asked \in [Lookups -> Questions \cup {Nothing}]
    /\ reply \in [Lookups -> Replies \cup {Nothing}]

HasData(r) == r # Nothing /\ r.outcome \in Names

\* A market is never guessed: when data is shown, its pool is the only one in
\* use that bore the name asked for when the view was read.
NeverGuesses ==
    [][\A l \in Lookups : reply'[l] # reply[l] /\ HasData(reply'[l]) =>
          {p \in Pools : ~archived[p] /\ title[p].name = asked[l].name /\ title[p].tidy}
              = {reply'[l].pool}]_vars

\* No aggregate is shown of fewer loads than Sample, even where the view lists it:
\* a facility rests on that many completed loads of its market, as the disclosure
\* rule of docs/market-catalog-data-contract.md asks.  Equipment does not: in the
\* catalog it rests on loads of any state, for the opportunity on open ones.
NothingThin ==
    [][\A l \in Lookups : reply'[l] # reply[l] /\ HasData(reply'[l]) =>
          LET enough(tag, states) ==
                Cardinality({x \in LoadsOf(reply'[l].pool, states) : tag \in load[x].tags}) >= Sample
          IN /\ \A tag \in reply'[l].listed \cap Facilities : enough(tag, {"completed"})
             /\ \A tag \in reply'[l].listed \cap Trailers :
                   enough(tag, IF asked[l].route = "market_opportunity" THEN {"open"}
                               ELSE {"manual", "open", "completed"})]_vars

\* The activity of a market and the equipment named with it fit together: a
\* market where equipment is named has enough open loads to be active, and one
\* called active, limited or without loads is.
BandFitsEquipment ==
    [][\A l \in Lookups :
          reply'[l] # reply[l] /\ HasData(reply'[l]) /\ asked[l].route = "market_opportunity" =>
             LET open == LoadsOf(reply'[l].pool, {"open"})
             IN /\ (reply'[l].availability = "none") <=> (open = {})
                /\ (reply'[l].availability = "active") <=> (Cardinality(open) >= Active)
                /\ Sample >= Active /\ reply'[l].listed # {} =>
                      reply'[l].availability = "active"]_vars

\* A market that the view has is refused for a text that the models do not accept,
\* its own time zone or that of something its loads carry, or, on the opportunity
\* route alone, for equipment of as many open loads as the view lists and fewer
\* than the model accepts: never for a count of the catalog.
RowsRefusedForCause ==
    [][\A l \in Lookups :
          reply'[l] # reply[l] /\ reply'[l].rows = 1 /\ reply'[l].outcome = "invalid" =>
             \E p \in Pools :
                /\ title[p].name = asked[l].name
                /\ \/ asked[l].route = "market_catalog" /\ p \notin Fitting
                   \/ \E x \in Loads : /\ load[x] # Nothing /\ load[x].pool = p
                                       /\ ~(load[x].tags \subseteq Fitting)
                   \/ /\ asked[l].route = "market_opportunity"
                      /\ \E tag \in Trailers :
                            Cardinality({x \in LoadsOf(p, {"open"}) : tag \in load[x].tags})
                               \in Floor..(Sample - 1)]_vars

\* The tool keeps the promise of LiveLookup: one end, about the market that
\* was asked for or without data.
Live == INSTANCE LiveLookup WITH
            Subjects <- Names \cup {Blank},
            about <- [l \in Lookups |-> IF asked[l] = Nothing THEN Nothing ELSE asked[l].name],
            outcome <- [l \in Lookups |-> IF reply[l] = Nothing THEN Nothing ELSE reply[l].outcome]
KeepsPromise == Live!Spec

=============================================================================
