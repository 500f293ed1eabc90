-------------------------- MODULE MarketLookupProofs --------------------------
(***************************************************************************)
(* Proofs about MarketLookup for any number of lookups, pools, loads and   *)
(* titles, and for every choice of the three limits.  What is shown is     *)
(* decided in the one step that reads the view, so all rests on lemmas     *)
(* about what Query may reply in a typed state.                            *)
(***************************************************************************)
EXTENDS MarketLookup, FiniteSetTheorems, TLAPS

-----------------------------------------------------------------------------
(* Counting loads                                                          *)

\* The loads of a pool are finitely many, and more states select more of them.
LEMMA CountsGrow ==
    ASSUME NEW p, NEW states, NEW more, states \subseteq more, NEW few,
           few \subseteq LoadsOf(p, states)
    PROVE  /\ Cardinality(few) \in Nat
           /\ Cardinality(LoadsOf(p, more)) \in Nat
           /\ Cardinality(few) <= Cardinality(LoadsOf(p, more))
<1>1. LoadsOf(p, more) \subseteq Loads /\ few \subseteq LoadsOf(p, more)
  BY DEF LoadsOf
<1>2. IsFiniteSet(LoadsOf(p, more))
  BY <1>1, MarketAssumption, FS_Subset
<1>3. IsFiniteSet(few) /\ Cardinality(few) <= Cardinality(LoadsOf(p, more))
  BY <1>1, <1>2, FS_Subset
<1> QED
  BY <1>2, <1>3, FS_CardinalityType

\* How many loads an aggregate counts is a number, and some load bears its tag
\* when it is not zero.
LEMMA CountFacts ==
    ASSUME NEW route, NEW tag, NEW p
    PROVE  /\ Count(route, tag, p) \in Nat
           /\ Count(route, tag, p) # 0 =>
                \E x \in Loads : load[x] # Nothing /\ load[x].pool = p /\ tag \in load[x].tags
<1> DEFINE counted == {x \in LoadsOf(p, Counted(route, tag)) : tag \in load[x].tags}
<1>1. counted \subseteq Loads
  BY DEF LoadsOf
<1>2. IsFiniteSet(counted)
  BY <1>1, MarketAssumption, FS_Subset
<1>3. Cardinality(counted) \in Nat /\ (Cardinality(counted) = 0 <=> counted = {})
  <2> HIDE DEF counted
  <2> QED
    BY <1>2, FS_CardinalityType, FS_EmptySet
<1>4. counted # {} =>
        \E x \in Loads : load[x] # Nothing /\ load[x].pool = p /\ tag \in load[x].tags
  BY DEF LoadsOf
<1> QED
  BY <1>3, <1>4 DEF Count

\* Where equipment of the opportunity rests on enough loads, as many are open.
LEMMA EquipmentIsOpen ==
    ASSUME NEW tag \in Trailers, NEW p, Count("market_opportunity", tag, p) >= Sample
    PROVE  OpenLoads(p) >= Sample
<1> DEFINE counted == {x \in LoadsOf(p, {"open"}) : tag \in load[x].tags}
<1>1. Count("market_opportunity", tag, p) = Cardinality(counted)
  BY MarketAssumption DEF Count, Counted
<1>2. counted \subseteq LoadsOf(p, {"open"})
  OBVIOUS
<1> HIDE DEF counted
<1>3. /\ Cardinality(counted) \in Nat
      /\ Cardinality(LoadsOf(p, {"open"})) \in Nat
      /\ Cardinality(counted) <= Cardinality(LoadsOf(p, {"open"}))
  BY <1>2, CountsGrow
<1> QED
  BY <1>1, <1>3, MarketAssumption DEF OpenLoads

\* The band says how many open loads there are.
LEMMA BandMeaning ==
    ASSUME NEW p
    PROVE  /\ Availability(p) \in {"none", "limited", "active"}
           /\ (Availability(p) = "none") <=> (LoadsOf(p, {"open"}) = {})
           /\ (Availability(p) = "active") <=> (OpenLoads(p) >= Active)
<1> DEFINE open == LoadsOf(p, {"open"})
<1>1. IsFiniteSet(open)
  <2>1. open \subseteq Loads
    BY DEF LoadsOf
  <2> QED
    BY <2>1, MarketAssumption, FS_Subset
<1>2. Cardinality(open) \in Nat /\ (Cardinality(open) = 0 <=> open = {})
  BY <1>1, FS_CardinalityType, FS_EmptySet
<1>3. Active \in Nat \ {0}
  BY MarketAssumption
<1> HIDE DEF open
<1>4. OpenLoads(p) = Cardinality(open)
  BY DEF OpenLoads, open
<1>5. /\ Availability(p) \in {"none", "limited", "active"}
      /\ (Availability(p) = "none") <=> (open = {})
      /\ (Availability(p) = "active") <=> (OpenLoads(p) >= Active)
  BY <1>2, <1>3, <1>4 DEF Availability
<1> QED
  BY <1>5 DEF open

-----------------------------------------------------------------------------
(* What a query may reply                                                  *)

\* A failure is not mistaken for data.
LEMMA FailureFacts ==
    ASSUME NEW cause \in {"down", "invalid", "unknown"}, NEW n \in 0..2
    PROVE  /\ Failure(cause, n) \in Replies /\ Failure(cause, n) # Nothing
           /\ Failure(cause, n).outcome = cause /\ Failure(cause, n).rows = n
           /\ ~HasData(Failure(cause, n))
<1>1. /\ Failure(cause, n) \in Replies
      /\ Failure(cause, n).outcome = cause /\ Failure(cause, n).rows = n
  BY DEF Failure, Replies
<1> QED
  BY <1>1, MarketAssumption DEF HasData

\* The data of a pool is a reply.
LEMMA DataFacts ==
    ASSUME TypeOK, NEW route, NEW p \in Pools
    PROVE  /\ Data(route, p) \in Replies /\ Data(route, p) # Nothing
           /\ Data(route, p).outcome = title[p].name /\ Data(route, p).rows = 1
           /\ Data(route, p).pool = p /\ Data(route, p).listed = Listed(route, p)
           /\ Data(route, p).availability = Availability(p)
           /\ title[p].name \in Names
<1>1. title[p].name \in Names
  BY DEF TypeOK, Names
<1>2. Listed(route, p) \subseteq Tags
  BY DEF Listed, Tags
<1>3. Availability(p) \in {"none", "limited", "active"}
  BY BandMeaning
<1>4. /\ Data(route, p).outcome = title[p].name /\ Data(route, p).rows = 1
      /\ Data(route, p).pool = p /\ Data(route, p).listed = Listed(route, p)
      /\ Data(route, p).availability = Availability(p)
  BY DEF Data
<1>5. Data(route, p) \in Replies
  BY <1>1, <1>2, <1>3 DEF Data, Replies
<1> QED
  BY <1>1, <1>4, <1>5, MarketAssumption

\* What a query may end its lookup with: a failure, or the valid data of the one
\* pool that matches.
IsEnd(l, r) ==
    /\ r \in Replies /\ r # Nothing
    /\ r.outcome \in {"unknown", "invalid", asked[l].name}
    /\ r.outcome = "invalid" /\ r.rows = 1 => \E p \in Pools :
          Matches(asked[l].name) = {p} /\ ~IsValid(asked[l].route, p)
    /\ HasData(r) => \E p \in Pools :
          /\ Matches(asked[l].name) = {p}
          /\ IsValid(asked[l].route, p)
          /\ r = Data(asked[l].route, p)

LEMMA QueryOutcome ==
    ASSUME TypeOK, NEW l \in Lookups, Query(l)
    PROVE  \E r : IsEnd(l, r) /\ reply' = [reply EXCEPT ![l] = r]
<1> DEFINE route == asked[l].route
           found == Matches(asked[l].name)
<1>1. CASE reply' = [reply EXCEPT ![l] = Failure("unknown", 0)]
  <2>1. IsEnd(l, Failure("unknown", 0))
    BY FailureFacts DEF IsEnd
  <2> QED
    BY <1>1, <2>1
<1>2. CASE reply' = [reply EXCEPT ![l] = Failure("invalid", 2)]
  <2>1. IsEnd(l, Failure("invalid", 2))
    BY FailureFacts DEF IsEnd
  <2> QED
    BY <1>2, <2>1
<1>3. ASSUME NEW p \in found, found = {p},
             reply' = [reply EXCEPT ![l] = IF IsValid(route, p) THEN Data(route, p)
                                           ELSE Failure("invalid", 1)]
      PROVE  \E r : IsEnd(l, r) /\ reply' = [reply EXCEPT ![l] = r]
  <2>1. p \in Pools /\ title[p].name = asked[l].name
    BY DEF Matches
  <2>2. CASE IsValid(route, p)
    <3>1. /\ Data(route, p) \in Replies /\ Data(route, p) # Nothing
          /\ Data(route, p).outcome = asked[l].name /\ asked[l].name \in Names
      BY <2>1, DataFacts
    <3>2. Data(route, p).outcome # "invalid"
      BY <3>1, MarketAssumption
    <3>3. IsEnd(l, Data(route, p))
      BY <1>3, <2>1, <2>2, <3>1, <3>2 DEF IsEnd
    <3> QED
      BY <1>3, <2>2, <3>3
  <2>3. CASE ~IsValid(route, p)
    <3>1. IsEnd(l, Failure("invalid", 1))
      BY <1>3, <2>1, <2>3, FailureFacts DEF IsEnd
    <3> QED
      BY <1>3, <2>3, <3>1
  <2> QED
    BY <2>2, <2>3
<1> QED
  BY <1>1, <1>2, <1>3 DEF Query

-----------------------------------------------------------------------------
(* The steps                                                               *)

MarketInv ==
    /\ TypeOK
    /\ \A l \in Lookups : asked[l] = Nothing => reply[l] = Nothing

LEMMA InitHolds == Init => MarketInv
<1> SUFFICES ASSUME Init PROVE MarketInv
  OBVIOUS
<1> QED
  BY DEF Init, MarketInv, TypeOK

\* What the marketplace does touches no lookup.
LEMMA TradeKeeps ==
    ASSUME MarketInv, Trade
    PROVE  MarketInv' /\ asked' = asked /\ reply' = reply
<1>1. asked' = asked /\ reply' = reply
  BY DEF Trade, Post, Complete, Drop, Rename, Archive
<1>2. TypeOK'
  <2>1. ASSUME NEW x \in Loads, NEW p \in Pools, NEW tags \in Cargoes,
               NEW state \in {"manual", "open"}, Post(x, p, tags, state)
        PROVE  TypeOK'
    <3>1. [state |-> state, pool |-> p, tags |-> tags] \in LoadType
      BY DEF LoadType
    <3> QED
      BY <2>1, <3>1 DEF MarketInv, TypeOK, Post
  <2>2. ASSUME NEW x \in Loads, Complete(x) PROVE TypeOK'
    <3>1. load[x] \in LoadType
      BY <2>2 DEF MarketInv, TypeOK, Complete
    <3>2. [load[x] EXCEPT !.state = "completed"] \in LoadType
      BY <3>1 DEF LoadType
    <3>3. load' = [load EXCEPT ![x] = [load[x] EXCEPT !.state = "completed"]]
      BY <2>2 DEF Complete
    <3> QED
      BY <2>2, <3>2, <3>3 DEF MarketInv, TypeOK, Complete
  <2>3. ASSUME NEW x \in Loads, Drop(x) PROVE TypeOK'
    BY <2>3 DEF MarketInv, TypeOK, Drop
  <2>4. ASSUME NEW p \in Pools, Archive(p) PROVE TypeOK'
    BY <2>4 DEF MarketInv, TypeOK, Archive
  <2>5. ASSUME NEW p \in Pools, NEW t \in Titles, Rename(p, t) PROVE TypeOK'
    BY <2>5 DEF MarketInv, TypeOK, Rename
  <2> QED
    BY <2>1, <2>2, <2>3, <2>4, <2>5 DEF Trade
<1> QED
  BY <1>1, <1>2 DEF MarketInv

\* A question is typed, and only a blank name is refused with it.
LEMMA AskFacts ==
    ASSUME MarketInv, NEW l \in Lookups, NEW route \in Routes, NEW name \in Names \cup {Blank},
           Ask(l, route, name)
    PROVE  /\ asked' = [asked EXCEPT ![l] = [route |-> route, name |-> name]]
           /\ [route |-> route, name |-> name] \in Questions
           /\ asked[l] = Nothing /\ reply[l] = Nothing
           /\ reply' = reply \/ reply' = [reply EXCEPT ![l] = Failure("invalid", 0)]
           /\ UNCHANGED lohi
BY DEF MarketInv, Ask, Questions

LEMMA AskKeeps ==
    ASSUME MarketInv, NEW l \in Lookups, NEW route \in Routes, NEW name \in Names \cup {Blank},
           Ask(l, route, name)
    PROVE  MarketInv'
<1> DEFINE q == [route |-> route, name |-> name]
           f == Failure("invalid", 0)
<1>1. /\ asked' = [asked EXCEPT ![l] = q] /\ q \in Questions /\ q # Nothing
      /\ reply[l] = Nothing
      /\ reply' = reply \/ reply' = [reply EXCEPT ![l] = f]
      /\ UNCHANGED lohi
  BY AskFacts, MarketAssumption
<1>2. f \in Replies /\ f.rows = 0
  BY FailureFacts
<1> HIDE DEF q, f
<1>3. TypeOK'
  BY <1>1, <1>2 DEF MarketInv, TypeOK, lohi
<1>4. \A k \in Lookups : asked'[k] = Nothing => reply'[k] = Nothing
  BY <1>1 DEF MarketInv, TypeOK
<1> QED
  BY <1>3, <1>4 DEF MarketInv

\* A lookup ends once.
LEMMA EndKeeps ==
    ASSUME MarketInv, NEW l \in Lookups, Awaiting(l), NEW r \in Replies,
           reply' = [reply EXCEPT ![l] = r], UNCHANGED <<lohi, asked>>
    PROVE  MarketInv'
<1>1. TypeOK'
  BY DEF MarketInv, TypeOK, lohi
<1>2. \A k \in Lookups : asked'[k] = Nothing => reply'[k] = Nothing
  BY DEF MarketInv, TypeOK, Awaiting
<1> QED
  BY <1>1, <1>2 DEF MarketInv

\* How an awaited lookup goes on.
LEMMA LookupEnds ==
    ASSUME MarketInv, NEW l \in Lookups, Down(l) \/ Query(l)
    PROVE  /\ Awaiting(l) /\ UNCHANGED <<lohi, asked>>
           /\ \E r : /\ reply' = [reply EXCEPT ![l] = r]
                     /\ IsEnd(l, r) \/ r = Failure("down", 0)
<1>1. CASE Down(l)
  BY <1>1 DEF Down
<1>2. CASE Query(l)
  <2>1. Awaiting(l) /\ UNCHANGED <<lohi, asked>>
    BY <1>2 DEF Query
  <2> QED
    BY <1>2, <2>1, QueryOutcome DEF MarketInv
<1> QED
  BY <1>1, <1>2

LEMMA StepKeeps == MarketInv /\ [Next]_vars => MarketInv'
<1> SUFFICES ASSUME MarketInv, [Next]_vars PROVE MarketInv'
  OBVIOUS
<1>1. CASE Trade
  BY <1>1, TradeKeeps
<1>2. ASSUME NEW l \in Lookups, NEW route \in Routes, NEW name \in Names \cup {Blank},
             Ask(l, route, name)
      PROVE  MarketInv'
  BY <1>2, AskKeeps
<1>3. ASSUME NEW l \in Lookups, Down(l) \/ Query(l) PROVE MarketInv'
  <2>1. PICK r : /\ reply' = [reply EXCEPT ![l] = r]
                 /\ IsEnd(l, r) \/ r = Failure("down", 0)
    BY <1>3, LookupEnds
  <2>2. Awaiting(l) /\ UNCHANGED <<lohi, asked>>
    BY <1>3, LookupEnds
  <2>3. CASE IsEnd(l, r)
    BY <2>1, <2>2, <2>3, EndKeeps DEF IsEnd
  <2>4. CASE r = Failure("down", 0)
    <3>1. r \in Replies /\ r.outcome = "down"
      BY <2>4, FailureFacts
    <3> QED
      BY <2>1, <2>2, <3>1, EndKeeps
  <2> QED
    BY <2>1, <2>3, <2>4
<1>4. CASE UNCHANGED vars
  BY <1>4 DEF vars, lohi, MarketInv, TypeOK
<1> QED
  BY <1>1, <1>2, <1>3, <1>4 DEF Next

-----------------------------------------------------------------------------
(* Theorems                                                                *)

THEOREM MarketInvariant == Spec => []MarketInv
<1>1. Init => MarketInv
  BY InitHolds
<1>2. MarketInv /\ [Next]_vars => MarketInv'
  BY StepKeeps
<1> QED
  BY <1>1, <1>2, PTL DEF Spec

\* The marketplace and the lookups keep their types.
THEOREM TypeCorrect == Spec => []TypeOK
<1>1. MarketInv => TypeOK
  BY DEF MarketInv
<1> QED
  BY <1>1, MarketInvariant, PTL

-----------------------------------------------------------------------------
(* What is shown                                                           *)

\* A reply with a row, shown or refused, is what a query ended its lookup with.
LEMMA EndedByQuery ==
    ASSUME MarketInv, [Next]_vars, NEW l \in Lookups, reply'[l] # reply[l],
           HasData(reply'[l]) \/ reply'[l].rows = 1
    PROVE  IsEnd(l, reply'[l])
<1>1. CASE Trade
  BY <1>1, TradeKeeps
<1>2. ASSUME NEW k \in Lookups, NEW route \in Routes, NEW name \in Names \cup {Blank},
             Ask(k, route, name)
      PROVE  FALSE
  <2>1. reply' = reply \/ reply' = [reply EXCEPT ![k] = Failure("invalid", 0)]
    BY <1>2, AskFacts
  <2>2. ~HasData(Failure("invalid", 0)) /\ Failure("invalid", 0).rows = 0
    BY FailureFacts
  <2> QED
    BY <2>1, <2>2 DEF MarketInv, TypeOK
<1>3. ASSUME NEW k \in Lookups, Down(k) \/ Query(k)
      PROVE  IsEnd(l, reply'[l])
  <2>1. PICK r : /\ reply' = [reply EXCEPT ![k] = r]
                 /\ IsEnd(k, r) \/ r = Failure("down", 0)
    BY <1>3, LookupEnds
  <2>2. k = l /\ reply'[l] = r
    BY <2>1 DEF MarketInv, TypeOK
  <2>3. r # Failure("down", 0)
    BY <2>2, FailureFacts
  <2> QED
    BY <2>1, <2>2, <2>3
<1>4. CASE UNCHANGED vars
  BY <1>4 DEF vars
<1> QED
  BY <1>1, <1>2, <1>3, <1>4 DEF Next

\* Data is shown only by a query that found one market, and valid.
LEMMA ShownByQuery ==
    ASSUME MarketInv, [Next]_vars, NEW l \in Lookups, reply'[l] # reply[l], HasData(reply'[l])
    PROVE  \E p \in Pools :
              /\ Matches(asked[l].name) = {p}
              /\ IsValid(asked[l].route, p)
              /\ reply'[l] = Data(asked[l].route, p)
BY EndedByQuery DEF IsEnd

\* A title is told by its fields.
LEMMA TidyTitles ==
    ASSUME NEW t \in [name : Names, tidy : BOOLEAN], NEW name
    PROVE  t = [name |-> name, tidy |-> TRUE] <=> t.name = name /\ t.tidy
<1>1. t = [name |-> name, tidy |-> TRUE] <=> t.name = name /\ t.tidy = TRUE
  BY SMT
<1>2. t.tidy \in BOOLEAN
  BY SMT
<1>3. t.tidy = TRUE <=> t.tidy
  BY <1>2, Zenon
<1> QED
  BY <1>1, <1>3

\* Data is shown only of the one market in use that bears the name.
THEOREM NeverGuessed == Spec => NeverGuesses
<1>1. MarketInv /\ [Next]_vars =>
        [\A l \in Lookups : reply'[l] # reply[l] /\ HasData(reply'[l]) =>
            {p \in Pools : ~archived[p] /\ title[p].name = asked[l].name /\ title[p].tidy}
                = {reply'[l].pool}]_vars
  <2> SUFFICES ASSUME MarketInv, [Next]_vars, NEW l \in Lookups,
                      reply'[l] # reply[l], HasData(reply'[l])
               PROVE  {q \in Pools : ~archived[q] /\ title[q].name = asked[l].name /\ title[q].tidy}
                         = {reply'[l].pool}
    OBVIOUS
  <2>1. PICK p \in Pools : /\ Matches(asked[l].name) = {p}
                           /\ reply'[l] = Data(asked[l].route, p)
    BY ShownByQuery
  <2>2. reply'[l].pool = p
    BY <2>1, DataFacts DEF MarketInv
  <2>3. \A q \in Pools : title[q] = [name |-> asked[l].name, tidy |-> TRUE] <=>
                           title[q].name = asked[l].name /\ title[q].tidy
    BY TidyTitles, MarketAssumption DEF MarketInv, TypeOK
  <2>4. Matches(asked[l].name) =
          {q \in Pools : ~archived[q] /\ title[q].name = asked[l].name /\ title[q].tidy}
    BY <2>3 DEF Matches
  <2> QED
    BY <2>1, <2>2, <2>4
<1> QED
  BY <1>1, MarketInvariant, PTL DEF Spec, NeverGuesses

\* Facilities rest on enough completed loads, and equipment on enough recent or
\* open ones, although one of the views lists aggregates of fewer.
THEOREM DisclosureHolds == Spec => NothingThin
<1>1. MarketInv /\ [Next]_vars =>
        [\A l \in Lookups : reply'[l] # reply[l] /\ HasData(reply'[l]) =>
          LET enough(tag, states) ==
                Cardinality({x \in LoadsOf(reply'[l].pool, states) : tag \in load[x].tags}) >= Sample
          IN /\ \A tag \in reply'[l].listed \cap Facilities : enough(tag, {"completed"})
             /\ \A tag \in reply'[l].listed \cap Trailers :
                   enough(tag, IF asked[l].route = "market_opportunity" THEN {"open"}
                               ELSE {"manual", "open", "completed"})]_vars
  <2> SUFFICES ASSUME MarketInv, [Next]_vars, NEW l \in Lookups,
                      reply'[l] # reply[l], HasData(reply'[l])
               PROVE  LET enough(tag, states) ==
                            Cardinality({x \in LoadsOf(reply'[l].pool, states) :
                                            tag \in load[x].tags}) >= Sample
                      IN /\ \A tag \in reply'[l].listed \cap Facilities :
                               enough(tag, {"completed"})
                         /\ \A tag \in reply'[l].listed \cap Trailers :
                               enough(tag, IF asked[l].route = "market_opportunity" THEN {"open"}
                                           ELSE {"manual", "open", "completed"})
    OBVIOUS
  <2>1. PICK p \in Pools : /\ IsValid(asked[l].route, p)
                           /\ reply'[l] = Data(asked[l].route, p)
    BY ShownByQuery
  <2>2. reply'[l].pool = p /\ reply'[l].listed = Listed(asked[l].route, p)
    BY <2>1, DataFacts DEF MarketInv
  <2>3. ASSUME NEW tag \in reply'[l].listed
        PROVE  Cardinality({x \in LoadsOf(p, Counted(asked[l].route, tag)) :
                               tag \in load[x].tags}) >= Sample
    BY <2>1, <2>2 DEF IsValid, Count
  <2>4. \A tag \in Facilities : Counted(asked[l].route, tag) = {"completed"}
    BY DEF Counted
  <2>5. \A tag \in Trailers : Counted(asked[l].route, tag) =
            IF asked[l].route = "market_opportunity" THEN {"open"}
            ELSE {"manual", "open", "completed"}
    BY MarketAssumption DEF Counted
  <2> QED
    BY <2>2, <2>3, <2>4, <2>5
<1> QED
  BY <1>1, MarketInvariant, PTL DEF Spec, NothingThin

\* A row that the models refuse has a text that they do not accept, or, for the
\* opportunity, equipment of open loads between the two limits.
LEMMA WhyInvalid ==
    ASSUME NEW route, NEW p \in Pools, ~IsValid(route, p)
    PROVE  \/ route = "market_catalog" /\ p \notin Fitting
           \/ \E x \in Loads : /\ load[x] # Nothing /\ load[x].pool = p
                               /\ ~(load[x].tags \subseteq Fitting)
           \/ /\ route = "market_opportunity"
              /\ \E tag \in Trailers :
                    Cardinality({x \in LoadsOf(p, {"open"}) : tag \in load[x].tags})
                       \in Floor..(Sample - 1)
<1>1. CASE route = "market_catalog" /\ p \notin Fitting
  BY <1>1
<1>2. ASSUME NEW tag \in Listed(route, p), tag \notin Fitting
      PROVE  \E x \in Loads : /\ load[x] # Nothing /\ load[x].pool = p
                              /\ ~(load[x].tags \subseteq Fitting)
  <2>1. Count(route, tag, p) >= Floor \/ Count(route, tag, p) >= Sample
    BY DEF Listed
  <2>2. Count(route, tag, p) # 0
    BY <2>1, CountFacts, MarketAssumption
  <2> QED
    BY <1>2, <2>2, CountFacts
<1>3. ASSUME NEW tag \in Listed(route, p), ~(Count(route, tag, p) >= Sample)
      PROVE  /\ route = "market_opportunity" /\ tag \in Trailers
             /\ Cardinality({x \in LoadsOf(p, {"open"}) : tag \in load[x].tags})
                   \in Floor..(Sample - 1)
  <2>1. route = "market_opportunity" /\ tag \in Trailers /\ Count(route, tag, p) >= Floor
    BY <1>3 DEF Listed
  <2>2. Count(route, tag, p) \in Floor..(Sample - 1)
    BY <1>3, <2>1, CountFacts, MarketAssumption
  <2>3. Count(route, tag, p) = Cardinality({x \in LoadsOf(p, {"open"}) : tag \in load[x].tags})
    BY <2>1, MarketAssumption DEF Count, Counted
  <2> QED
    BY <2>1, <2>2, <2>3
<1> QED
  BY <1>1, <1>2, <1>3 DEF IsValid

\* A market that the view has is refused for a text, or for equipment of the
\* opportunity, and never for a count of the catalog.
THEOREM RefusedForCause == Spec => RowsRefusedForCause
<1>1. MarketInv /\ [Next]_vars =>
        [\A l \in Lookups :
          reply'[l] # reply[l] /\ reply'[l].rows = 1 /\ reply'[l].outcome = "invalid" =>
             \E p \in Pools :
                /\ title[p].name = asked[l].name
                /\ \/ asked[l].route = "market_catalog" /\ p \notin Fitting
                   \/ \E x \in Loads : /\ load[x] # Nothing /\ load[x].pool = p
                                       /\ ~(load[x].tags \subseteq Fitting)
                   \/ /\ asked[l].route = "market_opportunity"
                      /\ \E tag \in Trailers :
                            Cardinality({x \in LoadsOf(p, {"open"}) : tag \in load[x].tags})
                               \in Floor..(Sample - 1)]_vars
  <2> SUFFICES ASSUME MarketInv, [Next]_vars, NEW l \in Lookups,
                      reply'[l] # reply[l], reply'[l].rows = 1, reply'[l].outcome = "invalid"
               PROVE  \E p \in Pools :
                /\ title[p].name = asked[l].name
                /\ \/ asked[l].route = "market_catalog" /\ p \notin Fitting
                   \/ \E x \in Loads : /\ load[x] # Nothing /\ load[x].pool = p
                                       /\ ~(load[x].tags \subseteq Fitting)
                   \/ /\ asked[l].route = "market_opportunity"
                      /\ \E tag \in Trailers :
                            Cardinality({x \in LoadsOf(p, {"open"}) : tag \in load[x].tags})
                               \in Floor..(Sample - 1)
    OBVIOUS
  <2>1. PICK p \in Pools : Matches(asked[l].name) = {p} /\ ~IsValid(asked[l].route, p)
    BY EndedByQuery DEF IsEnd
  <2>2. title[p].name = asked[l].name
    BY <2>1 DEF Matches
  <2> QED
    BY <2>1, <2>2, WhyInvalid
<1> QED
  BY <1>1, MarketInvariant, PTL DEF Spec, RowsRefusedForCause

\* The band and the equipment of a market fit together, whatever the limits.
THEOREM BandFits == Spec => BandFitsEquipment
<1>1. MarketInv /\ [Next]_vars =>
        [\A l \in Lookups :
          reply'[l] # reply[l] /\ HasData(reply'[l]) /\ asked[l].route = "market_opportunity" =>
             LET open == LoadsOf(reply'[l].pool, {"open"})
             IN /\ (reply'[l].availability = "none") <=> (open = {})
                /\ (reply'[l].availability = "active") <=> (Cardinality(open) >= Active)
                /\ Sample >= Active /\ reply'[l].listed # {} =>
                      reply'[l].availability = "active"]_vars
  <2> SUFFICES ASSUME MarketInv, [Next]_vars, NEW l \in Lookups,
                      reply'[l] # reply[l], HasData(reply'[l]),
                      asked[l].route = "market_opportunity"
               PROVE  LET open == LoadsOf(reply'[l].pool, {"open"})
                      IN /\ (reply'[l].availability = "none") <=> (open = {})
                         /\ (reply'[l].availability = "active") <=> (Cardinality(open) >= Active)
                         /\ Sample >= Active /\ reply'[l].listed # {} =>
                               reply'[l].availability = "active"
    OBVIOUS
  <2>1. PICK p \in Pools : /\ IsValid(asked[l].route, p)
                           /\ reply'[l] = Data(asked[l].route, p)
    BY ShownByQuery
  <2>2. /\ reply'[l].pool = p /\ reply'[l].listed = Listed(asked[l].route, p)
        /\ reply'[l].availability = Availability(p)
    BY <2>1, DataFacts DEF MarketInv
  <2>3. /\ (Availability(p) = "none") <=> (LoadsOf(p, {"open"}) = {})
        /\ (Availability(p) = "active") <=> (Cardinality(LoadsOf(p, {"open"})) >= Active)
    BY BandMeaning DEF OpenLoads
  <2>4. ASSUME Sample >= Active, NEW tag \in Listed(asked[l].route, p)
        PROVE  Availability(p) = "active"
    <3>1. Count("market_opportunity", tag, p) >= Sample
      BY <2>1 DEF IsValid
    <3>2. tag \in Trailers
      BY DEF Listed
    <3>3. OpenLoads(p) >= Sample
      BY <3>1, <3>2, EquipmentIsOpen
    <3>4. OpenLoads(p) \in Nat
      BY CountsGrow DEF OpenLoads
    <3> QED
      BY <2>4, <3>3, <3>4, BandMeaning, MarketAssumption
  <2> QED
    BY <2>2, <2>3, <2>4
<1> QED
  BY <1>1, MarketInvariant, PTL DEF Spec, BandFitsEquipment

-----------------------------------------------------------------------------
(* The promise                                                             *)

About    == [l \in Lookups |-> IF asked[l] = Nothing THEN Nothing ELSE asked[l].name]
Outcomes == [l \in Lookups |-> IF reply[l] = Nothing THEN Nothing ELSE reply[l].outcome]

\* The abstract state after a question and after an end.
LEMMA AbstractChanges ==
    ASSUME TypeOK, NEW l \in Lookups
    PROVE  /\ \A q \in Questions : asked' = [asked EXCEPT ![l] = q] =>
                  About' = [About EXCEPT ![l] = q.name]
           /\ \A r : r # Nothing /\ reply' = [reply EXCEPT ![l] = r] =>
                  Outcomes' = [Outcomes EXCEPT ![l] = r.outcome]
           /\ asked' = asked => About' = About
           /\ reply' = reply => Outcomes' = Outcomes
<1>1. \A q \in Questions : q # Nothing
  BY MarketAssumption
<1>2. ASSUME NEW q \in Questions, asked' = [asked EXCEPT ![l] = q]
      PROVE  About' = [About EXCEPT ![l] = q.name]
  BY <1>1, <1>2 DEF TypeOK, About
<1>3. ASSUME NEW r, r # Nothing, reply' = [reply EXCEPT ![l] = r]
      PROVE  Outcomes' = [Outcomes EXCEPT ![l] = r.outcome]
  BY <1>3 DEF TypeOK, Outcomes
<1> QED
  BY <1>2, <1>3 DEF About, Outcomes

LEMMA PromiseStep ==
    ASSUME MarketInv, [Next]_vars PROVE [Live!Next]_Live!vars
<1>1. ASSUME NEW l \in Lookups, NEW route \in Routes, NEW name \in Names \cup {Blank},
             Ask(l, route, name)
      PROVE  Live!Next
  <2> DEFINE q == [route |-> route, name |-> name]
             f == Failure("invalid", 0)
  <2>a. /\ asked' = [asked EXCEPT ![l] = q] /\ q \in Questions /\ q.name = name
        /\ asked[l] = Nothing
        /\ reply' = reply \/ reply' = [reply EXCEPT ![l] = f]
    BY <1>1, AskFacts
  <2>b. f # Nothing /\ f.outcome = "invalid"
    BY FailureFacts
  <2>c. TypeOK
    BY DEF MarketInv
  <2> HIDE DEF q, f
  <2>1. About' = [About EXCEPT ![l] = name] /\ About[l] = Nothing
    BY <2>a, <2>c, AbstractChanges DEF About
  <2>2. Outcomes' = Outcomes \/ Outcomes' = [Outcomes EXCEPT ![l] = "invalid"]
    <3>1. CASE reply' = reply
      BY <3>1, <2>c, AbstractChanges
    <3>2. CASE reply' = [reply EXCEPT ![l] = f]
      <4>1. Outcomes' = [Outcomes EXCEPT ![l] = f.outcome]
        BY <3>2, <2>b, <2>c, AbstractChanges
      <4> QED
        BY <4>1, <2>b
    <3> QED
      BY <2>a, <3>1, <3>2
  <2>3. Live!Ask(l, name) \/ Live!Refuse(l, name)
    BY <2>1, <2>2 DEF Live!Ask, Live!Refuse, About, Outcomes
  <2> QED
    BY <2>3 DEF Live!Next, Live!Failures
<1>2. ASSUME NEW l \in Lookups, Down(l) \/ Query(l) PROVE Live!Next
  <2>1. Awaiting(l) /\ asked' = asked
    BY <1>2, LookupEnds
  <2>2. PICK r : /\ reply' = [reply EXCEPT ![l] = r]
                 /\ IsEnd(l, r) \/ r = Failure("down", 0)
    BY <1>2, LookupEnds
  <2>3. asked[l] \in Questions /\ asked[l].name \in Names \cup {Blank}
    BY <2>1 DEF MarketInv, TypeOK, Awaiting, Questions
  <2>4. r # Nothing /\ r.outcome \in Live!Failures \cup {asked[l].name}
    BY <2>2, FailureFacts DEF IsEnd, Live!Failures
  <2>5. About[l] = asked[l].name /\ About[l] # Nothing /\ Outcomes[l] = Nothing
    BY <2>1, <2>3, MarketAssumption DEF Awaiting, About, Outcomes
  <2>6. About' = About /\ Outcomes' = [Outcomes EXCEPT ![l] = r.outcome]
    BY <2>1, <2>2, <2>4, AbstractChanges DEF MarketInv
  <2>7. Live!End(l, r.outcome)
    BY <2>4, <2>5, <2>6 DEF Live!End, About, Outcomes
  <2> QED
    BY <2>3, <2>4, <2>7 DEF Live!Next
<1>3. ASSUME asked' = asked, reply' = reply PROVE UNCHANGED Live!vars
  BY <1>3 DEF Live!vars
<1>4. CASE Trade
  BY <1>3, <1>4, TradeKeeps
<1>5. CASE UNCHANGED vars
  BY <1>3, <1>5 DEF vars
<1> QED
  BY <1>1, <1>2, <1>4, <1>5 DEF Next

\* The market tools implement LiveLookup.
THEOREM PromiseKept == Spec => KeepsPromise
<1>1. Init => Live!Init
  BY DEF Init, Live!Init
<1>2. MarketInv /\ [Next]_vars => [Live!Next]_Live!vars
  BY PromiseStep
<1> QED
  BY <1>1, <1>2, MarketInvariant, PTL DEF Spec, KeepsPromise, Live!Spec

=============================================================================
