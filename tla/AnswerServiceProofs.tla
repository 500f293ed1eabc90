-------------------------- MODULE AnswerServiceProofs --------------------------
(***************************************************************************)
(* Proofs about AnswerService for any number of requests, applications,    *)
(* questions and ingests.  RequestInv is what must be kept about a request *)
(* between its awaits: an identified request has a principal that its own  *)
(* token justifies, and holds no row that this principal may not see.      *)
(* Ingests in between change neither.                                      *)
(***************************************************************************)
EXTENDS AnswerService, TLAPS

Identified == {"status", "market", "search", "select", "synthesis"}

\* What the language model may do, and the texts that an answer may be made of.
Outcomes == {"answers", "falls back", "raises"}
Quotes(rows) == {{rows[1]}, {rows[i] : i \in {j \in DOMAIN rows : j <= EvidenceLimit}}}

\* A request is served by one of its dependencies.
Serve(r) == ServeTimed(r) \/ ServeFromDatabase(r)

\* The principal of a request is one that its token entitles it to.
IsEntitled(r) ==
    /\ principal[r] \in Principals
    /\ principal[r].audience = "internal" <=> ask[r].token = "staff"
    /\ principal[r].application # NoApplication =>
          ask[r].token = "capability" /\ ask[r].application = principal[r].application

RequestInv(r) ==
    /\ phase[r] \in {"unsent", "user_info"} => evidence[r] = <<>>
    /\ phase[r] # "done" => reply[r] = NoReply
    /\ phase[r] \notin {"unsent", "done"} => ask[r] \in Asks
    /\ phase[r] \in Identified => IsEntitled(r)
    /\ phase[r] = "market" => Route(ask[r].question) \in MarketRoutes
    /\ phase[r] = "synthesis" => evidence[r] # <<>>
    /\ (\E row \in Cited(r) : row[1][1] = Internal) => ask[r].token = "staff"
    /\ reply[r] # NoReply /\ reply[r].application # NoApplication =>
          ask[r].token = "capability" /\ ask[r].application = reply[r].application

AnswerInv == TypeOK /\ \A r \in Requests : RequestInv(r)

-----------------------------------------------------------------------------
(* Types                                                                   *)

\* The abstract knowledge base has the keys of this module, and what is current
\* in it are rows of them.
LEMMA SameKeys ==
    /\ KB!SourceKeys = SourceKeys
    /\ KB!DocumentKeys = DocumentKeys
    /\ Current = {row \in Rows : content[row[2]] = row[1]}
BY DEF Current, KB!Results, Rows, KB!SourceKeys, SourceKeys, KB!DocumentKeys, DocumentKeys, KB!Corpora, Corpora,
       KB!Public, Public, KB!Internal, Internal

\* An ingest publishes typed content.
LEMMA PublishTypes ==
    ASSUME KB!TypeOK, KB!Next PROVE KB!TypeOK'
<1>1. PICK def \in Definitions, records \in Captures : KB!Publish(def, records)
  BY DEF KB!Next
<1>2. def.corpus \in Corpora
  BY <1>1, ServiceAssumption
<1>3. records \in Seq(Records)
  BY <1>1, ServiceAssumption
<1>4. ASSUME NEW s \in SourceKeys, KB!LastUnder(records, s[2]) # {}
      PROVE  <<def.corpus, records[CHOOSE i \in KB!LastUnder(records, s[2]) : TRUE].body>>
                \in DocumentKeys
  <2> DEFINE i == CHOOSE i \in KB!LastUnder(records, s[2]) : TRUE
  <2>1. i \in KB!LastUnder(records, s[2])
    BY <1>4
  <2>2. i \in DOMAIN records
    BY <2>1 DEF KB!LastUnder
  <2>3. records[i] \in Records
    BY <1>3, <2>2
  <2> QED
    BY <1>2, <2>3 DEF Records, DocumentKeys
<1> QED
  BY <1>1, <1>4, SameKeys DEF KB!Publish, KB!TypeOK

\* An answer that no row supports.
IsRowless(answer) ==
    answer \in Replies /\ answer.rows = <<>> /\ answer.quoted = {}

\* The canned answers cite nothing and show no application.
LEMMA CannedAnswers ==
    /\ IsRowless(NoAnswer) /\ NoAnswer.application = NoApplication
    /\ \A status \in {401, 403, 422, 500, 503} :
          IsRowless(Error(status)) /\ Error(status).application = NoApplication
BY DEF IsRowless, NoAnswer, Error, Replies

\* A policy answer is a reply that cites its rows and shows no application.
LEMMA PolicyAnswerTypes ==
    ASSUME NEW rows \in Seq(Rows), NEW quoted \in SUBSET Rows
    PROVE  /\ PolicyAnswer(rows, quoted) \in Replies
           /\ PolicyAnswer(rows, quoted).rows = rows
           /\ PolicyAnswer(rows, quoted).quoted = quoted
           /\ PolicyAnswer(rows, quoted).application = NoApplication
BY DEF PolicyAnswer, NoAnswer, Replies, Rows

\* A search returns rows that its caller may see, and none only if none was
\* there all the time.
LEMMA SearchResults ==
    ASSUME TypeOK, NEW r \in Requests, NEW rows \in Rankings(r)
    PROVE  /\ rows \in Seq(Rows)
           /\ \A i \in DOMAIN rows : rows[i] \in Hits(r, window[r].seen)
           /\ rows # <<>> => 1 \in DOMAIN rows
           /\ rows = <<>> => Hits(r, window[r].kept) = {}
<1>1. PICK n \in 0..EvidenceLimit : rows \in [1..n -> Hits(r, window[r].seen)]
  BY DEF Rankings
<1>2. Hits(r, window[r].seen) \subseteq Rows
  BY DEF Hits, TypeOK, Windows
<1>3. n \in Nat /\ EvidenceLimit \in Nat \ {0}
  BY ServiceAssumption
<1>4. rows \in Seq(Rows) /\ Len(rows) = n
  BY <1>1, <1>2, <1>3
<1>5. rows # <<>> => 1 \in DOMAIN rows
  BY <1>1, <1>3, <1>4
<1>6. rows = <<>> => Hits(r, window[r].kept) = {}
  BY <1>3, <1>4 DEF Rankings
<1> QED
  BY <1>1, <1>4, <1>5, <1>6

\* A request whose caller is known awaits a dependency or is answered without
\* any source.
LEMMA DispatchOutcome ==
    ASSUME NEW r \in Requests, NEW p \in Principals, NEW a \in Asks, Dispatch(r, p, a)
    PROVE  /\ principal' = [principal EXCEPT ![r] = p]
           /\ \/ \E awaited \in {"status", "market", "search"} :
                    /\ Await(r, awaited)
                    /\ awaited = "market" => Route(a.question) \in MarketRoutes
              \/ \E answer \in {NoAnswer, Error(422)} : Send(r, answer)
BY DEF Dispatch

-----------------------------------------------------------------------------
(* One request                                                             *)

\* A request that a step does not touch keeps its invariant.
LEMMA Untouched ==
    ASSUME NEW r \in Requests, RequestInv(r),
           phase'[r] = phase[r], ask'[r] = ask[r], principal'[r] = principal[r],
           evidence'[r] = evidence[r], reply'[r] = reply[r]
    PROVE  RequestInv(r)'
BY DEF RequestInv, IsEntitled, Cited

\* A request that is answered from no source keeps its invariant.
LEMMA AnsweredWithoutRows ==
    ASSUME TypeOK, NEW r \in Requests, NEW answer, IsRowless(answer), Send(r, answer),
           (ask'[r].token = ask[r].token /\ ask'[r].application = ask[r].application)
              \/ evidence[r] = <<>>,
           evidence' = evidence,
           RequestInv(r),
           answer.application # NoApplication =>
              ask'[r].token = "capability" /\ ask'[r].application = answer.application
    PROVE  RequestInv(r)'
<1>1. phase'[r] = "done" /\ reply'[r] = answer /\ evidence'[r] = evidence[r]
  BY DEF Send, TypeOK
<1>2. Cited(r)' \subseteq {evidence[r][i] : i \in DOMAIN evidence[r]}
  BY <1>1 DEF Cited, IsRowless
<1>3. {evidence[r][i] : i \in DOMAIN evidence[r]} \subseteq Cited(r)
  BY DEF Cited
<1>4. (\E row \in Cited(r)' : row[1][1] = Internal) => ask'[r].token = "staff"
  <2>1. CASE evidence[r] = <<>>
    BY <1>2, <2>1
  <2>2. CASE ask'[r].token = ask[r].token
    BY <1>2, <1>3, <2>2 DEF RequestInv
  <2> QED BY <2>1, <2>2
<1> QED
  BY <1>1, <1>4 DEF RequestInv, Identified

\* A request that is dispatched for an entitled caller keeps its invariant.
LEMMA DispatchKeeps ==
    ASSUME TypeOK, NEW r \in Requests, NEW p \in Principals, NEW a \in Asks,
           Dispatch(r, p, a), ask' = [ask EXCEPT ![r] = a], evidence' = evidence,
           RequestInv(r), evidence[r] = <<>>,
           p.audience = "internal" <=> a.token = "staff",
           p.application # NoApplication =>
              a.token = "capability" /\ a.application = p.application,
           phase[r] # "done"
    PROVE  RequestInv(r)'
<1>1. principal'[r] = p /\ ask'[r] = a /\ evidence'[r] = <<>>
  BY DispatchOutcome DEF TypeOK
<1>2. IsEntitled(r)'
  BY <1>1 DEF IsEntitled
<1>3. CASE \E awaited \in {"status", "market", "search"} :
              /\ Await(r, awaited)
              /\ awaited = "market" => Route(a.question) \in MarketRoutes
  <2>1. /\ phase'[r] \in {"status", "market", "search"} /\ reply'[r] = NoReply
        /\ phase'[r] = "market" => Route(ask'[r].question) \in MarketRoutes
    BY <1>1, <1>3 DEF Await, TypeOK, RequestInv
  <2>2. Cited(r)' = {}
    BY <1>1, <2>1 DEF Cited
  <2> QED
    BY <1>1, <1>2, <2>1, <2>2 DEF RequestInv
<1>4. CASE \E answer \in {NoAnswer, Error(422)} : Send(r, answer)
  <2>1. PICK answer \in {NoAnswer, Error(422)} : Send(r, answer)
    BY <1>4
  <2>2. IsRowless(answer) /\ answer.application = NoApplication
    BY <2>1, CannedAnswers
  <2> QED
    BY <1>1, <2>1, <2>2, AnsweredWithoutRows
<1> QED
  BY <1>3, <1>4, DispatchOutcome

\* What a caller may see is internal only if its token is that of staff.
LEMMA HitsAreEntitled ==
    ASSUME NEW r \in Requests, IsEntitled(r), NEW rows, NEW row \in Hits(r, rows),
           row[1][1] = Internal
    PROVE  ask[r].token = "staff"
<1>1. Internal \in SearchableCorpora(principal[r])
  BY DEF Hits
<1> QED
  BY <1>1 DEF SearchableCorpora, Internal, Public, IsEntitled

-----------------------------------------------------------------------------
(* The steps                                                               *)

\* Every request that a step does not serve keeps its invariant.
LEMMA OthersKeep ==
    ASSUME TypeOK, NEW r \in Requests, NEW q \in Requests \ {r}, RequestInv(q),
           phase' = [phase EXCEPT ![r] = phase'[r]],
           ask' = [ask EXCEPT ![r] = ask'[r]],
           principal' = [principal EXCEPT ![r] = principal'[r]],
           evidence' = [evidence EXCEPT ![r] = evidence'[r]],
           reply' = [reply EXCEPT ![r] = reply'[r]]
    PROVE  RequestInv(q)'
BY Untouched DEF TypeOK

\* A request that arrives is refused, dispatched for its own capability, or
\* tried as a session token.
LEMMA ReceiveKeeps ==
    ASSUME TypeOK, NEW r \in Requests, NEW a \in Asks, Receive(r, a), RequestInv(r)
    PROVE  RequestInv(r)'
<1>1. phase[r] = "unsent" /\ evidence' = evidence /\ ask' = [ask EXCEPT ![r] = a]
      /\ evidence[r] = <<>> /\ ask'[r] = a
  BY DEF Receive, RequestInv, TypeOK
<1>2. CASE \E status \in {401, 403} : Send(r, Error(status))
  <2>1. PICK status \in {401, 403} : Send(r, Error(status))
    BY <1>2
  <2> QED
    BY <1>1, <2>1, CannedAnswers, AnsweredWithoutRows
<1>3. CASE /\ a.token = "capability"
           /\ Dispatch(r, [audience |-> "carrier", application |-> a.application], a)
  <2>1. [audience |-> "carrier", application |-> a.application] \in Principals
    BY DEF Asks, Principals
  <2> QED
    BY <1>1, <1>3, <2>1, DispatchKeeps
<1>4. CASE Await(r, "user_info")
  <2>1. phase'[r] = "user_info" /\ reply'[r] = NoReply
    BY <1>1, <1>4 DEF Await, RequestInv, TypeOK
  <2> QED
    BY <1>1, <2>1 DEF RequestInv, Identified, Cited
<1> QED
  BY <1>2, <1>3, <1>4 DEF Receive

\* Carrier Hub makes staff, and nobody else, an internal principal.
LEMMA UserInfoKeeps ==
    ASSUME TypeOK, NEW r \in Requests, NEW outcome \in {"answers", "down", "garbled"},
           UserInfo(r, outcome), RequestInv(r)
    PROVE  RequestInv(r)'
<1>1. phase[r] = "user_info" /\ evidence' = evidence /\ ask' = ask
      /\ evidence[r] = <<>> /\ ask[r] \in Asks
  BY DEF UserInfo, RequestInv
<1>2. CASE \E status \in {403, 500, 503} : Send(r, Error(status))
  <2>1. PICK status \in {403, 500, 503} : Send(r, Error(status))
    BY <1>2
  <2> QED
    BY <1>1, <2>1, CannedAnswers, AnsweredWithoutRows
<1>3. CASE /\ ask[r].token = "staff"
           /\ Dispatch(r, [audience |-> "internal", application |-> NoApplication], ask[r])
  <2>1. [audience |-> "internal", application |-> NoApplication] \in Principals
    BY DEF Principals
  <2>2. ask' = [ask EXCEPT ![r] = ask[r]]
    BY <1>1 DEF TypeOK
  <2> QED
    BY <1>1, <1>3, <2>1, <2>2, DispatchKeeps
<1> QED
  BY <1>2, <1>3 DEF UserInfo

\* A reply from no row, or from rows of its caller, leaves a request in order.
LEMMA LookupsKeep ==
    ASSUME TypeOK, NEW r \in Requests, RequestInv(r),
           \/ \E outcome \in {"down", "invalid"} \cup Applications : ApplicationStatus(r, outcome)
           \/ \E outcome \in {"found", "unknown", "down", "invalid"} : Market(r, outcome)
           \/ SearchFails(r)
           \/ SearchNothing(r)
    PROVE  RequestInv(r)'
<1>1. phase[r] \in Identified /\ evidence' = evidence /\ ask' = ask /\ IsEntitled(r)
  BY DEF ApplicationStatus, Market, SearchFails, SearchNothing, Identified, RequestInv
<1>2. ASSUME NEW answer \in {NoAnswer, Error(500), Error(503)}, Send(r, answer)
      PROVE  RequestInv(r)'
  <2>1. IsRowless(answer) /\ answer.application = NoApplication
    BY <1>2, CannedAnswers
  <2> QED
    BY <1>1, <1>2, <2>1, AnsweredWithoutRows
<1>3. ASSUME NEW outcome \in Applications, outcome = principal[r].application,
             Send(r, LiveAnswer("application_status", outcome, FALSE))
      PROVE  RequestInv(r)'
  <2>1. LET answer == LiveAnswer("application_status", outcome, FALSE)
        IN  IsRowless(answer) /\ answer.application = outcome
    BY <1>3 DEF IsRowless, LiveAnswer, Replies
  <2>2. ask[r].token = "capability" /\ ask[r].application = outcome
    BY <1>1, <1>3, ServiceAssumption DEF IsEntitled
  <2> QED
    BY <1>1, <1>3, <2>1, <2>2, AnsweredWithoutRows
<1>4. ASSUME NEW type \in MarketRoutes, Send(r, LiveAnswer(type, NoApplication, TRUE))
      PROVE  RequestInv(r)'
  <2>1. LET answer == LiveAnswer(type, NoApplication, TRUE)
        IN  IsRowless(answer) /\ answer.application = NoApplication
    BY <1>4 DEF IsRowless, LiveAnswer, Replies, MarketRoutes
  <2> QED
    BY <1>1, <1>4, <2>1, AnsweredWithoutRows
<1>5. ASSUME NEW outcome \in {"down", "invalid"} \cup Applications,
             ApplicationStatus(r, outcome)
      PROVE  RequestInv(r)'
  <2>1. CASE outcome \in Applications /\ outcome = principal[r].application
            /\ Send(r, LiveAnswer("application_status", outcome, FALSE))
    BY <1>3, <2>1
  <2>2. CASE Send(r, Error(500)) \/ Send(r, Error(503))
    BY <1>2, <2>2
  <2>3. \/ Send(r, Error(500)) \/ Send(r, Error(503))
        \/ /\ outcome \in Applications /\ outcome = principal[r].application
           /\ Send(r, LiveAnswer("application_status", outcome, FALSE))
    BY <1>5, Zenon DEF ApplicationStatus
  <2> QED
    BY <2>1, <2>2, <2>3, Zenon
<1>6. ASSUME NEW outcome \in {"found", "unknown", "down", "invalid"}, Market(r, outcome)
      PROVE  RequestInv(r)'
  <2>1. Route(ask[r].question) \in MarketRoutes
    BY <1>6 DEF Market, RequestInv
  <2>2. CASE Send(r, LiveAnswer(Route(ask[r].question), NoApplication, TRUE))
    BY <1>4, <2>1, <2>2
  <2>3. CASE Send(r, NoAnswer) \/ Send(r, Error(500)) \/ Send(r, Error(503))
    BY <1>2, <2>3
  <2>4. \/ Send(r, NoAnswer) \/ Send(r, Error(500)) \/ Send(r, Error(503))
        \/ Send(r, LiveAnswer(Route(ask[r].question), NoApplication, TRUE))
    BY <1>6, Zenon DEF Market
  <2> QED
    BY <2>2, <2>3, <2>4
<1>7. CASE SearchFails(r) \/ SearchNothing(r)
  BY <1>2, <1>7 DEF SearchFails, SearchNothing
<1> QED
  BY <1>5, <1>6, <1>7

\* BEGIN leaves a request as it is, but for what it awaits.
LEMMA BeginSearchKeeps ==
    ASSUME TypeOK, NEW r \in Requests, RequestInv(r), BeginSearch(r)
    PROVE  RequestInv(r)'
<1>1. phase[r] = "search" /\ phase'[r] = "select" /\ reply[r] = NoReply
  BY DEF BeginSearch, Await, RequestInv, TypeOK
<1>2. UNCHANGED <<ask, principal, evidence, reply>>
  BY DEF BeginSearch, Await
<1>3. Cited(r)' = Cited(r) /\ IsEntitled(r)' /\ ask[r] \in Asks
  BY <1>1, <1>2 DEF Cited, IsEntitled, RequestInv, Identified
<1> QED
  BY <1>1, <1>2, <1>3 DEF RequestInv

\* A search hands its caller only rows that the caller may see.
LEMMA SelectKeeps ==
    ASSUME TypeOK, NEW r \in Requests, RequestInv(r), Select(r)
    PROVE  RequestInv(r)'
<1>1. phase[r] = "select" /\ reply[r] = NoReply /\ IsEntitled(r) /\ ask' = ask
      /\ principal' = principal
  BY DEF Select, RequestInv, Identified
<1>2. PICK rows \in Rankings(r) :
         IF rows = <<>> THEN Send(r, NoAnswer) /\ UNCHANGED evidence
         ELSE /\ evidence' = [evidence EXCEPT ![r] = rows]
              /\ IF Synthesis /\ ~IsConditional(rows)
                 THEN Await(r, "synthesis")
                 ELSE Send(r, PolicyAnswer(rows, {rows[1]}))
  BY DEF Select
<1>3. CASE rows = <<>>
  <2>1. IsRowless(NoAnswer) /\ NoAnswer.application = NoApplication
    BY CannedAnswers
  <2> QED
    BY <1>1, <1>2, <1>3, <2>1, AnsweredWithoutRows
<1>4. CASE rows # <<>>
  <2>1. rows \in Seq(Rows) /\ 1 \in DOMAIN rows /\ {rows[1]} \in SUBSET Rows
    BY <1>4, SearchResults
  <2>2. evidence'[r] = rows
    BY <1>2, <1>4 DEF TypeOK
  <2>3. \A i \in DOMAIN rows : rows[i][1][1] = Internal => ask[r].token = "staff"
    BY <1>1, SearchResults, HitsAreEntitled
  <2>4. CASE Await(r, "synthesis")
    <3>1. phase'[r] = "synthesis" /\ reply'[r] = NoReply
      BY <1>1, <2>4 DEF Await, TypeOK
    <3>2. \A row \in Cited(r)' : \E i \in DOMAIN rows : row = rows[i]
      BY <2>2, <3>1 DEF Cited
    <3>3. IsEntitled(r)' /\ ask'[r] \in Asks
      BY <1>1 DEF IsEntitled, RequestInv
    <3> QED
      BY <1>1, <1>4, <2>2, <2>3, <3>1, <3>2, <3>3 DEF RequestInv
  <2>5. CASE Send(r, PolicyAnswer(rows, {rows[1]}))
    <3>1. phase'[r] = "done" /\ reply'[r] = PolicyAnswer(rows, {rows[1]})
      BY <2>5 DEF Send, TypeOK
    <3>2. /\ reply'[r].rows = rows /\ reply'[r].quoted = {rows[1]}
          /\ reply'[r].application = NoApplication
      BY <2>1, <3>1, PolicyAnswerTypes
    <3>3. \A row \in Cited(r)' : \E i \in DOMAIN rows : row = rows[i]
      BY <2>1, <2>2, <3>2 DEF Cited
    <3> QED
      BY <1>1, <2>3, <3>1, <3>2, <3>3 DEF RequestInv, Identified
  <2> QED
    BY <1>2, <1>4, <2>4, <2>5
<1> QED
  BY <1>3, <1>4

\* Synthesis answers with the rows that were found, from all or the first of
\* their texts, or raises.
LEMMA SynthesizeSends ==
    ASSUME TypeOK, NEW r \in Requests, NEW outcome, Synthesize(r, outcome), RequestInv(r)
    PROVE  /\ phase[r] = "synthesis" /\ evidence[r] \in Seq(Rows) /\ evidence[r] # <<>>
           /\ UNCHANGED <<base, ask, principal, window, evidence>>
           /\ \/ Send(r, Error(500))
              \/ \E quoted \in Quotes(evidence[r]) : Send(r, PolicyAnswer(evidence[r], quoted))
<1>1. /\ phase[r] = "synthesis" /\ evidence[r] \in Seq(Rows) /\ evidence[r] # <<>>
      /\ UNCHANGED <<base, ask, principal, window, evidence>>
  BY DEF TypeOK, Synthesize, RequestInv
<1>2. \/ Send(r, Error(500))
      \/ Send(r, PolicyAnswer(evidence[r],
                   {evidence[r][i] : i \in {j \in DOMAIN evidence[r] : j <= EvidenceLimit}}))
      \/ Send(r, PolicyAnswer(evidence[r], {evidence[r][1]}))
  BY Zenon DEF Synthesize
<1> QED
  BY <1>1, <1>2, Zenon DEF Quotes

\* Those texts are among the rows.
LEMMA QuoteFacts ==
    ASSUME NEW rows \in Seq(Rows), rows # <<>>, NEW quoted \in Quotes(rows)
    PROVE  /\ quoted \in SUBSET Rows
           /\ \A row \in quoted : \E i \in DOMAIN rows : row = rows[i]
<1>1. 1 \in DOMAIN rows
  OBVIOUS
<1>2. \A row \in quoted : \E i \in DOMAIN rows : row = rows[i]
  BY <1>1 DEF Quotes
<1> QED
  BY <1>2

\* Synthesis, or its fallback, uses only the rows that were found.
LEMMA SynthesizeKeeps ==
    ASSUME TypeOK, NEW r \in Requests, NEW outcome \in Outcomes, Synthesize(r, outcome),
           RequestInv(r)
    PROVE  RequestInv(r)'
<1> DEFINE rows == evidence[r]
<1>1. rows \in Seq(Rows) /\ rows # <<>> /\ evidence' = evidence /\ ask' = ask
  BY SynthesizeSends
<1>2. CASE Send(r, Error(500))
  BY <1>1, <1>2, CannedAnswers, AnsweredWithoutRows
<1>3. ASSUME NEW quoted \in Quotes(rows), Send(r, PolicyAnswer(rows, quoted))
      PROVE  RequestInv(r)'
  <2>1. quoted \in SUBSET Rows /\ \A row \in quoted : \E i \in DOMAIN rows : row = rows[i]
    BY <1>1, <1>3, QuoteFacts
  <2>2. phase'[r] = "done" /\ reply'[r] = PolicyAnswer(rows, quoted)
    BY <1>3 DEF Send, TypeOK
  <2>3. /\ reply'[r].rows = rows /\ reply'[r].quoted = quoted
        /\ reply'[r].application = NoApplication
    BY <1>1, <2>1, <2>2, PolicyAnswerTypes
  <2>4. \A row \in Cited(r)' : row \in Cited(r)
    BY <1>1, <2>1, <2>2, <2>3 DEF Cited
  <2> QED
    BY <1>1, <2>2, <2>3, <2>4 DEF RequestInv, Identified
<1> QED
  BY <1>2, <1>3, SynthesizeSends

-----------------------------------------------------------------------------
(* The theorems                                                            *)

\* Every step keeps the invariant of every request.
LEMMA RequestsKeep == AnswerInv /\ [Next]_vars => \A r \in Requests : RequestInv(r)'
<1> SUFFICES ASSUME AnswerInv, [Next]_vars, NEW q \in Requests PROVE RequestInv(q)'
  OBVIOUS
<1>0. TypeOK /\ \A r \in Requests : RequestInv(r)
  BY DEF AnswerInv
<1>1. ASSUME NEW r \in Requests, NEW a \in Asks, Receive(r, a) PROVE RequestInv(q)'
  <2>1. CASE q = r
    BY <1>0, <1>1, <2>1, ReceiveKeeps
  <2>2. CASE q # r
    <3>1. /\ phase'[q] = phase[q] /\ ask'[q] = ask[q] /\ principal'[q] = principal[q]
          /\ evidence'[q] = evidence[q] /\ reply'[q] = reply[q]
      BY <1>0, <1>1, <2>2 DEF Receive, Dispatch, Await, Send, TypeOK
    <3> QED BY <1>0, <3>1, Untouched
  <2> QED BY <2>1, <2>2
<1>2. ASSUME NEW r \in Requests, Serve(r) PROVE RequestInv(q)'
  <2>1. CASE q = r
    BY <1>0, <1>2, <2>1, UserInfoKeeps, LookupsKeep, SelectKeeps, BeginSearchKeeps,
       SynthesizeKeeps DEF Serve, ServeTimed, ServeFromDatabase, Outcomes
  <2>2. CASE q # r
    <3>1. /\ phase'[q] = phase[q] /\ ask'[q] = ask[q] /\ principal'[q] = principal[q]
          /\ evidence'[q] = evidence[q] /\ reply'[q] = reply[q]
      <4>1. CASE \E outcome \in {"answers", "down", "garbled"} : UserInfo(r, outcome)
        BY <1>0, <2>2, <4>1 DEF UserInfo, Dispatch, Await, Send, TypeOK
      <4>2. CASE \E outcome \in {"down", "invalid"} \cup Applications :
                    ApplicationStatus(r, outcome)
        BY <1>0, <2>2, <4>2, ZenonT(60) DEF ApplicationStatus, Send, TypeOK
      <4>3. CASE \E outcome \in {"found", "unknown", "down", "invalid"} : Market(r, outcome)
        <5>1. \E answer : Send(r, answer) /\ UNCHANGED <<ask, principal, evidence>>
          BY <4>3, Zenon DEF Market
        <5> QED
          BY <1>0, <2>2, <5>1 DEF Send, TypeOK
      <4>4. CASE Select(r)
        BY <1>0, <2>2, <4>4 DEF Select, Await, Send, TypeOK
      <4>5. CASE SearchFails(r) \/ SearchNothing(r)
        BY <1>0, <2>2, <4>5, ZenonT(60) DEF SearchFails, SearchNothing, Send, TypeOK
      <4>6. CASE \E outcome \in Outcomes : Synthesize(r, outcome)
        <5>1. \E answer : Send(r, answer) /\ UNCHANGED <<ask, principal, evidence>>
          BY <4>6, Zenon DEF Synthesize
        <5>2. phase[r] = "synthesis"
          BY <4>6, Zenon DEF Synthesize
        <5> QED BY <1>0, <2>2, <5>1, <5>2 DEF Send, TypeOK
      <4>7. CASE BeginSearch(r)
        BY <1>0, <2>2, <4>7 DEF BeginSearch, Await, TypeOK
      <4> QED BY <1>2, <4>1, <4>2, <4>3, <4>4, <4>5, <4>6, <4>7
           DEF Serve, ServeTimed, ServeFromDatabase, Outcomes
    <3> QED BY <1>0, <3>1, Untouched
  <2> QED BY <2>1, <2>2
<1>3. CASE Ingest
  BY <1>0, <1>3, Untouched DEF Ingest
<1>4. CASE UNCHANGED vars
  BY <1>0, <1>4, Untouched DEF vars
<1> QED
  BY <1>1, <1>2, <1>3, <1>4 DEF Next, Serve

\* No search is under way.
LEMMA NoWindowType == NoWindow \in Windows
BY DEF NoWindow, Windows

\* Every step keeps the types.
LEMMA TypesKeep == AnswerInv /\ [Next]_vars => TypeOK'
<1> SUFFICES ASSUME AnswerInv, [Next]_vars PROVE TypeOK'
  OBVIOUS
<1>0. TypeOK /\ \A r \in Requests : RequestInv(r)
  BY DEF AnswerInv
<1> DEFINE Shared == KB!TypeOK' /\ published' \in 0..MaxPublish /\ configured' \in BOOLEAN
<1>1. ASSUME UNCHANGED base PROVE Shared
  BY <1>0, <1>1 DEF base, TypeOK, KB!TypeOK
<1>2. ASSUME NEW r \in Requests, NEW answer \in Replies, Send(r, answer)
      PROVE  phase' \in [Requests -> Phases] /\ reply' \in [Requests -> Replies \cup {NoReply}]
  BY <1>0, <1>2 DEF Send, TypeOK, Phases
<1>3. ASSUME NEW r \in Requests, NEW awaited \in Phases, Await(r, awaited)
      PROVE  phase' \in [Requests -> Phases] /\ reply' \in [Requests -> Replies \cup {NoReply}]
  BY <1>0, <1>3 DEF Await, TypeOK
<1>4. ASSUME NEW r \in Requests, NEW p \in Principals, NEW a \in Asks, Dispatch(r, p, a)
      PROVE  /\ phase' \in [Requests -> Phases]
             /\ principal' \in [Requests -> Principals \cup {Nobody}]
             /\ reply' \in [Requests -> Replies \cup {NoReply}]
  <2>1. principal' \in [Requests -> Principals \cup {Nobody}]
    BY <1>0, <1>4, DispatchOutcome DEF TypeOK
  <2>2. ASSUME NEW answer \in {NoAnswer, Error(422)}, Send(r, answer)
        PROVE  answer \in Replies
    BY <2>2, CannedAnswers DEF IsRowless
  <2>3. {"status", "market", "search"} \subseteq Phases
    BY DEF Phases
  <2> QED
    BY <1>2, <1>3, <1>4, <2>1, <2>2, <2>3, DispatchOutcome
<1>5. ASSUME NEW status \in {401, 403, 422, 500, 503} PROVE Error(status) \in Replies
  BY <1>5, CannedAnswers DEF IsRowless
<1>6. NoAnswer \in Replies
  BY CannedAnswers DEF IsRowless
<1>7. ASSUME NEW r \in Requests, NEW a \in Asks, Receive(r, a) PROVE TypeOK'
  <2>1. Shared
    BY <1>1, <1>7 DEF Receive
  <2>2. /\ ask' \in [Requests -> Asks \cup {NoAsk}]
        /\ evidence' = evidence /\ window' = window
    BY <1>0, <1>7 DEF Receive, TypeOK
  <2>3. CASE (Send(r, Error(401)) \/ Send(r, Error(403))) /\ UNCHANGED principal
    BY <1>0, <1>2, <1>5, <2>1, <2>2, <2>3 DEF TypeOK
  <2>4. CASE Dispatch(r, [audience |-> "carrier", application |-> a.application], a)
    <3>1. [audience |-> "carrier", application |-> a.application] \in Principals
      BY <1>7 DEF Asks, Principals
    <3> QED BY <1>0, <1>4, <1>7, <2>1, <2>2, <2>4, <3>1 DEF TypeOK
  <2>5. CASE Await(r, "user_info") /\ UNCHANGED principal
    <3>1. "user_info" \in Phases
      BY DEF Phases
    <3> QED BY <1>0, <1>3, <2>1, <2>2, <2>5, <3>1 DEF TypeOK
  <2> QED BY <1>7, <2>3, <2>4, <2>5 DEF Receive
<1>8. ASSUME NEW r \in Requests, NEW answer \in Replies, Send(r, answer),
             UNCHANGED <<base, ask, principal, window, evidence>>
      PROVE  TypeOK'
  BY <1>0, <1>1, <1>2, <1>8 DEF TypeOK
<1>9. ASSUME NEW r \in Requests, NEW outcome \in {"answers", "down", "garbled"},
             UserInfo(r, outcome)
      PROVE  TypeOK'
  <2>1. Shared /\ ask' = ask /\ evidence' = evidence /\ window' = window
    BY <1>1, <1>9 DEF UserInfo
  <2>2. CASE \E status \in {403, 500, 503} : Send(r, Error(status)) /\ UNCHANGED principal
    BY <1>0, <1>2, <1>5, <2>1, <2>2 DEF TypeOK
  <2>3. CASE Dispatch(r, [audience |-> "internal", application |-> NoApplication], ask[r])
    <3>1. [audience |-> "internal", application |-> NoApplication] \in Principals
      BY DEF Principals
    <3>2. ask[r] \in Asks
      BY <1>0, <1>9 DEF UserInfo, RequestInv
    <3> QED BY <1>0, <1>4, <1>9, <2>1, <2>3, <3>1, <3>2 DEF TypeOK
  <2> QED BY <1>9, <2>2, <2>3 DEF UserInfo
<1>10. ASSUME NEW r \in Requests, NEW outcome \in {"down", "invalid"} \cup Applications,
              ApplicationStatus(r, outcome)
       PROVE  TypeOK'
  <2> DEFINE live == LiveAnswer("application_status", outcome, FALSE)
  <2>1. outcome \in Applications => live \in Replies
    BY DEF LiveAnswer, Replies
  <2>2. /\ \/ Send(r, Error(500)) \/ Send(r, Error(503))
           \/ outcome \in Applications /\ Send(r, live)
        /\ UNCHANGED <<base, ask, principal, window, evidence>>
    BY <1>10 DEF ApplicationStatus
  <2> HIDE DEF live
  <2> QED
    BY <1>5, <1>8, <1>10, <2>1, <2>2
<1>11. ASSUME NEW r \in Requests, NEW outcome \in {"found", "unknown", "down", "invalid"},
              Market(r, outcome)
       PROVE  TypeOK'
  <2>1. Route(ask[r].question) \in MarketRoutes
    BY <1>0, <1>11 DEF Market, RequestInv
  <2> DEFINE live == LiveAnswer(Route(ask[r].question), NoApplication, TRUE)
  <2>2. live \in Replies
    BY <2>1 DEF LiveAnswer, Replies, MarketRoutes
  <2>3. \/ Send(r, NoAnswer) \/ Send(r, Error(500)) \/ Send(r, Error(503))
        \/ Send(r, live)
    BY <1>11, Zenon DEF Market
  <2>4. UNCHANGED <<base, ask, principal, window, evidence>>
    BY <1>11, Zenon DEF Market
  <2> HIDE DEF live
  <2> QED
    BY <1>5, <1>6, <1>8, <1>11, <2>2, <2>3, <2>4
<1>12. ASSUME NEW r \in Requests, Select(r) PROVE TypeOK'
  <2>1. /\ Shared /\ ask' = ask /\ principal' = principal
        /\ window' \in [Requests -> Windows]
    BY <1>0, <1>1, <1>12, NoWindowType DEF Select, TypeOK
  <2>2. PICK rows \in Rankings(r) :
           IF rows = <<>> THEN Send(r, NoAnswer) /\ UNCHANGED evidence
           ELSE /\ evidence' = [evidence EXCEPT ![r] = rows]
                /\ IF Synthesis /\ ~IsConditional(rows)
                   THEN Await(r, "synthesis")
                   ELSE Send(r, PolicyAnswer(rows, {rows[1]}))
    BY <1>12 DEF Select
  <2>3. rows \in Seq(Rows)
    BY <1>0, <1>12, SearchResults
  <2>4. evidence' \in [Requests -> Seq(Rows)]
    BY <1>0, <2>2, <2>3 DEF TypeOK
  <2>5. rows # <<>> => PolicyAnswer(rows, {rows[1]}) \in Replies
    <3>1. rows # <<>> => {rows[1]} \in SUBSET Rows
      BY <2>3
    <3> QED BY <2>3, <3>1, PolicyAnswerTypes
  <2>6. "synthesis" \in Phases
    BY DEF Phases
  <2>7. phase' \in [Requests -> Phases] /\ reply' \in [Requests -> Replies \cup {NoReply}]
    BY <1>2, <1>3, <1>6, <1>12, <2>2, <2>5, <2>6
  <2> QED BY <1>0, <2>1, <2>4, <2>7 DEF TypeOK
<1>13. ASSUME NEW r \in Requests, SearchFails(r) \/ SearchNothing(r) PROVE TypeOK'
  <2>1. window' \in [Requests -> Windows]
    BY <1>0, <1>13, NoWindowType DEF SearchFails, SearchNothing, TypeOK
  <2>2. Shared /\ UNCHANGED <<ask, principal, evidence>>
    BY <1>1, <1>13 DEF SearchFails, SearchNothing
  <2>3. Send(r, Error(503)) \/ Send(r, NoAnswer)
    BY <1>13 DEF SearchFails, SearchNothing
  <2> QED BY <1>0, <1>2, <1>5, <1>6, <2>1, <2>2, <2>3 DEF TypeOK
<1>14. ASSUME NEW r \in Requests, NEW outcome \in Outcomes, Synthesize(r, outcome)
       PROVE  TypeOK'
  <2> DEFINE rows == evidence[r]
  <2>1. /\ rows \in Seq(Rows) /\ rows # <<>>
        /\ UNCHANGED <<base, ask, principal, window, evidence>>
        /\ \/ Send(r, Error(500))
           \/ \E quoted \in Quotes(rows) : Send(r, PolicyAnswer(rows, quoted))
    BY <1>0, <1>14, SynthesizeSends
  <2>2. \A quoted \in Quotes(rows) : PolicyAnswer(rows, quoted) \in Replies
    BY <2>1, QuoteFacts, PolicyAnswerTypes
  <2> QED BY <1>5, <1>8, <2>1, <2>2
<1>18. ASSUME NEW r \in Requests, BeginSearch(r) PROVE TypeOK'
  <2>1. [kept |-> Current, seen |-> Current] \in Windows
    BY SameKeys DEF Windows
  <2>2. window' \in [Requests -> Windows]
    BY <1>0, <1>18, <2>1 DEF BeginSearch, TypeOK
  <2>3. "select" \in Phases
    BY DEF Phases
  <2> QED BY <1>0, <1>1, <1>3, <1>18, <2>2, <2>3 DEF BeginSearch, TypeOK
<1>15. CASE Ingest
  <2>1. KB!TypeOK'
    BY <1>0, <1>15, PublishTypes DEF Ingest, TypeOK
  <2>2. published' \in 0..MaxPublish
    BY <1>0, <1>15, ServiceAssumption DEF Ingest, TypeOK
  <2>3. window' \in [Requests -> Windows]
    <3>1. Current' \subseteq Rows
      BY DEF Current, KB!Results, Rows, KB!SourceKeys, SourceKeys, KB!DocumentKeys, DocumentKeys,
             KB!Corpora, Corpora, KB!Public, Public, KB!Internal, Internal
    <3>2. ASSUME NEW r \in Requests
          PROVE  [kept |-> window[r].kept \cap Current', seen |-> window[r].seen \cup Current']
                    \in Windows
      BY <1>0, <3>1 DEF TypeOK, Windows
    <3> QED BY <1>0, <1>15, <3>2 DEF Ingest, TypeOK
  <2> QED BY <1>0, <1>15, <2>1, <2>2, <2>3 DEF Ingest, TypeOK
<1>16. CASE UNCHANGED vars
  <2>1. Shared
    BY <1>1, <1>16 DEF vars
  <2> QED BY <1>0, <1>16, <2>1 DEF vars, TypeOK
<1>17. ASSUME NEW r \in Requests, Serve(r) PROVE TypeOK'
  BY <1>9, <1>10, <1>11, <1>12, <1>13, <1>14, <1>17, <1>18
     DEF Serve, ServeTimed, ServeFromDatabase, Outcomes
<1> QED
  BY <1>7, <1>15, <1>16, <1>17 DEF Next, Serve

\* Nothing is asked for, found or answered at first.
LEMMA InvInitially == Init => AnswerInv
<1> SUFFICES ASSUME Init PROVE AnswerInv
  OBVIOUS
<1>1. KB!TypeOK
  BY SameKeys DEF Init, KB!Init, KB!TypeOK
<1>2. TypeOK
  BY <1>1, NoWindowType, ServiceAssumption DEF Init, TypeOK, Phases
<1>3. ASSUME NEW r \in Requests PROVE RequestInv(r)
  <2>1. Cited(r) = {}
    BY <1>3 DEF Init, Cited
  <2> QED
    BY <1>3, <2>1 DEF Init, RequestInv, Identified
<1> QED
  BY <1>2, <1>3 DEF AnswerInv

\* What a request holds between its awaits is justified by its own token, for
\* any number of requests and of ingests between its steps.
THEOREM AnswerInvariant == Spec => []AnswerInv
<1>1. AnswerInv /\ [Next]_vars => AnswerInv'
  BY TypesKeep, RequestsKeep DEF AnswerInv
<1> QED
  BY InvInitially, <1>1, PTL DEF Spec

\* The state of the service keeps its types.
THEOREM TypeCorrect == Spec => []TypeOK
<1>1. AnswerInv => TypeOK
  BY DEF AnswerInv
<1> QED
  BY AnswerInvariant, <1>1, PTL

\* Internal knowledge reaches a request only if it carries the session token
\* of staff.
THEOREM BoundaryHolds == Spec => []InternalNeedsStaff
<1>1. AnswerInv => InternalNeedsStaff
  BY DEF AnswerInv, RequestInv, InternalNeedsStaff
<1> QED
  BY AnswerInvariant, <1>1, PTL

\* A live status is that of the application named by the caller's capability.
THEOREM ApplicationScope == Spec => []OwnApplicationOnly
<1>1. AnswerInv => OwnApplicationOnly
  BY DEF AnswerInv, RequestInv, OwnApplicationOnly
<1> QED
  BY AnswerInvariant, <1>1, PTL

\* No outage makes the service say that no source answers a question: when it
\* says so after a search, no row that matches and that the caller may see was
\* current from BEGIN to the SELECT, whatever ingests did in between.
THEOREM HonestHandoff == Spec => HandoffIsHonest
<1> DEFINE Honest(r) ==
       /\ reply'[r] # reply[r] /\ reply'[r].type = "handoff"
       /\ configured /\ phase[r] \in {"search", "select"}
       => /\ phase[r] = "select"
          /\ \A row \in window[r].kept :
                \/ row[1][2] \notin ask[r].question.about
                \/ row[1][1] = Internal /\ ask[r].token # "staff"
<1>1. ASSUME AnswerInv, [Next]_vars, NEW r \in Requests PROVE Honest(r)
  <2> SUFFICES ASSUME reply'[r] # reply[r], reply'[r].type = "handoff", configured,
                      phase[r] \in {"search", "select"}
               PROVE  /\ phase[r] = "select"
                      /\ \A row \in window[r].kept :
                            \/ row[1][2] \notin ask[r].question.about
                            \/ row[1][1] = Internal /\ ask[r].token # "staff"
    OBVIOUS
  <2>0. TypeOK /\ IsEntitled(r)
    BY <1>1 DEF AnswerInv, RequestInv, Identified
  <2>1. Select(r) \/ SearchFails(r)
    <3>1. ASSUME NEW q \in Requests, NEW a \in Asks, Receive(q, a) PROVE FALSE
      BY <2>0, <3>1 DEF Receive, Dispatch, Await, Send, TypeOK
    <3>2. ASSUME NEW q \in Requests, Serve(q) PROVE Select(r) \/ SearchFails(r)
      <4>1. CASE \E outcome \in {"answers", "down", "garbled"} : UserInfo(q, outcome)
        BY <2>0, <4>1 DEF UserInfo, Dispatch, Await, Send, TypeOK
      <4>2. CASE \E outcome \in {"down", "invalid"} \cup Applications :
                    ApplicationStatus(q, outcome)
        BY <2>0, <4>2, ZenonT(60) DEF ApplicationStatus, Send, TypeOK
      <4>3. CASE \E outcome \in {"found", "unknown", "down", "invalid"} : Market(q, outcome)
        <5>1. phase[q] = "market" /\ \E answer : Send(q, answer)
          BY <4>3, Zenon DEF Market
        <5> QED BY <2>0, <5>1 DEF Send, TypeOK
      <4>4. CASE Select(q)
        BY <2>0, <4>4 DEF Select, Await, Send, TypeOK
      <4>5. CASE SearchFails(q) \/ SearchNothing(q)
        BY <2>0, <4>5, ZenonT(60) DEF SearchFails, SearchNothing, Send, TypeOK
      <4>6. CASE \E outcome \in Outcomes : Synthesize(q, outcome)
        <5>1. \E answer : Send(q, answer) /\ UNCHANGED <<ask, principal, evidence>>
          BY <4>6, Zenon DEF Synthesize
        <5>2. phase[q] = "synthesis"
          BY <4>6, Zenon DEF Synthesize
        <5> QED BY <2>0, <5>1, <5>2 DEF Send, TypeOK
      <4>7. CASE BeginSearch(q)
        BY <2>0, <4>7 DEF BeginSearch, Await, TypeOK
      <4> QED BY <3>2, <4>1, <4>2, <4>3, <4>4, <4>5, <4>6, <4>7
           DEF Serve, ServeTimed, ServeFromDatabase, Outcomes
    <3> QED
      BY <1>1, <3>1, <3>2 DEF Next, Serve, Ingest, vars
  <2>2. ~SearchFails(r)
    BY <2>0 DEF SearchFails, Send, Error, TypeOK
  <2>3. PICK rows \in Rankings(r) :
           IF rows = <<>> THEN Send(r, NoAnswer) /\ UNCHANGED evidence
           ELSE /\ evidence' = [evidence EXCEPT ![r] = rows]
                /\ IF Synthesis /\ ~IsConditional(rows)
                   THEN Await(r, "synthesis")
                   ELSE Send(r, PolicyAnswer(rows, {rows[1]}))
    BY <2>1, <2>2 DEF Select
  <2>4. rows = <<>>
    <3>1. ~Await(r, "synthesis")
      BY DEF Await
    <3>2. ~Send(r, PolicyAnswer(rows, {rows[1]}))
      BY <2>0 DEF Send, PolicyAnswer, TypeOK
    <3> QED BY <2>3, <3>1, <3>2
  <2>5. Hits(r, window[r].kept) = {} /\ phase[r] = "select"
    BY <2>0, <2>1, <2>2, <2>4, SearchResults DEF Select
  <2>6. ASSUME NEW row \in window[r].kept, row[1][2] \in ask[r].question.about
        PROVE  row[1][1] = Internal /\ ask[r].token # "staff"
    <3>1. row[1][1] \in {Public, Internal}
      BY <2>0 DEF TypeOK, Windows, Rows, DocumentKeys, Corpora
    <3>2. row[1][1] \notin SearchableCorpora(principal[r])
      BY <2>5, <2>6 DEF Hits
    <3> QED
      BY <2>0, <3>1, <3>2 DEF SearchableCorpora, IsEntitled
  <2> QED
    BY <2>5, <2>6
<1>2. AnswerInv /\ [Next]_vars => [\A r \in Requests : Honest(r)]_vars
  BY <1>1
<1>3. Spec => [][\A r \in Requests : Honest(r)]_vars
  BY AnswerInvariant, <1>2, PTL DEF Spec
<1> QED
  BY <1>3 DEF HandoffIsHonest

-----------------------------------------------------------------------------
(* What an answer rests on                                                 *)

\* The answers that the service can send.
IsFailure(answer) ==
    answer = NoAnswer \/ \E status \in {401, 403, 422, 500, 503} : answer = Error(status)

IsLive(answer) ==
    \/ \E application \in Applications :
          answer = LiveAnswer("application_status", application, FALSE)
    \/ \E type \in MarketRoutes : answer = LiveAnswer(type, NoApplication, TRUE)

IsPolicy(answer, synthesized) ==
    \E rows \in Seq(Rows) :
        /\ rows # <<>>
        /\ \/ answer = PolicyAnswer(rows, {rows[1]})
           \/ /\ synthesized
              /\ answer = PolicyAnswer(rows,
                     {rows[i] : i \in {j \in DOMAIN rows : j <= EvidenceLimit}})

\* The steps that answer a request from what was found.
Answers(r) == Select(r) \/ \E outcome \in Outcomes : Synthesize(r, outcome)

\* A request is sent one of them.
LEMMA Sent ==
    ASSUME TypeOK, NEW q \in Requests, NEW answer, Send(q, answer), NEW r \in Requests
    PROVE  reply'[r] = reply[r] \/ (r = q /\ reply'[r] = answer)
BY DEF Send, TypeOK

\* A dispatched request is at most refused or handed off.
LEMMA DispatchSends ==
    ASSUME TypeOK, NEW q \in Requests, NEW p \in Principals, NEW a \in Asks, Dispatch(q, p, a),
           NEW r \in Requests
    PROVE  reply'[r] = reply[r] \/ IsFailure(reply'[r])
<1>1. CASE \E awaited \in {"status", "market", "search"} : Await(q, awaited)
  BY <1>1 DEF Await
<1>2. CASE \E answer \in {NoAnswer, Error(422)} : Send(q, answer)
  BY <1>2, Sent DEF IsFailure
<1> QED BY <1>1, <1>2, DispatchOutcome

\* A reply is one of the answers; policy answers are sent by the search and the
\* synthesis of the request, and only an answer that was awaited from the model
\* is made of more than its first row.
LEMMA ReplySteps ==
    ASSUME AnswerInv, [Next]_vars, NEW r \in Requests, reply'[r] # reply[r]
    PROVE  \/ IsFailure(reply'[r])
           \/ IsLive(reply'[r])
           \/ IsPolicy(reply'[r], phase[r] = "synthesis") /\ Answers(r)
<1> DEFINE Goal == \/ IsFailure(reply'[r])
                   \/ IsLive(reply'[r])
                   \/ IsPolicy(reply'[r], phase[r] = "synthesis") /\ Answers(r)
<1>0. TypeOK /\ \A q \in Requests : RequestInv(q)
  BY DEF AnswerInv
<1>1. ASSUME NEW q \in Requests, NEW answer, Send(q, answer), IsFailure(answer) \/ IsLive(answer)
      PROVE  Goal
  BY <1>0, <1>1, Sent
<1>2. ASSUME NEW q \in Requests, NEW a \in Asks, Receive(q, a) PROVE Goal
  <2>1. CASE \E status \in {401, 403} : Send(q, Error(status))
    BY <1>1, <2>1 DEF IsFailure
  <2>2. CASE Dispatch(q, [audience |-> "carrier", application |-> a.application], a)
    <3>1. [audience |-> "carrier", application |-> a.application] \in Principals
      BY DEF Asks, Principals
    <3> QED BY <1>0, <2>2, <3>1, DispatchSends
  <2>3. CASE Await(q, "user_info")
    BY <2>3 DEF Await
  <2> QED BY <1>2, <2>1, <2>2, <2>3 DEF Receive
<1>3. ASSUME NEW q \in Requests, NEW outcome \in {"answers", "down", "garbled"},
             UserInfo(q, outcome)
      PROVE  Goal
  <2>1. CASE \E status \in {403, 500, 503} : Send(q, Error(status))
    BY <1>1, <2>1 DEF IsFailure
  <2>2. CASE Dispatch(q, [audience |-> "internal", application |-> NoApplication], ask[q])
    <3>1. [audience |-> "internal", application |-> NoApplication] \in Principals
      BY DEF Principals
    <3>2. ask[q] \in Asks
      BY <1>0, <1>3 DEF UserInfo, RequestInv
    <3> QED BY <1>0, <2>2, <3>1, <3>2, DispatchSends
  <2> QED BY <1>3, <2>1, <2>2 DEF UserInfo
<1>4. ASSUME NEW q \in Requests, NEW outcome \in {"down", "invalid"} \cup Applications,
             ApplicationStatus(q, outcome)
      PROVE  Goal
  <2>1. \/ Send(q, Error(503)) \/ Send(q, Error(500))
        \/ outcome \in Applications
             /\ Send(q, LiveAnswer("application_status", outcome, FALSE))
    BY <1>4, Zenon DEF ApplicationStatus
  <2>2. IsFailure(Error(503)) /\ IsFailure(Error(500))
    BY DEF IsFailure
  <2>3. outcome \in Applications => IsLive(LiveAnswer("application_status", outcome, FALSE))
    BY DEF IsLive
  <2> QED BY <1>1, <2>1, <2>2, <2>3, Zenon
<1>5. ASSUME NEW q \in Requests, NEW outcome \in {"found", "unknown", "down", "invalid"},
             Market(q, outcome)
      PROVE  Goal
  <2>1. \/ Send(q, NoAnswer) \/ Send(q, Error(500)) \/ Send(q, Error(503))
        \/ Send(q, LiveAnswer(Route(ask[q].question), NoApplication, TRUE))
    BY <1>5, Zenon DEF Market
  <2>2. Route(ask[q].question) \in MarketRoutes
    BY <1>0, <1>5 DEF Market, RequestInv
  <2>3. IsFailure(NoAnswer) /\ IsFailure(Error(503)) /\ IsFailure(Error(500))
    BY DEF IsFailure
  <2>4. IsLive(LiveAnswer(Route(ask[q].question), NoApplication, TRUE))
    BY <2>2 DEF IsLive
  <2> QED BY <1>1, <2>1, <2>3, <2>4, Zenon
<1>6. ASSUME NEW q \in Requests, Select(q) PROVE Goal
  <2>1. PICK rows \in Rankings(q) :
           \/ rows = <<>> /\ Send(q, NoAnswer)
           \/ rows # <<>> /\ Await(q, "synthesis")
           \/ rows # <<>> /\ Send(q, PolicyAnswer(rows, {rows[1]}))
    BY <1>6 DEF Select
  <2>2. rows \in Seq(Rows)
    BY <1>0, <1>6, SearchResults
  <2>3. CASE rows = <<>> /\ Send(q, NoAnswer)
    BY <1>1, <2>3 DEF IsFailure
  <2>4. CASE rows # <<>> /\ Send(q, PolicyAnswer(rows, {rows[1]}))
    BY <1>0, <1>6, <2>2, <2>4, Sent DEF IsPolicy, Answers
  <2> QED BY <2>1, <2>3, <2>4 DEF Await
<1>7. ASSUME NEW q \in Requests, SearchFails(q) \/ SearchNothing(q) PROVE Goal
  BY <1>1, <1>7 DEF SearchFails, SearchNothing, IsFailure
<1>8. ASSUME NEW q \in Requests, NEW outcome \in Outcomes, Synthesize(q, outcome) PROVE Goal
  <2> DEFINE rows == evidence[q]
  <2>1. /\ rows \in Seq(Rows) /\ rows # <<>> /\ phase[q] = "synthesis"
        /\ \/ Send(q, Error(500))
           \/ \E quoted \in Quotes(rows) : Send(q, PolicyAnswer(rows, quoted))
    BY <1>0, <1>8, SynthesizeSends
  <2>2. CASE Send(q, Error(500))
    BY <1>1, <2>2 DEF IsFailure
  <2>3. ASSUME NEW quoted \in Quotes(rows), Send(q, PolicyAnswer(rows, quoted)) PROVE Goal
    <3>1. IsPolicy(PolicyAnswer(rows, quoted), TRUE)
      BY <2>1, <2>3, Zenon DEF IsPolicy, Quotes
    <3>2. Answers(q)
      BY <1>8 DEF Answers
    <3> QED BY <1>0, <2>1, <2>3, <3>1, <3>2, Sent
  <2> QED BY <2>1, <2>2, <2>3
<1>9. CASE Ingest \/ UNCHANGED vars
  BY <1>9 DEF Ingest, vars
<1>10. ASSUME NEW q \in Requests, BeginSearch(q) PROVE Goal
  BY <1>10 DEF BeginSearch, Await
<1>11. ASSUME NEW q \in Requests, Serve(q) PROVE Goal
  BY <1>3, <1>4, <1>5, <1>6, <1>7, <1>8, <1>11, <1>10
     DEF Serve, ServeTimed, ServeFromDatabase, Outcomes
<1> QED BY <1>2, <1>9, <1>11 DEF Next, Serve

\* Each of the answers rests on what it cites or shows.
LEMMA AnswersRest ==
    ASSUME NEW answer, IsFailure(answer) \/ IsLive(answer) \/ \E b \in BOOLEAN : IsPolicy(answer, b)
    PROVE  /\ answer.quoted \subseteq {answer.rows[i] : i \in DOMAIN answer.rows}
           /\ answer.status = 200 =>
                (answer.type # "handoff" <=>
                    answer.quoted # {} \/ answer.market \/ answer.application # NoApplication)
<1>1. CASE IsFailure(answer)
  BY <1>1 DEF IsFailure, NoAnswer, Error
<1>2. CASE IsLive(answer)
  BY <1>2, ServiceAssumption DEF IsLive, LiveAnswer, MarketRoutes
<1>3. CASE \E b \in BOOLEAN : IsPolicy(answer, b)
  <2>1. PICK rows \in Seq(Rows) :
           /\ rows # <<>>
           /\ \/ answer = PolicyAnswer(rows, {rows[1]})
              \/ answer = PolicyAnswer(rows,
                     {rows[i] : i \in {j \in DOMAIN rows : j <= EvidenceLimit}})
    BY <1>3 DEF IsPolicy
  <2>2. 1 \in DOMAIN rows /\ 1 <= EvidenceLimit
    BY <2>1, ServiceAssumption
  <2>3. /\ answer.rows = rows /\ answer.type # "handoff"
        /\ answer.quoted # {} /\ answer.quoted \subseteq {rows[i] : i \in DOMAIN rows}
    BY <2>1, <2>2 DEF PolicyAnswer
  <2> QED BY <2>3
<1> QED BY <1>1, <1>2, <1>3

\* Every text that an answer is made of is cited, and an answer is a handoff
\* exactly when nothing supports it, whatever fails and however it was routed.
THEOREM EvidenceHolds == Spec => []AnswersRestOnEvidence
<1>1. Init => AnswersRestOnEvidence
  BY DEF Init, AnswersRestOnEvidence
<1>2. AnswerInv /\ [Next]_vars /\ AnswersRestOnEvidence => AnswersRestOnEvidence'
  <2> SUFFICES ASSUME AnswerInv, [Next]_vars, AnswersRestOnEvidence,
                      NEW r \in Requests, reply'[r] # NoReply
               PROVE  /\ reply'[r].quoted
                            \subseteq {reply'[r].rows[i] : i \in DOMAIN reply'[r].rows}
                      /\ reply'[r].status = 200 =>
                            (reply'[r].type # "handoff" <=>
                                reply'[r].quoted # {} \/ reply'[r].market
                                    \/ reply'[r].application # NoApplication)
    BY DEF AnswersRestOnEvidence
  <2>1. CASE reply'[r] = reply[r]
    BY <2>1 DEF AnswersRestOnEvidence
  <2>2. CASE reply'[r] # reply[r]
    BY <2>2, ReplySteps, AnswersRest
  <2> QED BY <2>1, <2>2
<1> QED
  BY <1>1, <1>2, AnswerInvariant, PTL DEF Spec

\* Where synthesis is not configured an answer is its first row alone, so a
\* qualified text is never given as unconditional guidance.
THEOREM QualifiedWithoutSynthesis ==
    ASSUME Synthesis = FALSE PROVE Spec => []QualifiedIsConditional
<1> DEFINE NoneAwaited == \A r \in Requests : phase[r] # "synthesis"
<1>1. Init => NoneAwaited /\ QualifiedIsConditional
  BY DEF Init, QualifiedIsConditional
<1>2. AnswerInv /\ [Next]_vars /\ NoneAwaited => NoneAwaited'
  <2> SUFFICES ASSUME AnswerInv, [Next]_vars, NoneAwaited, NEW r \in Requests
               PROVE  phase'[r] # "synthesis"
    OBVIOUS
  <2>0. TypeOK /\ \A q \in Requests : RequestInv(q)
    BY DEF AnswerInv
  <2>1. ASSUME NEW q \in Requests, NEW answer, Send(q, answer) PROVE phase'[r] # "synthesis"
    BY <2>0, <2>1 DEF Send, TypeOK
  <2>2. ASSUME NEW q \in Requests, NEW awaited \in {"user_info", "status", "market", "search", "select"},
               Await(q, awaited)
        PROVE  phase'[r] # "synthesis"
    BY <2>0, <2>2 DEF Await, TypeOK
  <2>3. ASSUME NEW q \in Requests, NEW p \in Principals, NEW a \in Asks, Dispatch(q, p, a)
        PROVE  phase'[r] # "synthesis"
    BY <2>1, <2>2, <2>3, DispatchOutcome
  <2>4. ASSUME NEW q \in Requests, NEW a \in Asks, Receive(q, a)
        PROVE  phase'[r] # "synthesis"
    <3>1. [audience |-> "carrier", application |-> a.application] \in Principals
      BY DEF Asks, Principals
    <3> QED BY <2>1, <2>2, <2>3, <2>4, <3>1, Zenon DEF Receive
  <2>5. ASSUME NEW q \in Requests, Serve(q) PROVE phase'[r] # "synthesis"
    <3>1. ASSUME NEW outcome, UserInfo(q, outcome) PROVE phase'[r] # "synthesis"
      <4>1. [audience |-> "internal", application |-> NoApplication] \in Principals
        BY DEF Principals
      <4>2. ask[q] \in Asks
        BY <2>0, <3>1 DEF UserInfo, RequestInv
      <4> QED BY <2>1, <2>3, <3>1, <4>1, <4>2, Zenon DEF UserInfo
    <3>2. ASSUME NEW outcome, ApplicationStatus(q, outcome) PROVE phase'[r] # "synthesis"
      BY <2>1, <3>2, Zenon DEF ApplicationStatus
    <3>3. ASSUME NEW outcome, Market(q, outcome) PROVE phase'[r] # "synthesis"
      BY <2>1, <3>3, Zenon DEF Market
    <3>4. ASSUME Select(q) PROVE phase'[r] # "synthesis"
      BY <2>1, <3>4, Zenon DEF Select
    <3>5. ASSUME SearchFails(q) \/ SearchNothing(q) PROVE phase'[r] # "synthesis"
      BY <2>1, <3>5, Zenon DEF SearchFails, SearchNothing
    <3>7. ASSUME BeginSearch(q) PROVE phase'[r] # "synthesis"
      BY <2>2, <3>7, Zenon DEF BeginSearch
    <3>6. ASSUME NEW outcome \in Outcomes, Synthesize(q, outcome) PROVE phase'[r] # "synthesis"
      BY <2>1, <3>6, Zenon DEF Synthesize
    <3> QED BY <2>5, <3>1, <3>2, <3>3, <3>4, <3>5, <3>6, <3>7
           DEF Serve, ServeTimed, ServeFromDatabase, Outcomes
  <2> QED BY <2>4, <2>5 DEF Next, Serve, Ingest, vars
<1>3. AnswerInv /\ [Next]_vars /\ NoneAwaited /\ QualifiedIsConditional => QualifiedIsConditional'
  <2> SUFFICES ASSUME AnswerInv, [Next]_vars, NoneAwaited, QualifiedIsConditional,
                      NEW r \in Requests, reply'[r] # NoReply,
                      NEW row \in reply'[r].quoted, row[1][2] \in Qualified
               PROVE  reply'[r].confidence = "conditional"
    BY DEF QualifiedIsConditional
  <2>1. CASE reply'[r] = reply[r]
    BY <2>1 DEF QualifiedIsConditional
  <2>2. CASE reply'[r] # reply[r]
    <3>1. ~IsFailure(reply'[r]) /\ ~IsLive(reply'[r])
      <4>1. ASSUME NEW answer, IsFailure(answer) PROVE answer.quoted = {}
        BY <4>1 DEF IsFailure, NoAnswer, Error
      <4>2. ASSUME NEW answer, IsLive(answer) PROVE answer.quoted = {}
        BY <4>2 DEF IsLive, LiveAnswer
      <4> QED BY <4>1, <4>2
    <3>2. PICK rows \in Seq(Rows) : reply'[r] = PolicyAnswer(rows, {rows[1]})
      BY <2>2, <3>1, ReplySteps DEF IsPolicy
    <3> QED BY <3>2 DEF PolicyAnswer, IsConditional
  <2> QED BY <2>1, <2>2
<1> QED
  BY <1>1, <1>2, <1>3, AnswerInvariant, PTL DEF Spec

-----------------------------------------------------------------------------
(* Where the cited rows come from                                          *)

\* Only its own search changes what a request has found.
LEMMA EvidenceSteps ==
    ASSUME AnswerInv, [Next]_vars, NEW r \in Requests, ~Select(r)
    PROVE  evidence'[r] = evidence[r]
<1>0. TypeOK
  BY DEF AnswerInv
<1>1. ASSUME NEW q \in Requests, Serve(q) PROVE evidence'[r] = evidence[r]
  <2>1. ASSUME NEW outcome, UserInfo(q, outcome) PROVE evidence'[r] = evidence[r]
    BY <2>1 DEF UserInfo
  <2>2. ASSUME NEW outcome, ApplicationStatus(q, outcome) PROVE evidence'[r] = evidence[r]
    BY <2>2, Zenon DEF ApplicationStatus
  <2>3. ASSUME NEW outcome, Market(q, outcome) PROVE evidence'[r] = evidence[r]
    BY <2>3, Zenon DEF Market
  <2>4. ASSUME q # r, Select(q) PROVE evidence'[r] = evidence[r]
    BY <1>0, <2>4 DEF Select, TypeOK
  <2>5. ASSUME SearchFails(q) \/ SearchNothing(q) \/ BeginSearch(q)
        PROVE  evidence'[r] = evidence[r]
    BY <2>5 DEF SearchFails, SearchNothing, BeginSearch
  <2>6. ASSUME NEW outcome, Synthesize(q, outcome) PROVE evidence'[r] = evidence[r]
    BY <2>6, Zenon DEF Synthesize
  <2> QED BY <1>1, <2>1, <2>2, <2>3, <2>4, <2>5, <2>6
         DEF Serve, ServeTimed, ServeFromDatabase, Outcomes
<1> QED
  BY <1>1 DEF Next, Serve, Receive, Ingest, vars

\* A request comes to cite only what its own search has found between BEGIN and
\* the SELECT; neither a later ingest nor the model adds a row.
LEMMA CitedSteps ==
    ASSUME AnswerInv, [Next]_vars, NEW r \in Requests, NEW row \in Cited(r)'
    PROVE  row \in Cited(r) \/ (phase[r] = "select" /\ row \in Hits(r, window[r].seen))
<1>0. TypeOK /\ RequestInv(r)
  BY DEF AnswerInv
<1>1. CASE Select(r)
  <2>1. PICK rows \in Rankings(r) :
           IF rows = <<>> THEN Send(r, NoAnswer) /\ UNCHANGED evidence
           ELSE /\ evidence' = [evidence EXCEPT ![r] = rows]
                /\ IF Synthesis /\ ~IsConditional(rows)
                   THEN Await(r, "synthesis")
                   ELSE Send(r, PolicyAnswer(rows, {rows[1]}))
    BY <1>1 DEF Select
  <2>2. phase[r] = "select" /\ reply[r] = NoReply
    BY <1>0, <1>1 DEF Select, RequestInv
  <2>3. CASE rows = <<>>
    <3>1. reply'[r] = NoAnswer /\ evidence' = evidence
      BY <1>0, <2>1, <2>3 DEF Send, TypeOK
    <3> QED BY <3>1 DEF Cited, NoAnswer
  <2>4. CASE rows # <<>>
    <3>1. /\ evidence'[r] = rows /\ 1 \in DOMAIN rows
          /\ \A i \in DOMAIN rows : rows[i] \in Hits(r, window[r].seen)
      BY <1>0, <2>1, <2>4, SearchResults DEF TypeOK
    <3>2. reply'[r] = NoReply \/ reply'[r] = PolicyAnswer(rows, {rows[1]})
      BY <1>0, <2>1, <2>2, <2>4 DEF Send, Await, TypeOK
    <3>3. \E i \in DOMAIN rows : row = rows[i]
      BY <3>1, <3>2 DEF Cited, PolicyAnswer
    <3> QED BY <2>2, <3>1, <3>3
  <2> QED BY <2>3, <2>4
<1>2. CASE ~Select(r)
  <2>1. evidence'[r] = evidence[r]
    BY <1>2, EvidenceSteps
  <2>2. CASE reply'[r] = reply[r]
    BY <2>1, <2>2 DEF Cited
  <2>3. CASE IsFailure(reply'[r]) \/ IsLive(reply'[r])
    <3>1. ASSUME NEW answer, IsFailure(answer) \/ IsLive(answer)
          PROVE  answer.rows = <<>> /\ answer.quoted = {}
      BY <3>1 DEF IsFailure, IsLive, NoAnswer, Error, LiveAnswer
    <3>2. reply'[r].rows = <<>> /\ reply'[r].quoted = {}
      BY <2>3, <3>1
    <3> QED BY <2>1, <3>2 DEF Cited
  <2>4. ASSUME NEW outcome \in Outcomes, Synthesize(r, outcome), ~IsFailure(reply'[r])
        PROVE  row \in Cited(r)
    <3> DEFINE rows == evidence[r]
    <3>1. /\ rows \in Seq(Rows) /\ rows # <<>>
          /\ \/ Send(r, Error(500))
             \/ \E quoted \in Quotes(rows) : Send(r, PolicyAnswer(rows, quoted))
      BY <1>0, <2>4, SynthesizeSends
    <3>2. ~Send(r, Error(500))
      BY <1>0, <2>4 DEF Send, TypeOK, IsFailure
    <3>3. PICK quoted \in Quotes(rows) : Send(r, PolicyAnswer(rows, quoted))
      BY <3>1, <3>2
    <3>4. \A quote \in quoted : \E i \in DOMAIN rows : quote = rows[i]
      BY <3>1, QuoteFacts
    <3>5. reply'[r] = PolicyAnswer(rows, quoted)
      BY <1>0, <3>3 DEF Send, TypeOK
    <3>6. reply'[r].rows = rows /\ reply'[r].quoted = quoted
      BY <3>5 DEF PolicyAnswer
    <3> QED BY <2>1, <3>4, <3>6 DEF Cited
  <2> QED BY <1>2, <2>2, <2>3, <2>4, ReplySteps DEF Answers
<1> QED BY <1>1, <1>2

\* Some capture of the entry of a source has this text of it, and the entry is
\* one of this corpus.
IsCaptured(d, s) ==
    \E def \in Definitions, records \in Captures :
        /\ def.registry = s[1] /\ def.corpus = d[1]
        /\ \E i \in DOMAIN records : records[i].native = s[2] /\ records[i].body = d[2]

\* Whatever is searchable was captured.
ContentIsCaptured ==
    \A s \in SourceKeys : content[s] # NoRow => IsCaptured(content[s], s)

\* A publication takes every document from its capture.
LEMMA PublishedIsCaptured ==
    ASSUME KB!Next, ContentIsCaptured
    PROVE  ContentIsCaptured'
<1>1. PICK def \in Definitions, records \in Captures : KB!Publish(def, records)
  BY DEF KB!Next
<1> SUFFICES ASSUME NEW s \in SourceKeys, content'[s] # NoRow
             PROVE  IsCaptured(content'[s], s)
  BY DEF ContentIsCaptured, IsCaptured
<1>2. CASE s[1] # def.registry
  BY <1>1, <1>2, SameKeys DEF KB!Publish, ContentIsCaptured
<1>3. CASE s[1] = def.registry
  <2> DEFINE i == CHOOSE i \in KB!LastUnder(records, s[2]) : TRUE
  <2>1. KB!LastUnder(records, s[2]) # {} /\ content'[s] = <<def.corpus, records[i].body>>
    BY <1>1, <1>3, SameKeys DEF KB!Publish
  <2>2. i \in DOMAIN records /\ records[i].native = s[2]
    <3>1. i \in KB!LastUnder(records, s[2])
      BY <2>1
    <3> QED BY <3>1 DEF KB!LastUnder
  <2> HIDE DEF i
  <2> QED BY <1>3, <2>1, <2>2 DEF IsCaptured
<1> QED BY <1>2, <1>3

\* Whatever was searchable since the BEGIN of a search was captured.
WindowsAreCaptured ==
    \A r \in Requests : \A row \in window[r].seen : IsCaptured(row[1], row[2])

\* A search sees only what was current before a step, or is after it.
LEMMA WindowSteps ==
    ASSUME AnswerInv, [Next]_vars, NEW r \in Requests, NEW row \in window'[r].seen
    PROVE  row \in window[r].seen \/ row \in Current \/ row \in Current'
<1>0. TypeOK
  BY DEF AnswerInv
<1>1. ASSUME UNCHANGED window PROVE row \in window[r].seen
  BY <1>1
<1>2. ASSUME NEW q \in Requests, window' = [window EXCEPT ![q] = NoWindow]
      PROVE  row \in window[r].seen
  BY <1>0, <1>2 DEF NoWindow, TypeOK
<1>3. ASSUME NEW q \in Requests, BeginSearch(q)
      PROVE  row \in window[r].seen \/ row \in Current
  BY <1>0, <1>3 DEF BeginSearch, TypeOK
<1>4. CASE Ingest
  <2>1. window'[r].seen = window[r].seen \/ window'[r].seen = window[r].seen \cup Current'
    BY <1>4 DEF Ingest
  <2> QED BY <2>1
<1>5. ASSUME NEW q \in Requests, Serve(q)
      PROVE  row \in window[r].seen \/ row \in Current
  <2>1. ASSUME NEW outcome, UserInfo(q, outcome) PROVE UNCHANGED window
    BY <2>1 DEF UserInfo
  <2>2. ASSUME NEW outcome, ApplicationStatus(q, outcome) PROVE UNCHANGED window
    BY <2>2, Zenon DEF ApplicationStatus
  <2>3. ASSUME NEW outcome, Market(q, outcome) PROVE UNCHANGED window
    BY <2>3, Zenon DEF Market
  <2>4. ASSUME NEW outcome, Synthesize(q, outcome) PROVE UNCHANGED window
    BY <2>4, Zenon DEF Synthesize
  <2>5. ASSUME SearchNothing(q) PROVE UNCHANGED window
    BY <2>5 DEF SearchNothing
  <2>6. ASSUME Select(q) \/ SearchFails(q) PROVE window' = [window EXCEPT ![q] = NoWindow]
    BY <2>6 DEF Select, SearchFails
  <2> QED BY <1>1, <1>2, <1>3, <1>5, <2>1, <2>2, <2>3, <2>4, <2>5, <2>6
         DEF Serve, ServeTimed, ServeFromDatabase, Outcomes
<1>6. ASSUME UNCHANGED vars PROVE UNCHANGED window
  BY <1>6 DEF vars
<1>7. ASSUME NEW q \in Requests, NEW a \in Asks, Receive(q, a) PROVE UNCHANGED window
  BY <1>7 DEF Receive
<1> QED
  BY <1>1, <1>4, <1>5, <1>6, <1>7 DEF Next, Serve

\* Only an ingest changes the knowledge base.
LEMMA ContentSteps ==
    ASSUME [Next]_vars PROVE UNCHANGED content \/ Ingest
<1>1. ASSUME NEW r \in Requests, Serve(r) PROVE UNCHANGED base
  <2>1. ASSUME NEW outcome, UserInfo(r, outcome) PROVE UNCHANGED base
    BY <2>1 DEF UserInfo
  <2>2. ASSUME NEW outcome, ApplicationStatus(r, outcome) PROVE UNCHANGED base
    BY <2>2, Zenon DEF ApplicationStatus
  <2>3. ASSUME NEW outcome, Market(r, outcome) PROVE UNCHANGED base
    BY <2>3, Zenon DEF Market
  <2>4. ASSUME NEW outcome, Synthesize(r, outcome) PROVE UNCHANGED base
    BY <2>4, Zenon DEF Synthesize
  <2> QED BY <1>1, <2>1, <2>2, <2>3, <2>4
         DEF Serve, ServeTimed, ServeFromDatabase, Select, SearchFails, SearchNothing, BeginSearch
<1>2. ASSUME NEW r \in Requests, NEW a \in Asks, Receive(r, a) PROVE UNCHANGED base
  BY <1>2 DEF Receive
<1> QED
  BY <1>1, <1>2 DEF Next, Serve, base, vars

\* Nothing is cited that was not captured from the source it is cited from,
\* for the corpus it is cited in, whatever ingests replace meanwhile.
THEOREM CitedIsCaptured ==
    Spec => [](\A r \in Requests : \A row \in Cited(r) : IsCaptured(row[1], row[2]))
<1> DEFINE Sourced == \A r \in Requests : \A row \in Cited(r) : IsCaptured(row[1], row[2])
<1>1. Init => ContentIsCaptured /\ WindowsAreCaptured /\ Sourced
  BY SameKeys DEF Init, KB!Init, ContentIsCaptured, WindowsAreCaptured, NoWindow, Cited
<1>2. AnswerInv /\ [Next]_vars /\ ContentIsCaptured => ContentIsCaptured'
  <2>1. ASSUME UNCHANGED content, ContentIsCaptured PROVE ContentIsCaptured'
    BY <2>1 DEF ContentIsCaptured, IsCaptured
  <2>2. ASSUME Ingest, ContentIsCaptured PROVE ContentIsCaptured'
    BY <2>2, PublishedIsCaptured DEF Ingest
  <2> QED BY <2>1, <2>2, ContentSteps
<1>3. ASSUME ContentIsCaptured, NEW row \in Current PROVE IsCaptured(row[1], row[2])
  <2>1. row[2] \in SourceKeys /\ row[1] \in DocumentKeys /\ content[row[2]] = row[1]
    BY <1>3, SameKeys DEF Rows
  <2> QED BY <1>3, <2>1, NoRowAssumption DEF ContentIsCaptured
<1>4. ASSUME ContentIsCaptured', NEW row \in Current' PROVE IsCaptured(row[1], row[2])
  <2>1. row[2] \in SourceKeys /\ row[1] \in DocumentKeys /\ content'[row[2]] = row[1]
    BY <1>4 DEF Current, KB!Results, KB!SourceKeys, SourceKeys, KB!DocumentKeys, DocumentKeys,
           KB!Corpora, Corpora, KB!Public, Public, KB!Internal, Internal
  <2> QED BY <1>4, <2>1, NoRowAssumption DEF ContentIsCaptured, IsCaptured
<1>5. AnswerInv /\ [Next]_vars /\ ContentIsCaptured /\ WindowsAreCaptured => WindowsAreCaptured'
  <2> SUFFICES ASSUME AnswerInv, [Next]_vars, ContentIsCaptured, WindowsAreCaptured,
                      NEW r \in Requests, NEW row \in window'[r].seen
               PROVE  IsCaptured(row[1], row[2])
    BY DEF WindowsAreCaptured, IsCaptured
  <2> QED BY <1>2, <1>3, <1>4, WindowSteps DEF WindowsAreCaptured
<1>6. AnswerInv /\ [Next]_vars /\ WindowsAreCaptured /\ Sourced => Sourced'
  <2> SUFFICES ASSUME AnswerInv, [Next]_vars, WindowsAreCaptured, Sourced,
                      NEW r \in Requests, NEW row \in Cited(r)'
               PROVE  IsCaptured(row[1], row[2])
    BY DEF IsCaptured
  <2>1. CASE row \in Hits(r, window[r].seen)
    BY <2>1 DEF Hits, WindowsAreCaptured
  <2> QED BY <2>1, CitedSteps
<1> QED
  BY <1>1, <1>2, <1>5, <1>6, AnswerInvariant, PTL DEF Spec

\* What a registry entry that is internal publishes never reaches a caller
\* without the session token of staff, for any questions, ingests and failures.
COROLLARY InternalEntriesNeedStaff ==
    ASSUME NEW entry, \A def \in Definitions : def.registry = entry => def.corpus = Internal
    PROVE  Spec => [](\A r \in Requests :
                        (\E row \in Cited(r) : row[2][1] = entry) => ask[r].token = "staff")
<1> DEFINE Sourced == \A r \in Requests : \A row \in Cited(r) : IsCaptured(row[1], row[2])
           Reserved == \A r \in Requests :
                         (\E row \in Cited(r) : row[2][1] = entry) => ask[r].token = "staff"
<1>1. Sourced /\ InternalNeedsStaff => Reserved
  BY DEF IsCaptured, InternalNeedsStaff
<1>2. Spec => []Sourced
  BY CitedIsCaptured
<1> HIDE DEF Sourced, Reserved
<1>3. Spec => []Reserved
  BY <1>1, <1>2, BoundaryHolds, PTL
<1> QED
  BY <1>3 DEF Reserved

=============================================================================
