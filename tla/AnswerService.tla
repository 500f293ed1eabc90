---------------------------- MODULE AnswerService ----------------------------
(***************************************************************************)
(* POST /v1/answer: authentication, routing of the question to one source  *)
(* of evidence, retrieval, optional synthesis, and the mapping of failures *)
(* to HTTP statuses, while ingests keep changing the knowledge base.       *)
(*                                                                         *)
(* Every await of the handler ends an action: between two of them other    *)
(* requests and ingests proceed.  A search is two of them, BEGIN and the   *)
(* SELECT: an ingest in between is judged by the clock of BEGIN, as        *)
(* SearchTiming follows in detail.  Carrier Hub, the LoHi views and the    *)
(* language model are external; each may answer anything its client code   *)
(* distinguishes.  An exception the handler does not catch is a 500.       *)
(***************************************************************************)
EXTENDS KnowledgeStore

CONSTANTS
    Requests,       \* requests in flight
    Applications,   \* application ids of Carrier Hub
    NoApplication,  \* a capability without application_id
    Questions,      \* [terms: groups of routing terms, about: bodies that match]
    Qualified,      \* bodies that say context-dependent, conflicting or program-specific
    Definitions, Captures,   \* of the ingests, as in KnowledgeBase
    EvidenceLimit,  \* rows of a search, and of a synthesis prompt (8 and 8)
    Synthesis,      \* synthesis is enabled and there is an API key
    MarketViews,    \* the market routes whose view is configured
    MaxPublish,     \* bound: ingests that succeed
    NoAsk, Nobody, NoReply   \* not received, authenticated, answered yet

TermGroups   == {"application_status", "earnings", "market_opportunity", "market_catalog"}
MarketRoutes == {"market_catalog", "market_opportunity"}

\* capability: a verifiable token, of scope carrier_public with a subject or
\* not (other_scope).  The rest cannot be verified with the shared secret:
\* a capability that expired or was not signed by Carrier Hub, and the
\* session tokens of staff, of staff without an id and of other users.
\* Without a secret no capability verifies, and all of them are "expired".
Tokens == {"none", "capability", "other_scope", "expired", "staff", "no_subject", "outsider"}

ASSUME ServiceAssumption ==
    /\ Questions \subseteq [terms : SUBSET TermGroups, about : SUBSET Bodies]
    /\ NoApplication \notin Applications
    /\ Qualified \subseteq Bodies
    /\ EvidenceLimit \in Nat \ {0}
    /\ Synthesis \in BOOLEAN
    /\ MarketViews \subseteq MarketRoutes
    /\ MaxPublish \in Nat
    /\ Definitions \subseteq [registry : Registries, corpus : Corpora]
    /\ Captures \subseteq Seq(Records)

\* valid: the body passes AskRequest; market: market_name is absent, blank or a name.
Asks == [token : Tokens, application : Applications \cup {NoApplication},
         question : Questions, market : {"absent", "blank", "named"}, valid : BOOLEAN]

Principals == [audience : {"carrier", "internal"},
               application : Applications \cup {NoApplication}]

VARIABLES
    content,    \* the knowledge base, see KnowledgeBase
    published,  \* ingests that succeeded so far
    configured, \* the service was started with the DSN of the knowledge base
    phase,      \* what each request awaits
    ask,        \* the request itself
    principal,  \* its caller, once authenticated
    window,     \* the rows current at every and at some moment since its BEGIN
    evidence,   \* the rows its search returned
    reply       \* what was sent back

base == <<content, published, configured>>
vars == <<base, phase, ask, principal, window, evidence, reply>>

KB == INSTANCE KnowledgeBase

Rows    == DocumentKeys \X SourceKeys
Current == KB!Results(Corpora)

Windows  == [kept : SUBSET Rows, seen : SUBSET Rows]
NoWindow == [kept |-> {}, seen |-> {}]

\* search: before its BEGIN; select: between that and the reply of the SELECT.
Phases == {"unsent", "user_info", "status", "market", "search", "select", "synthesis", "done"}

\* quoted: the rows whose text the answer is made of; rows: the cited ones;
\* application: whose live status it shows; market: it shows market data.
Replies == [status : {200, 401, 403, 422, 500, 503},
            type : {"error", "handoff", "policy", "conditional_policy",
                    "application_status", "market_catalog", "market_opportunity"},
            confidence : {"none", "unsupported", "supported", "conditional", "live"},
            rows : Seq(Rows),
            quoted : SUBSET Rows,
            application : Applications \cup {NoApplication},
            market : BOOLEAN]

-----------------------------------------------------------------------------
Init ==
    /\ KB!Init
    /\ published = 0
    /\ configured \in BOOLEAN
    /\ phase = [r \in Requests |-> "unsent"]
    /\ ask = [r \in Requests |-> NoAsk]
    /\ principal = [r \in Requests |-> Nobody]
    /\ window = [r \in Requests |-> NoWindow]
    /\ evidence = [r \in Requests |-> <<>>]
    /\ reply = [r \in Requests |-> NoReply]

Await(r, p) == phase' = [phase EXCEPT ![r] = p] /\ UNCHANGED reply

Send(r, answer) ==
    /\ phase' = [phase EXCEPT ![r] = "done"]
    /\ reply' = [reply EXCEPT ![r] = answer]

NoAnswer == [status |-> 200, type |-> "handoff", confidence |-> "unsupported",
             rows |-> <<>>, quoted |-> {}, application |-> NoApplication, market |-> FALSE]
Error(status) == [status |-> status, type |-> "error", confidence |-> "none",
                  rows |-> <<>>, quoted |-> {}, application |-> NoApplication, market |-> FALSE]

\* A live answer shows the status of an application or market data, and cites no row.
LiveAnswer(type, application, market) ==
    [status |-> 200, type |-> type, confidence |-> "live",
     rows |-> <<>>, quoted |-> {}, application |-> application, market |-> market]

\* AnswerService._route: the first group of terms that the question contains.
Route(question) ==
    IF "application_status" \in question.terms THEN "application_status"
    ELSE IF "earnings" \in question.terms THEN "earnings"
    ELSE IF "market_opportunity" \in question.terms THEN "market_opportunity"
    ELSE IF "market_catalog" \in question.terms THEN "market_catalog"
    ELSE "policy"

\* Principal.searchable_corpora
SearchableCorpora(p) == IF p.audience = "internal" THEN {Public, Internal} ELSE {Public}

\* The caller p of request r is known: the body is validated, the question is
\* routed, and the handler awaits the one dependency of its route, if any.
Dispatch(r, p, a) ==
    LET route == Route(a.question) IN
    /\ principal' = [principal EXCEPT ![r] = p]
    /\ \/ ~a.valid /\ Send(r, Error(422))
       \/ a.valid /\ route = "application_status" /\ p.application # NoApplication
            /\ Await(r, "status")
       \/ a.valid /\ route \in MarketRoutes /\ a.market # "absent"
            /\ IF route \in MarketViews THEN Await(r, "market") ELSE Send(r, NoAnswer)
       \/ a.valid /\ route = "earnings" /\ Send(r, NoAnswer)
       \/ /\ a.valid
          /\ \/ route = "policy"
             \/ route = "application_status" /\ p.application = NoApplication
             \/ route \in MarketRoutes /\ a.market = "absent"
          /\ Await(r, "search")

\* A request arrives.  CarrierHubAuthorizer.principal decides what it can
\* without Carrier Hub: whatever it cannot verify is tried as a session token.
Receive(r, a) ==
    /\ phase[r] = "unsent"
    /\ ask' = [ask EXCEPT ![r] = a]
    /\ \/ a.token = "none" /\ Send(r, Error(401)) /\ UNCHANGED principal
       \/ a.token = "other_scope" /\ Send(r, Error(403)) /\ UNCHANGED principal
       \/ a.token = "capability"
            /\ Dispatch(r, [audience |-> "carrier", application |-> a.application], a)
       \/ /\ a.token \notin {"none", "other_scope", "capability"}
          /\ Await(r, "user_info")
          /\ UNCHANGED principal
    /\ UNCHANGED <<base, window, evidence>>

\* Fault: any identity of Carrier Hub is staff.
UserInfo_AnyRole(r, outcome) ==
    /\ phase[r] = "user_info"
    /\ \/ outcome = "down" /\ Send(r, Error(503)) /\ UNCHANGED principal
       \/ outcome = "garbled" /\ Send(r, Error(500)) /\ UNCHANGED principal
       \/ outcome = "answers"
            /\ Dispatch(r, [audience |-> "internal", application |-> NoApplication], ask[r])
    /\ UNCHANGED <<base, ask, window, evidence>>

\* Fault: the upstream status is passed on.
UserInfo_BadGateway(r, outcome) ==
    /\ phase[r] = "user_info"
    /\ \/ outcome # "answers" /\ Send(r, Error(502)) /\ UNCHANGED principal
       \/ outcome = "answers" /\ ask[r].token # "staff"
            /\ Send(r, Error(403)) /\ UNCHANGED principal
       \/ outcome = "answers" /\ ask[r].token = "staff"
            /\ Dispatch(r, [audience |-> "internal", application |-> NoApplication], ask[r])
    /\ UNCHANGED <<base, ask, window, evidence>>

\* Fault: a refusal is retried until it is none.
UserInfo_RetriesRefusal(r, outcome) ==
    /\ phase[r] = "user_info"
    /\ outcome = "answers" /\ ask[r].token = "staff"
    /\ Dispatch(r, [audience |-> "internal", application |-> NoApplication], ask[r])
    /\ UNCHANGED <<base, ask, window, evidence>>

\* Carrier Hub answers /api/v1/user_info, refuses, or is not available.  A
\* reply that is no JSON object ("garbled") is not handled.
UserInfo(r, outcome) ==
    /\ phase[r] = "user_info"
    /\ \/ outcome = "down" /\ Send(r, Error(503)) /\ UNCHANGED principal
       \/ outcome = "garbled" /\ Send(r, Error(500)) /\ UNCHANGED principal
       \/ outcome = "answers" /\ ask[r].token # "staff"
            /\ Send(r, Error(403)) /\ UNCHANGED principal
       \/ outcome = "answers" /\ ask[r].token = "staff"
            /\ Dispatch(r, [audience |-> "internal", application |-> NoApplication], ask[r])
    /\ UNCHANGED <<base, ask, window, evidence>>

\* Fault: the application of the reply is not compared with the one asked for.
ApplicationStatus_AnyApplication(r, outcome) ==
    /\ phase[r] = "status"
    /\ \/ outcome = "down" /\ Send(r, Error(503))
       \/ outcome = "invalid" /\ Send(r, Error(500))
       \/ outcome \in Applications
            /\ Send(r, LiveAnswer("application_status", outcome, FALSE))
    /\ UNCHANGED <<base, ask, principal, window, evidence>>

\* Carrier Hub answers for the status of some application, or fails; a reply
\* the client rejects ("invalid") raises a ValueError, TypeError or
\* ValidationError, as does the status of another application.
ApplicationStatus(r, outcome) ==
    /\ phase[r] = "status"
    /\ \/ outcome = "down" /\ Send(r, Error(503))
       \/ outcome = "invalid" /\ Send(r, Error(500))
       \/ /\ outcome \in Applications
          /\ Send(r, IF outcome # principal[r].application THEN Error(500)
                     ELSE LiveAnswer("application_status", outcome, FALSE))
    /\ UNCHANGED <<base, ask, principal, window, evidence>>

\* The market views: blank names, two matching rows and rows that break the
\* projection raise ValueErrors before or after the query.
Market(r, outcome) ==
    /\ phase[r] = "market"
    /\ ask[r].market = "blank" => outcome = "invalid"
    /\ \/ outcome = "down" /\ Send(r, Error(503))
       \/ outcome = "invalid" /\ Send(r, Error(500))
       \/ outcome = "unknown" /\ Send(r, NoAnswer)
       \/ outcome = "found" /\ Send(r, LiveAnswer(Route(ask[r].question), NoApplication, TRUE))
    /\ UNCHANGED <<base, ask, principal, window, evidence>>

\* The rows that match the question of r and that its caller may see.
Hits(r, rows) == {row \in rows : /\ row[1][1] \in SearchableCorpora(principal[r])
                                /\ row[1][2] \in ask[r].question.about}

\* The first text says that it depends on context, program or source.
IsConditional(rows) == rows[1][1][2] \in Qualified

\* Fault: only the best row is cited.
PolicyAnswer_CitesFirst(rows, quoted) ==
    [status |-> 200, type |-> "policy", confidence |-> "supported",
     rows |-> <<rows[1]>>, quoted |-> quoted, application |-> NoApplication, market |-> FALSE]

\* The answer with some rows as evidence, made of the text of some of them.
PolicyAnswer(rows, quoted) ==
    [status |-> 200,
     type |-> IF IsConditional(rows) THEN "conditional_policy" ELSE "policy",
     confidence |-> IF IsConditional(rows) THEN "conditional" ELSE "supported",
     rows |-> rows, quoted |-> quoted, application |-> NoApplication, market |-> FALSE]

\* What the SELECT may return, in some order of rank: all it finds, or the best
\* EvidenceLimit.  Its snapshot and the clock of BEGIN let through every row
\* that was current all the time, and none that never was.
Rankings(r) ==
    {rows \in UNION {[1..n -> Hits(r, window[r].seen)] : n \in 0..EvidenceLimit} :
        /\ \A i, j \in DOMAIN rows : rows[i] = rows[j] => i = j
        /\ \/ Len(rows) = EvidenceLimit
           \/ \A row \in Hits(r, window[r].kept) : \E i \in DOMAIN rows : rows[i] = row}

\* UnconfiguredRepository.search: without a DSN there is nothing to search.
SearchNothing(r) ==
    /\ phase[r] = "search"
    /\ ~configured
    /\ Send(r, NoAnswer)
    /\ UNCHANGED <<base, ask, principal, window, evidence>>

\* PostgresKnowledgeRepository.search connects and sends BEGIN.
BeginSearch(r) ==
    /\ phase[r] = "search"
    /\ configured
    /\ Await(r, "select")
    /\ window' = [window EXCEPT ![r] = [kept |-> Current, seen |-> Current]]
    /\ UNCHANGED <<base, ask, principal, evidence>>

\* It returns the best rows; the answer is the first body unless it is
\* synthesized.
Select(r) ==
    /\ phase[r] = "select"
    /\ \E rows \in Rankings(r) :
          IF rows = <<>> THEN Send(r, NoAnswer) /\ UNCHANGED evidence
          ELSE /\ evidence' = [evidence EXCEPT ![r] = rows]
               /\ IF Synthesis /\ ~IsConditional(rows)
                  THEN Await(r, "synthesis")
                  ELSE Send(r, PolicyAnswer(rows, {rows[1]}))
    /\ window' = [window EXCEPT ![r] = NoWindow]
    /\ UNCHANGED <<base, ask, principal>>

\* Fault: an outage of the database is an empty result.
SearchFails_HandsOff(r) ==
    /\ phase[r] \in {"search", "select"}
    /\ configured
    /\ Send(r, NoAnswer)
    /\ window' = [window EXCEPT ![r] = NoWindow]
    /\ UNCHANGED <<base, ask, principal, evidence>>

\* The database cannot be reached, or the query raises.
SearchFails(r) ==
    /\ phase[r] \in {"search", "select"}
    /\ configured
    /\ Send(r, Error(503))
    /\ window' = [window EXCEPT ![r] = NoWindow]
    /\ UNCHANGED <<base, ask, principal, evidence>>

\* The model answers from the first EvidenceLimit rows; an error of the API or
\* an empty completion falls back to the first body.  A completion without
\* choices raises an IndexError that nothing handles.
Synthesize(r, outcome) ==
    /\ phase[r] = "synthesis"
    /\ \/ outcome = "raises" /\ Send(r, Error(500))
       \/ outcome = "answers"
            /\ Send(r, PolicyAnswer(evidence[r],
                          {evidence[r][i] : i \in {j \in DOMAIN evidence[r] : j <= EvidenceLimit}}))
       \/ outcome = "falls back" /\ Send(r, PolicyAnswer(evidence[r], {evidence[r][1]}))
    /\ UNCHANGED <<base, ask, principal, window, evidence>>

\* An ingest succeeds, while searches may be between BEGIN and SELECT.
Ingest ==
    /\ published < MaxPublish
    /\ published' = published + 1
    /\ KB!Next
    /\ window' = [r \in Requests |->
          IF phase[r] # "select" THEN window[r]
          ELSE [kept |-> window[r].kept \cap Current', seen |-> window[r].seen \cup Current']]
    /\ UNCHANGED <<configured, phase, ask, principal, evidence, reply>>

\* The replies of Carrier Hub and of the language model, whose clients time out.
ServeTimed(r) ==
    \/ \E outcome \in {"answers", "down", "garbled"} : UserInfo(r, outcome)
    \/ \E outcome \in {"down", "invalid"} \cup Applications : ApplicationStatus(r, outcome)
    \/ \E outcome \in {"answers", "falls back", "raises"} : Synthesize(r, outcome)

\* The replies of the databases.
ServeFromDatabase(r) ==
    \/ \E outcome \in {"found", "unknown", "down", "invalid"} : Market(r, outcome)
    \/ SearchNothing(r)
    \/ BeginSearch(r)
    \/ Select(r)
    \/ SearchFails(r)

Next ==
    \/ \E r \in Requests, a \in Asks : Receive(r, a)
    \/ \E r \in Requests : ServeTimed(r) \/ ServeFromDatabase(r)
    \/ Ingest

Spec == Init /\ [][Next]_vars

\* A call to Carrier Hub or to the language model returns or times out: httpx
\* is given five seconds, and the OpenAI client has a limit of its own.  The
\* databases are called without a limit on connecting or on the statement, so
\* nothing is assumed of them.
FairSpec == Spec /\ \A r \in Requests : WF_vars(ServeTimed(r))

-----------------------------------------------------------------------------
(* Properties                                                              *)

\* Types of the state of every request.
TypeOK ==
    /\ KB!TypeOK
    /\ published \in 0..MaxPublish
    /\ configured \in BOOLEAN
    /\ phase \in [Requests -> Phases]
    /\ ask \in [Requests -> Asks \cup {NoAsk}]
    /\ principal \in [Requests -> Principals \cup {Nobody}]
    /\ window \in [Requests -> Windows]
    /\ evidence \in [Requests -> Seq(Rows)]
    /\ reply \in [Requests -> Replies \cup {NoReply}]

\* Rows that a request holds between its awaits or has answered with.
Cited(r) ==
    {evidence[r][i] : i \in DOMAIN evidence[r]}
        \cup (IF reply[r] = NoReply THEN {}
              ELSE reply[r].quoted \cup {reply[r].rows[i] : i \in DOMAIN reply[r].rows})

\* The hard boundary between carrier-safe and internal knowledge: a document
\* of the internal corpus reaches a request only if it was sent with the
\* session token of staff, whatever the token handling, the route and the
\* ingests in between did.
InternalNeedsStaff ==
    \A r \in Requests :
        (\E row \in Cited(r) : row[1][1] = Internal) => ask[r].token = "staff"

\* A live status is shown only to a caller whose own capability names that
\* very application, whatever application Carrier Hub answered for.
OwnApplicationOnly ==
    \A r \in Requests :
        reply[r] # NoReply /\ reply[r].application # NoApplication =>
            ask[r].token = "capability" /\ ask[r].application = reply[r].application

\* An answer says what it rests on: each text it is made of is cited, and it
\* is a handoff exactly when nothing supports it.
AnswersRestOnEvidence ==
    \A r \in Requests :
        reply[r] # NoReply =>
            /\ reply[r].quoted \subseteq {reply[r].rows[i] : i \in DOMAIN reply[r].rows}
            /\ reply[r].status = 200 =>
                (reply[r].type # "handoff" <=>
                    reply[r].quoted # {} \/ reply[r].market
                        \/ reply[r].application # NoApplication)

\* "No approved source answers that yet" is never the answer to an outage of
\* the database: a service that has one sends it only if no row that matches
\* and that the caller may see was there from BEGIN to the SELECT.  A source
\* whose text an ingest replaced in between has no such row: it can be missed.
HandoffIsHonest ==
    [][\A r \in Requests :
          /\ reply'[r] # reply[r] /\ reply'[r].type = "handoff"
          /\ configured /\ phase[r] \in {"search", "select"}
          => /\ phase[r] = "select"
             /\ \A row \in window[r].kept :
                   \/ row[1][2] \notin ask[r].question.about
                   \/ row[1][1] = Internal /\ ask[r].token # "staff"]_vars

\* Guidance that sources qualify or dispute is not given without saying so: an
\* answer made of a qualified text is conditional.
QualifiedIsConditional ==
    \A r \in Requests :
        reply[r] # NoReply /\ (\E row \in reply[r].quoted : row[1][2] \in Qualified) =>
            reply[r].confidence = "conditional"

\* Only a database can keep a caller waiting for ever: whatever Carrier Hub
\* and the language model do, a request is answered, if only with an error,
\* or it waits for the market views or for the knowledge base.
OnlyDatabasesHold ==
    \A r \in Requests :
        ask[r] # NoAsk ~> reply[r] # NoReply \/ phase[r] \in {"market", "search", "select"}

=============================================================================
