----------------------------- MODULE StatusLookup -----------------------------
(***************************************************************************)
(* The live status tool: HttpCarrierHubContextClient fetches an            *)
(* application from Carrier Hub, whitelists and translates a few of its    *)
(* fields, and the answer service makes a status card of them.             *)
(*                                                                         *)
(* Carrier Hub is external.  It changes its applications at any time and   *)
(* may answer for any of them, in any form the client distinguishes.       *)
(***************************************************************************)
EXTENDS Naturals

CONSTANTS
    Lookups,       \* calls of get_application_context
    Applications,
    Addressable,   \* those whose id is not empty and has neither "/" nor "?"
    Trainings,     \* safeland, w9 and h2s: [required, completed] pairs of fields
    Vendors,       \* rmis and evident
    Forms,         \* what Carrier Hub may send for an application
    MaxVersion,    \* bound: changes of an application
    Nothing        \* not asked, served or answered yet

\* A date field: absent or empty, no ISO date, an ISO date that has no UTC
\* time (within a day of the ends of the calendar), or a date.
Stamps == {"missing", "unreadable", "out_of_range", "date"}

\* complete: an object with id and brokerage slug, within the lengths of the
\* projection.  vendor: when each verification was updated, "missing" for one that
\* is absent, too.  The rest are the fields of the object.
FormType == [complete : BOOLEAN, updated : Stamps,
             status : {"onboarding_completed", "rejected", "error", "other"},
             required : SUBSET Trainings, date : [Trainings -> Stamps],
             vendor : [Vendors -> Stamps]]

\* What a lookup may end with: a failure, or a card about an application as of
\* some version.
Failures == [outcome : {"down", "invalid"}]
Cards == [outcome : Applications, stage : {"completed", "rejected", "error", "verification"},
          blocking : SUBSET Trainings, completed : SUBSET Trainings,
          version : Nat]

ASSUME StatusAssumption ==
    /\ Addressable \subseteq Applications
    /\ Forms \subseteq FormType
    /\ MaxVersion \in Nat
    /\ Nothing \notin Applications \cup {"down", "invalid", "unknown"}
    /\ Applications \cap {"down", "invalid", "unknown"} = {}
    /\ Nothing \notin Failures \cup Cards

VARIABLES
    version,  \* how often Carrier Hub changed each application
    asked,    \* the application of the capability
    since,    \* its version when it was asked for
    served,   \* the reply of Carrier Hub
    reply     \* what the lookup ended with

vars == <<version, asked, since, served, reply>>

-----------------------------------------------------------------------------
(* The projection                                                          *)

\* Fault: a field that is no date is a date.
ParsesTo_Truthy(stamp) == IF stamp = "missing" THEN "nothing" ELSE "time"

\* _parse_time: only what cannot be parsed is forgiven; the conversion to UTC
\* of a date at the ends of the calendar raises an OverflowError.
ParsesTo(stamp) ==
    IF stamp = "out_of_range" THEN "raises"
    ELSE IF stamp = "date" THEN "time" ELSE "nothing"

\* Fault: the status of Carrier Hub is shown as it is.
Stage_Verbatim(form) == form.status

\* _STAGES
Stage(form) ==
    IF form.status = "onboarding_completed" THEN "completed"
    ELSE IF form.status \in {"rejected", "error"} THEN form.status ELSE "verification"

\* _requirements: what is not required is left out.
Requirements(form) ==
    [t \in form.required |->
        LET done == ParsesTo(form.date[t]) = "time"
        IN [state |-> IF done THEN "satisfied" ELSE "required", blocking |-> ~done]]

\* Fault: only a complete date lets the application through.
Raises_Strict(form) ==
    \/ ~form.complete
    \/ form.updated # "date"
    \/ \E t \in form.required : form.date[t] # "date"

\* _sanitize_status raises: something mandatory is missing, or a date that it
\* reads has no UTC time.  Dates of what is not required are not read.
Raises(form) ==
    \/ ~form.complete
    \/ form.updated # "date"
    \/ \E t \in form.required : ParsesTo(form.date[t]) = "raises"
    \/ \E v \in Vendors : ParsesTo(form.vendor[v]) = "raises"

Failure(outcome) == [outcome |-> outcome]

\* _status_card: the summaries of training and verification that the client makes,
\* too, are not shown; next_action, which it never sets, is left out.
Card(served_) ==
    LET requirements == Requirements(served_.form) IN
    [outcome |-> served_.application, stage |-> Stage(served_.form),
     blocking |-> {t \in DOMAIN requirements : requirements[t].blocking
                                               /\ requirements[t].state # "satisfied"},
     completed |-> {t \in DOMAIN requirements : requirements[t].state = "satisfied"},
     version |-> served_.version]

-----------------------------------------------------------------------------
Init ==
    /\ version = [a \in Applications |-> 0]
    /\ asked = [l \in Lookups |-> Nothing]
    /\ since = [l \in Lookups |-> 0]
    /\ served = [l \in Lookups |-> Nothing]
    /\ reply = [l \in Lookups |-> Nothing]

Answer(l, r) == reply' = [reply EXCEPT ![l] = r]

\* Carrier Hub moves an application on.
Change(a) ==
    /\ version[a] < MaxVersion
    /\ version' = [version EXCEPT ![a] = @ + 1]
    /\ UNCHANGED <<asked, since, served, reply>>

\* get_application_context sends the request, with the capability as bearer.
Ask(l, a) ==
    /\ asked[l] = Nothing
    /\ asked' = [asked EXCEPT ![l] = a]
    /\ since' = [since EXCEPT ![l] = version[a]]
    /\ IF a \in Addressable THEN UNCHANGED reply ELSE Answer(l, Failure("invalid"))
    /\ UNCHANGED <<version, served>>

Awaiting(l) == asked[l] # Nothing /\ reply[l] = Nothing

\* Fault: a reply to an earlier lookup is used again.
Serve_Cached(l, a, form) ==
    /\ Awaiting(l)
    /\ served[l] = Nothing
    /\ \E old \in Lookups \cup {l} :
          served' = [served EXCEPT ![l] =
              IF served[old] # Nothing /\ served[old].application = a THEN served[old]
              ELSE [application |-> a, form |-> form, version |-> version[a]]]
    /\ UNCHANGED <<version, asked, since, reply>>

\* Carrier Hub answers with what it holds for some application.
Serve(l, a, form) ==
    /\ Awaiting(l)
    /\ served[l] = Nothing
    /\ served' = [served EXCEPT ![l] =
                    [application |-> a, form |-> form, version |-> version[a]]]
    /\ UNCHANGED <<version, asked, since, reply>>

\* A timeout, a connection lost, or a status that is an error (the token, say,
\* has expired since the service verified it).
Down(l) ==
    /\ Awaiting(l)
    /\ Answer(l, Failure("down"))
    /\ UNCHANGED <<version, asked, since, served>>

\* Fault: the application of the reply is not compared with the one asked for.
Receive_AnyApplication(l) ==
    /\ Awaiting(l)
    /\ served[l] # Nothing
    /\ Answer(l, IF Raises(served[l].form) THEN Failure("invalid") ELSE Card(served[l]))
    /\ UNCHANGED <<version, asked, since, served>>

\* The reply arrives, is projected and checked, and becomes the status card.
Receive(l) ==
    /\ Awaiting(l)
    /\ served[l] # Nothing
    /\ Answer(l, IF Raises(served[l].form) \/ served[l].application # asked[l]
                 THEN Failure("invalid") ELSE Card(served[l]))
    /\ UNCHANGED <<version, asked, since, served>>

Next ==
    \/ \E a \in Applications : Change(a)
    \/ \E l \in Lookups :
          \/ \E a \in Applications : Ask(l, a)
          \/ \E a \in Applications, form \in Forms : Serve(l, a, form)
          \/ Down(l)
          \/ Receive(l)

Spec == Init /\ [][Next]_vars

-----------------------------------------------------------------------------
(* Properties                                                              *)

\* Types of the lookups.
TypeOK ==
    /\ version \in [Applications -> 0..MaxVersion]
    /\ asked \in [Lookups -> Applications \cup {Nothing}]
    /\ since \in [Lookups -> 0..MaxVersion]
    /\ served \in [Lookups -> [application : Applications, form : Forms,
                               version : 0..MaxVersion] \cup {Nothing}]
    /\ reply \in [Lookups -> Failures \cup Cards \cup {Nothing}]

HasCard(l) == reply[l] # Nothing /\ reply[l].outcome \notin {"down", "invalid"}

\* Nothing falls between the two lists of a card: each training that Carrier
\* Hub requires is on exactly one of them, under completed if and only if
\* there is a completion date, and what is not required is on none.
EveryRequirementListed ==
    \A l \in Lookups : HasCard(l) =>
        LET form == served[l].form IN
        /\ reply[l].blocking = form.required \ reply[l].completed
        /\ reply[l].completed = {t \in form.required : form.date[t] = "date"}

\* A card tells the state of the application between question and answer,
\* whatever changed meanwhile: never one from before the carrier asked.
CardIsFresh ==
    \A l \in Lookups : HasCard(l) => reply[l].version \in since[l]..version[asked[l]]

\* Carrier Hub's optional dates never cost the caller the whole status: a
\* reply that has what is mandatory is refused only for another application's
\* or for a date at the ends of the calendar.
RefusedForCause ==
    \A l \in Lookups :
        reply[l] # Nothing /\ reply[l].outcome = "invalid" /\ asked[l] \in Addressable =>
            LET form == served[l].form IN
            \/ served[l].application # asked[l]
            \/ ~form.complete \/ form.updated # "date"
            \/ "out_of_range" \in {form.date[t] : t \in form.required}
                                    \cup {form.vendor[v] : v \in Vendors}

\* The tool keeps the promise of LiveLookup: one end, about the application of
\* the capability or without an answer.
Outcome(l) == IF reply[l] = Nothing THEN Nothing ELSE reply[l].outcome
Live == INSTANCE LiveLookup WITH
            Subjects <- Applications,
            about <- asked,
            outcome <- [l \in Lookups |-> Outcome(l)]
KeepsPromise == Live!Spec

=============================================================================
