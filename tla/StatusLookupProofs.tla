-------------------------- MODULE StatusLookupProofs --------------------------
(***************************************************************************)
(* Proofs about StatusLookup for any number of lookups, applications,      *)
(* trainings, vendors and changes in Carrier Hub.  LookupInv ties what a   *)
(* lookup ended with to the reply of Carrier Hub, and the version of that  *)
(* reply to the one at the time of the question.                           *)
(***************************************************************************)
EXTENDS StatusLookup, TLAPS

Served == [application : Applications, form : Forms, version : 0..MaxVersion]

\* A reply that becomes a card: of the application asked for, and readable.
IsUsable(l) ==
    /\ served[l] # Nothing
    /\ served[l].application = asked[l]
    /\ ~Raises(served[l].form)

LookupInv(l) ==
    /\ asked[l] = Nothing => served[l] = Nothing /\ reply[l] = Nothing
    /\ asked[l] # Nothing => since[l] <= version[asked[l]]
    /\ served[l] # Nothing => served[l].version <= version[served[l].application]
    /\ served[l] # Nothing /\ served[l].application = asked[l] =>
          since[l] <= served[l].version
    /\ HasCard(l) => IsUsable(l) /\ reply[l] = Card(served[l])
    /\ reply[l] # Nothing /\ reply[l].outcome = "invalid" =>
          asked[l] \notin Addressable \/ (served[l] # Nothing /\ ~IsUsable(l))

StatusInv == TypeOK /\ \A l \in Lookups : LookupInv(l)

-----------------------------------------------------------------------------
(* The card                                                                *)

\* What a card says of the trainings, in terms of their dates.
LEMMA CardContents ==
    ASSUME NEW s \in Served
    PROVE  /\ Card(s).outcome = s.application
           /\ Card(s).version = s.version
           /\ Card(s).blocking = {t \in s.form.required : ParsesTo(s.form.date[t]) # "time"}
           /\ Card(s).completed = {t \in s.form.required : ParsesTo(s.form.date[t]) = "time"}
<1> DEFINE req == Requirements(s.form)
<1>1. /\ DOMAIN req = s.form.required
      /\ \A t \in s.form.required :
            /\ req[t].blocking = (ParsesTo(s.form.date[t]) # "time")
            /\ (req[t].state = "satisfied") <=> (ParsesTo(s.form.date[t]) = "time")
  BY DEF Requirements
<1>2. /\ Card(s).blocking = {t \in DOMAIN req : req[t].blocking /\ req[t].state # "satisfied"}
      /\ Card(s).completed = {t \in DOMAIN req : req[t].state = "satisfied"}
      /\ Card(s).outcome = s.application
      /\ Card(s).version = s.version
  BY DEF Card
<1> HIDE DEF req
<1>3. Card(s).blocking = {t \in s.form.required : ParsesTo(s.form.date[t]) # "time"}
  BY <1>1, <1>2
<1>4. Card(s).completed = {t \in s.form.required : ParsesTo(s.form.date[t]) = "time"}
  BY <1>1, <1>2
<1> QED
  BY <1>2, <1>3, <1>4

\* A card is a card.
LEMMA CardTypes ==
    ASSUME NEW s \in Served PROVE Card(s) \in Cards
<1>1. /\ s.application \in Applications
      /\ s.form \in FormType
      /\ s.version \in Nat
  BY StatusAssumption DEF Served
<1>2. s.form.required \in SUBSET Trainings
  BY <1>1 DEF FormType
<1>3. Card(s).blocking \in SUBSET Trainings /\ Card(s).completed \in SUBSET Trainings
  BY <1>2, CardContents
<1>4. Stage(s.form) \in {"completed", "rejected", "error", "verification"}
  BY DEF Stage
<1>5. PICK b, c : Card(s) =
         [outcome |-> s.application, stage |-> Stage(s.form), blocking |-> b, completed |-> c,
          version |-> s.version]
  BY DEF Card
<1>6. Card(s).blocking = b /\ Card(s).completed = c
  BY <1>5
<1> QED
  BY <1>1, <1>3, <1>4, <1>5, <1>6 DEF Cards

-----------------------------------------------------------------------------
(* One lookup                                                              *)

\* A lookup that a step does not touch keeps its invariant when the versions
\* do not decrease.
LEMMA Untouched ==
    ASSUME TypeOK, TypeOK', NEW l \in Lookups, LookupInv(l),
           asked'[l] = asked[l], since'[l] = since[l],
           served'[l] = served[l], reply'[l] = reply[l],
           \A a \in Applications : version[a] <= version'[a]
    PROVE  LookupInv(l)'
<1>1. asked[l] # Nothing => version[asked[l]] <= version'[asked[l]]
  BY DEF TypeOK
<1>2. served[l] # Nothing =>
         /\ served[l].version \in Nat
         /\ version[served[l].application] <= version'[served[l].application]
  BY DEF TypeOK
<1>3. since[l] \in Nat /\ \A a \in Applications : version[a] \in Nat /\ version'[a] \in Nat
  BY DEF TypeOK
<1>4. served[l] # Nothing => served[l].application \in Applications
  BY DEF TypeOK
<1>5. asked[l] # Nothing => asked[l] \in Applications
  BY DEF TypeOK
<1> QED
  BY <1>1, <1>2, <1>3, <1>4, <1>5 DEF LookupInv, HasCard, IsUsable

-----------------------------------------------------------------------------
(* The steps                                                               *)

LEMMA InitHolds == Init => StatusInv
<1> SUFFICES ASSUME Init PROVE StatusInv
  OBVIOUS
<1>1. TypeOK
  BY StatusAssumption DEF Init, TypeOK
<1>2. \A l \in Lookups : LookupInv(l)
  BY DEF Init, LookupInv, HasCard
<1> QED
  BY <1>1, <1>2 DEF StatusInv

LEMMA ChangeKeeps ==
    ASSUME StatusInv, NEW a \in Applications, Change(a) PROVE StatusInv'
<1>1. TypeOK'
  BY StatusAssumption DEF StatusInv, Change, TypeOK
<1>2. \A b \in Applications : version[b] <= version'[b]
  BY DEF StatusInv, Change, TypeOK
<1>3. \A l \in Lookups : LookupInv(l)'
  BY <1>1, <1>2, Untouched DEF StatusInv, Change
<1> QED
  BY <1>1, <1>3 DEF StatusInv

LEMMA AskKeeps ==
    ASSUME StatusInv, NEW l \in Lookups, NEW a \in Applications, Ask(l, a) PROVE StatusInv'
<1>1. TypeOK'
  <2>1. asked' \in [Lookups -> Applications \cup {Nothing}]
    BY DEF StatusInv, Ask, TypeOK
  <2>2. since' \in [Lookups -> 0..MaxVersion]
    BY DEF StatusInv, Ask, TypeOK
  <2>3. reply' \in [Lookups -> Failures \cup Cards \cup {Nothing}]
    BY DEF StatusInv, Ask, TypeOK, Answer, Failure, Failures
  <2> QED
    BY <2>1, <2>2, <2>3 DEF StatusInv, Ask, TypeOK
<1>2. LookupInv(l)'
  <2>1. served[l] = Nothing /\ reply[l] = Nothing /\ served' = served /\ version' = version
    BY DEF StatusInv, Ask, LookupInv
  <2>2. asked'[l] = a /\ since'[l] = version[a] /\ a # Nothing /\ version[a] \in Nat
    BY StatusAssumption DEF StatusInv, Ask, TypeOK
  <2>3. reply'[l] = Nothing \/ (a \notin Addressable /\ reply'[l] = Failure("invalid"))
    BY <2>1 DEF StatusInv, Ask, TypeOK, Answer
  <2>4. ~HasCard(l)'
    BY <2>3 DEF HasCard, Failure
  <2> QED
    BY <2>1, <2>2, <2>3, <2>4 DEF LookupInv
<1>3. ASSUME NEW k \in Lookups, k # l PROVE LookupInv(k)'
  <2>1. /\ asked'[k] = asked[k] /\ since'[k] = since[k]
        /\ served'[k] = served[k] /\ reply'[k] = reply[k]
    BY <1>3 DEF StatusInv, Ask, TypeOK, Answer
  <2>2. \A b \in Applications : version[b] <= version'[b]
    BY DEF StatusInv, Ask, TypeOK
  <2> QED
    BY <1>1, <2>1, <2>2, Untouched DEF StatusInv
<1> QED
  BY <1>1, <1>2, <1>3 DEF StatusInv

LEMMA ServeKeeps ==
    ASSUME StatusInv, NEW l \in Lookups, NEW a \in Applications, NEW form \in Forms,
           Serve(l, a, form)
    PROVE  StatusInv'
<1> DEFINE reading == [application |-> a, form |-> form, version |-> version[a]]
<1>1. reading \in Served /\ reading.application = a /\ reading.version = version[a]
  BY DEF StatusInv, TypeOK, Served
<1>2. served' = [served EXCEPT ![l] = reading]
  BY DEF Serve
<1> HIDE DEF reading
<1>3. TypeOK'
  BY <1>1, <1>2 DEF StatusInv, Serve, TypeOK, Served
<1>4. LookupInv(l)'
  <2>1. /\ asked'[l] = asked[l] /\ since'[l] = since[l] /\ reply'[l] = Nothing
        /\ version' = version /\ asked[l] # Nothing /\ asked[l] \in Applications
        /\ served'[l] = reading
    BY <1>2 DEF StatusInv, Serve, TypeOK, Awaiting
  <2>2. version[a] \in Nat /\ since[l] <= version[asked[l]]
    BY <2>1 DEF StatusInv, LookupInv, TypeOK
  <2>3. ~HasCard(l)'
    BY <2>1 DEF HasCard
  <2> QED
    BY <1>1, <2>1, <2>2, <2>3 DEF LookupInv
<1>5. ASSUME NEW k \in Lookups, k # l PROVE LookupInv(k)'
  <2>1. /\ asked'[k] = asked[k] /\ since'[k] = since[k]
        /\ served'[k] = served[k] /\ reply'[k] = reply[k]
    BY <1>2, <1>5 DEF StatusInv, Serve, TypeOK
  <2>2. \A b \in Applications : version[b] <= version'[b]
    BY DEF StatusInv, Serve, TypeOK
  <2> QED
    BY <1>3, <2>1, <2>2, Untouched DEF StatusInv
<1> QED
  BY <1>3, <1>4, <1>5 DEF StatusInv

\* A failure is not mistaken for anything else.
LEMMA FailureFacts ==
    ASSUME NEW cause \in {"down", "invalid"}
    PROVE  Failure(cause) # Nothing /\ Failure(cause).outcome = cause
<1>1. Failure(cause) \in Failures /\ Failure(cause).outcome = cause
  BY DEF Failure, Failures
<1> QED
  BY <1>1, StatusAssumption

\* The end of a lookup: with a failure, or with the card of a usable reply.
LEMMA AnswerKeeps ==
    ASSUME StatusInv, NEW l \in Lookups, Awaiting(l), NEW r, Answer(l, r),
           UNCHANGED <<version, asked, since, served>>,
           \/ r = Failure("down")
           \/ r = Failure("invalid") /\ served[l] # Nothing /\ ~IsUsable(l)
           \/ IsUsable(l) /\ r = Card(served[l])
    PROVE  StatusInv'
<1>1. r \in Failures \cup Cards
  <2>1. served[l] # Nothing => served[l] \in Served
    BY DEF StatusInv, TypeOK, Served
  <2> QED
    BY <2>1, CardTypes DEF Failure, Failures, IsUsable
<1>2. TypeOK'
  BY <1>1 DEF StatusInv, TypeOK, Answer
<1>3. LookupInv(l)'
  <2>1. /\ reply'[l] = r /\ asked'[l] = asked[l] /\ since'[l] = since[l]
        /\ served'[l] = served[l] /\ version' = version /\ asked[l] # Nothing
    BY DEF StatusInv, TypeOK, Answer, Awaiting
  <2>2. CASE r = Failure("down")
    <3>1. ~HasCard(l)' /\ r.outcome = "down"
      BY <2>1, <2>2 DEF HasCard, Failure
    <3> QED
      BY <2>1, <3>1 DEF StatusInv, LookupInv
  <2>3. CASE r = Failure("invalid") /\ served[l] # Nothing /\ ~IsUsable(l)
    <3>1. ~HasCard(l)' /\ IsUsable(l)' = IsUsable(l)
      BY <2>1, <2>3 DEF HasCard, Failure, IsUsable
    <3> QED
      BY <2>1, <2>3, <3>1 DEF StatusInv, LookupInv
  <2>4. CASE IsUsable(l) /\ r = Card(served[l])
    <3>1. served[l] \in Served
      BY <2>4 DEF StatusInv, TypeOK, Served, IsUsable
    <3>2. r.outcome \in Applications
      BY <2>4, <3>1, CardContents DEF Served
    <3>3. r.outcome # "invalid"
      BY <3>2, StatusAssumption
    <3>4. IsUsable(l)' /\ reply'[l] = Card(served'[l])
      BY <2>1, <2>4 DEF IsUsable
    <3> QED
      BY <2>1, <3>3, <3>4 DEF StatusInv, LookupInv
  <2> QED
    BY <2>2, <2>3, <2>4
<1>4. ASSUME NEW k \in Lookups, k # l PROVE LookupInv(k)'
  <2>1. reply'[k] = reply[k]
    BY <1>4 DEF StatusInv, TypeOK, Answer
  <2>2. \A b \in Applications : version[b] <= version'[b]
    BY DEF StatusInv, TypeOK
  <2> QED
    BY <1>2, <2>1, <2>2, Untouched DEF StatusInv
<1> QED
  BY <1>2, <1>3, <1>4 DEF StatusInv

LEMMA StepKeeps == StatusInv /\ [Next]_vars => StatusInv'
<1> SUFFICES ASSUME StatusInv, [Next]_vars PROVE StatusInv'
  OBVIOUS
<1>1. ASSUME NEW a \in Applications, Change(a) PROVE StatusInv'
  BY <1>1, ChangeKeeps
<1>2. ASSUME NEW l \in Lookups, NEW a \in Applications, Ask(l, a) PROVE StatusInv'
  BY <1>2, AskKeeps
<1>3. ASSUME NEW l \in Lookups, NEW a \in Applications, NEW form \in Forms, Serve(l, a, form)
      PROVE  StatusInv'
  BY <1>3, ServeKeeps
<1>4. ASSUME NEW l \in Lookups, Down(l) PROVE StatusInv'
  BY <1>4, AnswerKeeps DEF Down
<1>5. ASSUME NEW l \in Lookups, Receive(l) PROVE StatusInv'
  BY <1>5, AnswerKeeps DEF Receive, IsUsable
<1>6. CASE UNCHANGED vars
  BY <1>6 DEF vars, StatusInv, TypeOK, LookupInv, HasCard, IsUsable
<1> QED
  BY <1>1, <1>2, <1>3, <1>4, <1>5, <1>6 DEF Next

-----------------------------------------------------------------------------
(* Theorems                                                                *)

\* StatusInv holds in every state: what a lookup ended with is the card of a
\* usable reply, or a failure with its cause.
THEOREM StatusInvariant == Spec => []StatusInv
<1>1. Init => StatusInv
  BY InitHolds
<1>2. StatusInv /\ [Next]_vars => StatusInv'
  BY StepKeeps
<1> QED
  BY <1>1, <1>2, PTL DEF Spec

\* The state of every lookup keeps its types.
THEOREM TypeCorrect == Spec => []TypeOK
<1>1. StatusInv => TypeOK
  BY DEF StatusInv
<1> QED
  BY <1>1, StatusInvariant, PTL

\* The reply behind a card is one of Carrier Hub's.
LEMMA CardIsServed ==
    ASSUME StatusInv, NEW l \in Lookups, HasCard(l)
    PROVE  served[l] \in Served /\ IsUsable(l) /\ reply[l] = Card(served[l])
<1>1. IsUsable(l) /\ reply[l] = Card(served[l])
  BY DEF StatusInv, LookupInv
<1> QED
  BY <1>1 DEF StatusInv, TypeOK, Served, IsUsable

\* The two lists of every card hold what Carrier Hub requires, each training
\* on the list that its date puts it on.
THEOREM RequirementsListed == Spec => []EveryRequirementListed
<1>1. StatusInv => EveryRequirementListed
  <2> SUFFICES ASSUME StatusInv, NEW l \in Lookups, HasCard(l)
               PROVE  /\ reply[l].blocking = served[l].form.required \ reply[l].completed
                      /\ reply[l].completed =
                            {t \in served[l].form.required : served[l].form.date[t] = "date"}
    BY DEF EveryRequirementListed
  <2>1. served[l] \in Served /\ reply[l] = Card(served[l])
    BY CardIsServed
  <2>2. /\ reply[l].blocking =
              {t \in served[l].form.required : ParsesTo(served[l].form.date[t]) # "time"}
        /\ reply[l].completed =
              {t \in served[l].form.required : ParsesTo(served[l].form.date[t]) = "time"}
    BY <2>1, CardContents
  <2>3. \A stamp : ParsesTo(stamp) = "time" <=> stamp = "date"
    BY DEF ParsesTo
  <2> QED
    BY <2>2, <2>3
<1> QED
  BY <1>1, StatusInvariant, PTL

\* A card is no older than the question it answers.
THEOREM FreshCards == Spec => []CardIsFresh
<1>1. StatusInv => CardIsFresh
  <2> SUFFICES ASSUME StatusInv, NEW l \in Lookups, HasCard(l)
               PROVE  reply[l].version \in since[l]..version[asked[l]]
    BY DEF CardIsFresh
  <2>1. served[l] \in Served /\ IsUsable(l) /\ reply[l] = Card(served[l])
    BY CardIsServed
  <2>2. reply[l].version = served[l].version
    BY <2>1, CardContents
  <2>3. since[l] <= served[l].version /\ served[l].version <= version[asked[l]]
    BY <2>1 DEF StatusInv, LookupInv, IsUsable
  <2>4. served[l].version \in Nat
    BY <2>1 DEF Served
  <2>5. since[l] \in Nat /\ asked[l] \in Applications /\ version[asked[l]] \in Nat
    BY <2>1 DEF StatusInv, TypeOK, IsUsable, Served
  <2> QED
    BY <2>2, <2>3, <2>4, <2>5
<1> QED
  BY <1>1, StatusInvariant, PTL

\* A reply with all that is mandatory is refused for another application's or
\* for a date without a UTC time only.
THEOREM Refusals == Spec => []RefusedForCause
<1>1. StatusInv => RefusedForCause
  <2> SUFFICES ASSUME StatusInv, NEW l \in Lookups,
                      reply[l] # Nothing, reply[l].outcome = "invalid", asked[l] \in Addressable
               PROVE  \/ served[l].application # asked[l]
                      \/ ~served[l].form.complete \/ served[l].form.updated # "date"
                      \/ "out_of_range" \in
                            {served[l].form.date[t] : t \in served[l].form.required}
                            \cup {served[l].form.vendor[v] : v \in Vendors}
    BY DEF RefusedForCause
  <2>1. served[l] # Nothing /\ ~IsUsable(l)
    BY DEF StatusInv, LookupInv
  <2>2. served[l].application # asked[l] \/ Raises(served[l].form)
    BY <2>1 DEF IsUsable
  <2>3. \A stamp : ParsesTo(stamp) = "raises" => stamp = "out_of_range"
    BY DEF ParsesTo
  <2> QED
    BY <2>2, <2>3 DEF Raises
<1> QED
  BY <1>1, StatusInvariant, PTL

-----------------------------------------------------------------------------
(* The promise                                                             *)

\* The abstract outcomes after a lookup has ended.
LEMMA OutcomeChanges ==
    ASSUME TypeOK, NEW l \in Lookups, NEW r, r # Nothing, Answer(l, r)
    PROVE  [k \in Lookups |-> Outcome(k)]' =
              [[k \in Lookups |-> Outcome(k)] EXCEPT ![l] = r.outcome]
BY DEF TypeOK, Answer, Outcome

LEMMA PromiseStep ==
    ASSUME StatusInv, [Next]_vars PROVE [Live!Next]_Live!vars
<1>1. ASSUME NEW l \in Lookups, NEW a \in Applications, Ask(l, a) PROVE Live!Next
  <2>1. CASE a \in Addressable
    <3>1. Live!Ask(l, a)
      BY <1>1, <2>1 DEF Ask, Live!Ask, Outcome
    <3> QED
      BY <3>1 DEF Live!Next, Live!Failures
  <2>2. CASE a \notin Addressable
    <3>1. Answer(l, Failure("invalid")) /\ Failure("invalid") # Nothing
          /\ Failure("invalid").outcome = "invalid"
      BY <1>1, <2>2, FailureFacts DEF Ask
    <3>2. Live!Refuse(l, a)
      BY <1>1, <3>1, OutcomeChanges DEF StatusInv, Ask, Live!Refuse
    <3> QED
      BY <3>2 DEF Live!Next, Live!Failures
  <2> QED
    BY <2>1, <2>2
<1>2. ASSUME NEW l \in Lookups, Awaiting(l), NEW r, r # Nothing, Answer(l, r),
             r.outcome \in {"down", "invalid", asked[l]}, asked' = asked
      PROVE  Live!Next
  <2>1. asked[l] \in Applications
    BY <1>2 DEF StatusInv, TypeOK, Awaiting
  <2>2. Live!End(l, r.outcome)
    BY <1>2, OutcomeChanges DEF StatusInv, Awaiting, Live!End, Live!Failures, Outcome
  <2>3. r.outcome \in Live!Failures \cup Applications
    BY <1>2, <2>1 DEF Live!Failures
  <2> QED
    BY <2>1, <2>2, <2>3 DEF Live!Next
<1>3. ASSUME NEW l \in Lookups, Down(l) PROVE Live!Next
  <2>1. Failure("down") # Nothing /\ Failure("down").outcome = "down"
    BY FailureFacts
  <2> QED
    BY <1>2, <1>3, <2>1 DEF Down
<1>4. ASSUME NEW l \in Lookups, Receive(l) PROVE Live!Next
  <2>1. CASE IsUsable(l)
    <3>1. served[l] \in Served /\ Answer(l, Card(served[l]))
      BY <1>4, <2>1 DEF StatusInv, TypeOK, Receive, Served, IsUsable
    <3>2. Card(served[l]).outcome = asked[l]
      BY <2>1, <3>1, CardContents DEF IsUsable
    <3>3. Card(served[l]) # Nothing
      BY <3>1, CardTypes, StatusAssumption
    <3> QED
      BY <1>2, <1>4, <3>1, <3>2, <3>3 DEF Receive
  <2>2. CASE ~IsUsable(l)
    <3>1. Answer(l, Failure("invalid")) /\ Failure("invalid") # Nothing
          /\ Failure("invalid").outcome = "invalid"
      BY <1>4, <2>2, FailureFacts DEF Receive, IsUsable
    <3> QED
      BY <1>2, <1>4, <3>1 DEF Receive
  <2> QED
    BY <2>1, <2>2
<1>5. ASSUME UNCHANGED <<asked, reply>> PROVE UNCHANGED Live!vars
  BY <1>5 DEF Live!vars, Outcome
<1>6. ASSUME NEW a \in Applications, Change(a) PROVE UNCHANGED Live!vars
  BY <1>5, <1>6 DEF Change
<1>7. ASSUME NEW l \in Lookups, NEW a \in Applications, NEW form \in Forms, Serve(l, a, form)
      PROVE  UNCHANGED Live!vars
  BY <1>5, <1>7 DEF Serve
<1>8. CASE UNCHANGED vars
  BY <1>5, <1>8 DEF vars
<1> QED
  BY <1>1, <1>3, <1>4, <1>6, <1>7, <1>8 DEF Next

\* The status tool implements LiveLookup.
THEOREM PromiseKept == Spec => KeepsPromise
<1>1. Init => Live!Init
  BY DEF Init, Live!Init, Outcome
<1>2. StatusInv /\ [Next]_vars => [Live!Next]_Live!vars
  BY PromiseStep
<1> QED
  BY <1>1, <1>2, StatusInvariant, PTL DEF Spec, KeepsPromise, Live!Spec

=============================================================================
