------------------------------ MODULE LiveLookup ------------------------------
(***************************************************************************)
(* What the answer service promises of its live tools, the status of an    *)
(* application and the data of a market: a lookup ends once, without an    *)
(* answer or with an answer about the very subject it was asked for.       *)
(***************************************************************************)
CONSTANTS Lookups, Subjects, Nothing

\* How a lookup ends without an answer: an error 503, an error 500, a handoff.
Failures == {"down", "invalid", "unknown"}

VARIABLES about, outcome   \* the subject asked for, the end of the lookup

vars == <<about, outcome>>

Init ==
    /\ about = [l \in Lookups |-> Nothing]
    /\ outcome = [l \in Lookups |-> Nothing]

Ask(l, s) ==
    /\ about[l] = Nothing
    /\ about' = [about EXCEPT ![l] = s]
    /\ UNCHANGED outcome

\* An application id or a market name may be refused before anything is asked.
Refuse(l, s) ==
    /\ about[l] = Nothing
    /\ about' = [about EXCEPT ![l] = s]
    /\ outcome' = [outcome EXCEPT ![l] = "invalid"]

End(l, o) ==
    /\ about[l] # Nothing
    /\ outcome[l] = Nothing
    /\ o \in Failures \cup {about[l]}
    /\ outcome' = [outcome EXCEPT ![l] = o]
    /\ UNCHANGED about

Next == \E l \in Lookups, s \in Subjects, o \in Failures \cup Subjects :
            Ask(l, s) \/ Refuse(l, s) \/ End(l, o)

Spec == Init /\ [][Next]_vars
=============================================================================
