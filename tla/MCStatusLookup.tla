---------------------------- MODULE MCStatusLookup ----------------------------
(* Small instances of StatusLookup for TLC.                                *)
EXTENDS StatusLookup, TLC

CONSTANTS safeland, w9, rmis

Base == [complete |-> TRUE, updated |-> "date", status |-> "other", required |-> Trainings,
         date |-> [t \in Trainings |-> "date"],
         vendor |-> [v \in Vendors |-> "date"]]

\* Every pair of dates of the trainings that count, trainings that are not
\* required, and one deviation of each other kind.
MCForms ==
    {[Base EXCEPT !.date = d] : d \in [Trainings -> {"missing", "unreadable", "date"}]}
    \cup {[Base EXCEPT !.date[w9] = "out_of_range", !.required = req] : req \in SUBSET Trainings}
    \cup {[Base EXCEPT !.date[w9] = "missing", !.required = {safeland}]}
    \cup {[Base EXCEPT !.status = s] : s \in {"onboarding_completed", "rejected"}}
    \cup {[Base EXCEPT !.complete = FALSE], [Base EXCEPT !.updated = "unreadable"]}
    \cup {[Base EXCEPT !.vendor[rmis] = stamp] : stamp \in {"missing", "out_of_range"}}

LookupSymmetry == Permutations(Lookups)

=============================================================================
