-------------------------- MODULE MCQuestionInventory --------------------------
(* Small instances of QuestionInventory for TLC.                           *)
EXTENDS QuestionInventory

\* Three of the categories, with one or two of their terms, in their order.
MCCategories ==
    <<[name |-> "pay_rates_loads", terms |-> {"pay"}],
      [name |-> "documents_compliance", terms |-> {"w9"}],
      [name |-> "support_contact", terms |-> {"phone", "call"}]>>

line(label, asks, quoted, said, lost, ids) ==
    [label |-> label, asks |-> asks, quoted |-> quoted, said |-> said, lost |-> lost, ids |-> ids]

\* Questions of every kind and statements, with and without identifiers, and two
\* whose wording goes with a number or an address, in part or as a whole.
MCLines ==
    {line("agent", TRUE, FALSE, {"w9", "call"}, {}, {}),
     line("agent", FALSE, FALSE, {}, {}, {"email"}),
     line("carrier", TRUE, FALSE, {"pay", "w9"}, {}, {"phone"}),
     line("carrier", TRUE, FALSE, {}, {"w9"}, {"phone"}),
     line("caller", TRUE, FALSE, {"call"}, {"pay"}, {"email", "number"}),
     line("none", TRUE, FALSE, {"pay"}, {}, {"phone"}),
     line("none", FALSE, FALSE, {"pay"}, {}, {}),
     line("other", TRUE, TRUE, {"call"}, {}, {"email"})}

=============================================================================
