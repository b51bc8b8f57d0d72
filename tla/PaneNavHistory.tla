--------------------------- MODULE PaneNavHistory ---------------------------
(* PaneNavHistory (core.rs): the back and forward stacks of one pane. *)
EXTENDS Naturals, Sequences, SequencesExt

CONSTANTS
    HistoryCap,     \* PaneNavHistory::MAX
    None            \* a pane without a path

ASSUME HistoryAssumption == HistoryCap \in Nat \ {0}

NoHistory == [back |-> <<>>, forward |-> <<>>]

\* push_navigating_from: the oldest places are forgotten.
PushNavigatingFrom(h, from, to) ==
    IF from \in {None, to} THEN h
    ELSE LET all == Append(h.back, from)
             excess == IF Len(all) > HistoryCap THEN Len(all) - HistoryCap ELSE 0
         IN  [back |-> SubSeq(all, excess + 1, Len(all)), forward |-> <<>>]

\* go_back, for a history with something on its back stack
GoBack(h, current) == [back |-> Front(h.back), forward |-> Append(h.forward, current)]

\* go_forward
GoForward(h, current) == [back |-> Append(h.back, current), forward |-> Front(h.forward)]

\* What lies behind, the pane's own directory and what lies ahead.
Trail(h, d) == h.back \o <<d>> \o Reverse(h.forward)
=============================================================================
