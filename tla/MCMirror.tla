------------------------------ MODULE MCMirror ------------------------------
EXTENDS Mirror

\* Money is at its tightest in a year, turnover at its highest, the basket at its
\* cheapest; the leaders and the demand have no history.
Mixed == [levels |-> <<>>, revs |-> <<>>, yields |-> [i \in 1..MinMacro |-> i],
          turns |-> [i \in 1..MinCrowding |-> i], pes |-> [i \in 1..MinPE |-> 20 - i]]

AllBooks == {Mixed}

Said(a, c) == [action |-> a, confidence |-> c]

\* A case for buying, and two orders that differ.
AllSeats ==
    {[bull |-> 6, bear |-> 1, fwd |-> Said("buy_early", 90), rev |-> Said("buy_early", 80)],
     [bull |-> 1, bear |-> 2, fwd |-> Said("trim", 60), rev |-> Said("hold", 70)]}
=============================================================================
