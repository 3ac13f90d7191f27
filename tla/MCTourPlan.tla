----------------------------- MODULE MCTourPlan -----------------------------
(* TourPlan for TLC: stops on a line, a cheap and a dear road.             *)
EXTENDS TourPlan

\* One stop; two and three apart, or on top of each other (2 near 1 and 3, which
\* are apart); four apart, and four of which two are together.
MCGroups == {<<1>>, <<1, 5>>, <<1, 1>>, <<1, 5, 9>>, <<1, 5, 1>>, <<1, 2, 3>>,
             <<1, 5, 9, 13>>, <<5, 1, 2, 9>>}

\* Segments are solved for all pairs of ends up to 20 stops, tours exactly up to
\* 25. Here, with the first limits three stops are between the two and four
\* beyond both; with the second everything is exact, with the third nothing of
\* three stops or more.
MCLimits ==
    {[tour |-> 3, segment |-> 2], [tour |-> 5, segment |-> 4], [tour |-> 2, segment |-> 2]}

At(h, m) == h * 60 + m

MCDefaults == [start |-> At(13, 0), service |-> 15, end |-> At(20, 0), anchor |-> "start"]

\* A day that is easily overrun, one that ends before it starts, nothing but
\* the roads; anchored at either end.
MCSettings ==
    {[start |-> At(16, 25), service |-> 15, end |-> At(18, 10), anchor |-> "end"],
     [start |-> At(18, 45), service |-> 0, end |-> At(20, 20), anchor |-> "start"],
     [start |-> At(1, 0), service |-> 20, end |-> At(0, 40), anchor |-> "end"],
     [start |-> At(22, 50), service |-> 10, end |-> At(23, 59), anchor |-> "start"]}
=============================================================================
