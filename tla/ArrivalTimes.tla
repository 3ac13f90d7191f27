---------------------------- MODULE ArrivalTimes ----------------------------
(***************************************************************************)
(* The schedule of a drawn route: computeArrivalTimes in api/v1_route.go   *)
(* and visitIntervalRange in api/v1_visitPlan.go; the legs of a route with *)
(* stops on top of each other: internal/tsp/tsp_solver.go.                 *)
(*                                                                         *)
(* An instant is a number of seconds since midnight of the day of the      *)
(* route, below 0 or above a day on its neighbours; a printed time ("15:04"*)
(* in the code) is the minute of the day, whatever the day.                *)
(***************************************************************************)
EXTENDS Integers, Sequences, SequencesExt

Minute == 60
Hour == 60           \* in minutes
Day == 24 * Hour     \* in minutes

\* time.Format("15:04")
Printed(instant) == (instant \div Minute) % Day

\* Mutant: no service time in the backward schedule.
BackWithoutService(next, service, leg) == next - leg

Back(next, service, leg) == next - service * Minute - leg

Forward(previous, service, leg) == previous + service * Minute + leg

\* The instants at the stops; s are the settings, in minutes.
Instants(s, legs) ==
    LET n == Len(legs) + 1
        backward[i \in 1..n] ==
            IF i = n THEN s.end * Minute ELSE Back(backward[i + 1], s.service, legs[i])
        forward[i \in 1..n] ==
            IF i = 1 THEN s.start * Minute ELSE Forward(forward[i - 1], s.service, legs[i - 1])
    IN  IF s.anchor = "end" THEN backward ELSE forward

\* computeArrivalTimes: overrun compares instants, the times are printed.
computeArrivalTimes(s, legs) ==
    LET t == Instants(s, legs)
        n == Len(legs) + 1
    IN  [times |-> [i \in 1..n |-> Printed(t[i])],
         overrun |-> IF s.anchor = "end" THEN t[1] < s.start * Minute
                     ELSE t[n] > s.end * Minute]

----------------------------------------------------------------------------
LastArrival == 20 * Hour \* "Latest arrival time is 20:00 by law"

\* The nearest full hour, 24:00 included.
Rounded(t) == ((t + 30) \div Hour) * Hour

\* Mutant: the visitor is not announced an hour early.
EarlyWithoutMargin(rounded) == [start |-> rounded, end |-> rounded + 2 * Hour]

Early(rounded) == [start |-> rounded - Hour, end |-> rounded + 2 * Hour]

\* From the hour 18 on (the clock's hour: 24:00 is hour 0).
Late(rounded) ==
    IF rounded = 20 * Hour THEN [start |-> rounded - 3 * Hour, end |-> rounded]
    ELSE [start |-> rounded - 2 * Hour, end |-> rounded + Hour]

Capped(t) == IF t > LastArrival THEN LastArrival ELSE t

\* visitIntervalRange: the printed bounds of the interval for a printed time.
visitIntervalRange(t) ==
    LET r == Rounded(t)
        i == IF (r % Day) >= 18 * Hour THEN Late(r) ELSE Early(r)
    IN  [start |-> i.start % Day, end |-> Capped(i.end) % Day]

----------------------------------------------------------------------------
\* Stops on top of each other are one place for Valhalla. "together" are the
\* pairs of stops that are (coLocated).

\* collapseConsecutive: per stop, the number of its place among those asked.
Collapsed(stops, together) ==
    LET seen[i \in 1..Len(stops)] ==
            IF i = 1 THEN [unique |-> <<stops[1]>>, reps |-> <<1>>]
            ELSE LET c == seen[i - 1]
                 IN  IF <<Last(c.unique), stops[i]>> \in together
                     THEN [c EXCEPT !.reps = Append(@, Len(c.unique))]
                     ELSE [unique |-> Append(c.unique, stops[i]),
                           reps |-> Append(c.reps, Len(c.unique) + 1)]
    IN  seen[Len(stops)]

\* Mutant: the legs are read by the number of the stop.
LegsByStop(reps, legs) ==
    [i \in 1..(Len(reps) - 1) |->
        IF reps[i] = reps[i + 1] \/ i > Len(legs) THEN 0 ELSE legs[i]]

\* expandLegs: one leg per pair of stops.
expandLegs(reps, legs) ==
    [i \in 1..(Len(reps) - 1) |->
        IF reps[i] = reps[i + 1] THEN 0 ELSE legs[reps[i]]]
=============================================================================
