------------------------------ MODULE Statistics ------------------------------
(***************************************************************************)
(* The computations Analytics, MonteCarloSimulator and PerformanceMonitor  *)
(* make on numbers they collected.  Ratios are pairs of integers; samples  *)
(* that are sorted before they are used are bags: how often each value     *)
(* occurs.                                                                 *)
(***************************************************************************)
EXTENDS Integers, SequencesExt

(* The peak so far, and the deepest fall below a peak as <<fall, peak>>.   *)
Fall(d, equity) ==
  LET peak == IF equity > d.peak THEN equity ELSE d.peak
      deeper == (peak - equity) * d.worst[2] > d.worst[1] * peak
  IN [peak |-> peak, worst |-> IF deeper THEN <<peak - equity, peak>> ELSE d.worst]

(* Mutant of MaxDrawdown: the first point remains the peak. *)
DrawdownFromStart(curve) ==
  FoldLeft(LAMBDA d, e : [Fall(d, e) EXCEPT !.peak = d.peak],
           [peak |-> curve[1], worst |-> <<0, 1>>], curve).worst

MaxDrawdown(curve) ==
  FoldLeft(Fall, [peak |-> curve[1], worst |-> <<0, 1>>], curve).worst

Count(samples, P(_)) ==
  MapThenSumSet(LAMBDA v : samples[v], {v \in DOMAIN samples : P(v)})
Size(samples) == Count(samples, LAMBDA v : TRUE)
Below(samples, x) == Count(samples, LAMBDA v : v < x)
Above(samples, x) == Count(samples, LAMBDA v : v > x)

(* The elements at an index, from 0, of the sorted samples: none if it is  *)
(* out of range.                                                           *)
At(samples, i) == {v \in DOMAIN samples :
                     Below(samples, v) <= i /\ i < Below(samples, v) + samples[v]}

(* Mutant of Index: rounded to the nearest. *)
IndexRounded(size, percent) == (size * percent + 50) \div 100

(* static_cast<size_t>(size * fraction): the fractions used are so close   *)
(* to the percentages that whole products come out exact.                  *)
Index(size, percent) == (size * percent) \div 100
Percentile(samples, percent) == At(samples, Index(Size(samples), percent))

(* There is such a sample, and no more than that part of them exceeds it,  *)
(* or the rest falls below.                                                *)
RanksFromAbove(samples, percent) ==
  \E x \in Percentile(samples, percent) :
    Above(samples, x) * 100 <= (100 - percent) * Size(samples)
RanksFromBelow(samples, percent) ==
  \E x \in Percentile(samples, percent) :
    Below(samples, x) * 100 <= percent * Size(samples)
=============================================================================
