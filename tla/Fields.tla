------------------------------- MODULE Fields -------------------------------
(***************************************************************************)
(* How the readers of a node's dictionary take a number out of it: the     *)
(* tolerant conversions that core/summarize.py and the formatters share.   *)
(* A dictionary is a function from its keys; a value that is the text of a *)
(* number is that number, any other text is NA.                            *)
(***************************************************************************)
EXTENDS Integers, Functions

NA      == -1    \* a text that is no number: N/A, [Not Supported], -
Unknown == -1    \* the sentinel of the percentage columns

\* Mutant of NumberOr: the text is not converted.
NumberOrText(d, k, default) == IF k \in DOMAIN d THEN d[k] ELSE default

\* _f, _i and _to_float: the number under key k, or the default when there is
\* no such key or no number under it.
NumberOr(d, k, default) == IF k \in DOMAIN d /\ d[k] # NA THEN d[k] ELSE default
Number(d, k) == NumberOr(d, k, 0)

\* {**old, **new}: two dictionaries in one, the values of new over those of old.
Merged(old, new) ==
  [k \in DOMAIN old \cup DOMAIN new |-> IF k \in DOMAIN new THEN new[k] ELSE old[k]]

\* The sum of a column over some of its places.
SumAt(column, places) == SumFunctionOnSet(column, places)

\* _pct and _avg, rounded down: an empty denominator gives 0.
Percent(part, whole)  == IF whole = 0 THEN 0 ELSE (100 * part) \div whole
Average(sum, count) == IF count = 0 THEN 0 ELSE sum \div count
=============================================================================
