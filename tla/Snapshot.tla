------------------------------- MODULE Snapshot -------------------------------
(***************************************************************************)
(* cppmetrics::core::Snapshot: the statistics of the values of a sample.   *)
(* A snapshot is sorted and never changes; here the next one is of a       *)
(* sample that has got one more value or was cleared, so every snapshot of *)
(* up to MaxSize values comes up.                                          *)
(*                                                                         *)
(* Doubles are exact fractions, [num, den]: what their rounding adds, also *)
(* to whole numbers above 2^53, and the square root in getStdDev are left  *)
(* out.                                                                    *)
(***************************************************************************)
EXTENDS Integers, Sequences, FiniteSets, Functions, SequencesExt

CONSTANTS
    Values,    \* what is recorded
    MaxSize    \* bound: the size of the largest sample

ASSUME SnapshotAssumption ==
    /\ Values \subseteq Int /\ IsFiniteSet(Values)
    /\ MaxSize \in Nat

VARIABLE values_

-----------------------------------------------------------------------------
size == Len(values_)
Fraction(num, den) == [num |-> num, den |-> den]

SnapshotInit == values_ = <<>>

\* Where std::sort has one more value: behind those that are not above it.
Place(value) == Cardinality({i \in 1 .. size : values_[i] <= value}) + 1

Record(value) ==
    /\ size < MaxSize
    /\ values_' = InsertAt(values_, Place(value), value)

Clear == values_' = <<>>

SnapshotNext == Clear \/ \E value \in Values : Record(value)

SnapshotSpec == SnapshotInit /\ [][SnapshotNext]_values_

-----------------------------------------------------------------------------
(* The getters; percentiles are in parts of their quantile's denominator *)

\* A position that counts the values and not the gaps around them.
PositionAmongValues(quantile) == quantile.num * size

\* pos, of which the first value has 1.
Position(quantile) == quantile.num * (size + 1)

getValue(quantile) ==
    LET pos   == Position(quantile)
        den   == quantile.den
        index == pos \div den
        lower == values_[index]
        upper == values_[index + 1]
    IN IF size = 0 THEN 0
       ELSE IF pos < den THEN den * values_[1]
       ELSE IF pos >= den * size THEN den * values_[size]
       ELSE den * lower + (pos % den) * (upper - lower)

\* The median and the percentiles 75 to 99.9.
Quantiles == {Fraction(1, 2), Fraction(3, 4), Fraction(19, 20),
              Fraction(49, 50), Fraction(99, 100), Fraction(999, 1000)}

getMin == IF size = 0 THEN 0 ELSE values_[1]
getMax == IF size = 0 THEN 0 ELSE values_[size]

sum == SumFunction(values_)

\* A quotient of two whole numbers.
WholeMean == Fraction(sum \div size, 1)

getMean == IF size = 0 THEN Fraction(0, 1)
           ELSE Fraction(sum, size)

\* The square of getStdDev().
Variance ==
    LET mean == getMean
        diff(i) == mean.den * values_[i] - mean.num
    IN IF size <= 1 THEN Fraction(0, 1)
       ELSE Fraction(SumFunction([i \in 1 .. size |-> diff(i) * diff(i)]),
                     mean.den * mean.den * (size - 1))

-----------------------------------------------------------------------------
\* A percentile is what its label in a report says, "75% <=": at least that
\* share of all values are not above it; nor is it needlessly high, for the
\* values below it are no more than the quantile gives.  It lies between
\* getMin and getMax, and in a sample of any size a higher quantile has no
\* lower value.
PercentilesAreQuantiles ==
    size > 0 => \A q \in Quantiles :
        LET value  == getValue(q)
            atMost == {i \in 1 .. size : q.den * values_[i] <= value}
            below  == {i \in 1 .. size : q.den * values_[i] < value}
        IN /\ q.den * Cardinality(atMost) >= q.num * size
           /\ q.den * Cardinality(below) <= q.num * (size + 1)
           /\ value \in q.den * getMin .. q.den * getMax
           /\ \A r \in Quantiles :
                 q.num * r.den <= r.num * q.den =>
                     value * r.den <= getValue(r) * q.den

\* The standard deviation is the unbiased one: its square is half the mean
\* square difference of two different values.  A mean cut to a whole number, or
\* a division by the size, would break that.
SpreadIsPairwise ==
    LET Occurrences(v) == Cardinality({i \in 1 .. size : values_[i] = v})
        Difference(v, w) == Occurrences(v) * Occurrences(w) * ((v - w) * (v - w))
        differences ==
            SumFunction([v \in Values |->
                SumFunction([w \in Values |-> Difference(v, w)])])
    IN size > 1 =>
           2 * size * (size - 1) * Variance.num = Variance.den * differences
=============================================================================
