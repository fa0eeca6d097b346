---------------------------- MODULE ExpDecaySample ----------------------------
(***************************************************************************)
(* cppmetrics::core::ExpDecaySample: a reservoir that keeps the values of  *)
(* highest priority, exp(alpha * age of the value at its start) / random,  *)
(* and divides all priorities when an hour has passed.                     *)
(*                                                                         *)
(* A key is the logarithm of a priority, in units of alpha * 1 second, so  *)
(* exp(alpha * s) / u is s + draw with draw = -ln(u) / alpha >= 0, and a   *)
(* rescale subtracts seconds.  A priority too small for a double becomes   *)
(* the key Zero.  The clock counts parts of a second; a value is known by  *)
(* what decides its place, when it was recorded and what was drawn.        *)
(*                                                                         *)
(* The mutex is held throughout update and clear: one action each.  But    *)
(* update(value) reads the clock before it takes the mutex, and the other  *)
(* update gets its timestamp from its caller: any time up to now.          *)
(***************************************************************************)
EXTENDS Integers, FiniteSetsExt

CONSTANTS
    decay_reservoir_size_,
    RESCALE_THRESHOLD,   \* in parts of a second
    Second,              \* how many parts a second has
    Draws,               \* the values -ln(dist(rng_)) / alpha may take
    MinKey,              \* the smallest priority above 0
    MaxTime,             \* bound: the clock stops here
    MaxUpdates           \* bound: so many calls of update

ASSUME ExpDecayAssumption ==
    /\ decay_reservoir_size_ \in Nat \ {0}
    /\ Second \in Nat \ {0}
    /\ RESCALE_THRESHOLD \in Nat /\ RESCALE_THRESHOLD % Second = 0
    /\ IsFiniteSet(Draws) /\ Draws \subseteq Nat
    /\ MinKey \in Int /\ MinKey < 0
    /\ MaxTime \in Nat /\ MaxUpdates \in Nat

VARIABLES
    decay_values_,           \* the map: from keys to values
    decay_count_,
    start_time_,
    next_scale_time_,
    now,               \* the steady clock
    offered,           \* history: the values recorded since the last clear
    rescales,          \* history: the rescales since the last clear
    merged,            \* history: values lost to an equal key since the
                       \* count was last set to the number of values
    exact,             \* history: since the last clear no two values had the
                       \* same key and no priority was too small
    updates            \* bound: updates so far

decayVars == <<decay_values_, decay_count_, start_time_, next_scale_time_,
               now, offered, rescales, merged, exact, updates>>

-----------------------------------------------------------------------------
Zero == MinKey - 1

Keys(values) == DOMAIN values
PutKey(values, key, value) ==
    [k \in Keys(values) \cup {key} |-> IF k = key THEN value ELSE values[k]]

\* duration_cast<seconds>: towards zero.
InSeconds(d) == IF d >= 0 THEN d \div Second ELSE -((-d) \div Second)
Representable(k) == IF k < MinKey THEN Zero ELSE k
Faded(k, seconds) == IF k = Zero THEN Zero ELSE Representable(k - seconds)

size == IF decay_count_ < decay_reservoir_size_
        THEN decay_count_ ELSE decay_reservoir_size_

DecayInit ==
    /\ decay_values_ = <<>>
    /\ decay_count_ = 0
    /\ start_time_ = 0
    /\ next_scale_time_ = RESCALE_THRESHOLD
    /\ now = 0
    /\ offered = {}
    /\ rescales = 0 /\ merged = 0 /\ exact = TRUE /\ updates = 0

-----------------------------------------------------------------------------
\* A rescale that takes its duration from the new start time.
rescaleFromNewStart(time) == decay_values_

\* The map after rescale(): it is rebuilt in ascending order of the keys, so
\* of those that become equal the last one's value stays.
rescale(time) ==
    LET seconds == InSeconds(time - start_time_)
    IN [key \in {Faded(k, seconds) : k \in Keys(decay_values_)} |->
           decay_values_[Max({k \in Keys(decay_values_) :
                                  Faded(k, seconds) = key})]]

\* A rescale when none is due, none when one is.
rescaleNotNeeded(time) == time < next_scale_time_
rescaleNeeded(time) == next_scale_time_ < time

\* The sample as an update with this timestamp finds it: rescaleIfNeeded.
rescaledIfNeeded(time) ==
    IF rescaleNeeded(time)
    THEN [values |-> rescale(time),
          count  |-> Cardinality(Keys(rescale(time))),
          start  |-> time,
          next   |-> time + RESCALE_THRESHOLD]
    ELSE [values |-> decay_values_,
          count  |-> decay_count_,
          start  |-> start_time_,
          next   |-> next_scale_time_]

\* A full reservoir from which nothing is erased.
storedWithoutErase(values, count, key, value) ==
    IF count <= decay_reservoir_size_ \/ Min(Keys(values)) < key
    THEN PutKey(values, key, value)
    ELSE values

\* A full reservoir that gives up its highest priority.
storedForHighest(values, count, key, value) ==
    IF count <= decay_reservoir_size_
    THEN PutKey(values, key, value)
    ELSE PutKey([k \in Keys(values) \ {Max(Keys(values))} |-> values[k]],
             key, value)

\* While the reservoir has room a value is stored under its key; then it
\* takes the place of the lowest priority, if it is above that and new.
stored(values, count, key, value) ==
    LET first == Min(Keys(values))
    IN IF count <= decay_reservoir_size_
       THEN PutKey(values, key, value)
       ELSE IF first < key /\ key \notin Keys(values)
       THEN PutKey([k \in Keys(values) \ {first} |-> values[k]], key, value)
       ELSE values

-----------------------------------------------------------------------------
DecayUpdate(time, draw) ==
    LET sample == rescaledIfNeeded(time)
        count  == sample.count + 1
        key    == Representable(InSeconds(time - sample.start) + draw)
        value  == [at |-> time, draw |-> draw]
        tie    == key \in Keys(sample.values)
    IN /\ updates < MaxUpdates
       /\ decay_values_' = stored(sample.values, count, key, value)
       /\ decay_count_' = count
       /\ start_time_' = sample.start
       /\ next_scale_time_' = sample.next
       /\ offered' = offered \cup {value}
       /\ rescales' = rescales + (IF rescaleNeeded(time) THEN 1 ELSE 0)
       /\ merged' = (IF rescaleNeeded(time) THEN 0 ELSE merged)
                      + (IF tie /\ count <= decay_reservoir_size_ THEN 1 ELSE 0)
       /\ exact' = /\ exact /\ ~tie
                   /\ Cardinality(Keys(sample.values))
                        = Cardinality(Keys(decay_values_))
                   /\ Zero \notin Keys(sample.values) \cup {key}
       /\ updates' = updates + 1
       /\ UNCHANGED now

DecayClear ==
    /\ decay_values_' = <<>>
    /\ decay_count_' = 0
    /\ start_time_' = now
    /\ next_scale_time_' = now + RESCALE_THRESHOLD
    /\ offered' = {}
    /\ rescales' = 0 /\ merged' = 0 /\ exact' = TRUE
    /\ UNCHANGED <<now, updates>>

TimePasses ==
    /\ now < MaxTime
    /\ now' = now + 1
    /\ UNCHANGED <<decay_values_, decay_count_, start_time_, next_scale_time_,
                   offered, rescales, merged, exact, updates>>

DecayNext ==
    \/ \E time \in 0 .. now, draw \in Draws : DecayUpdate(time, draw)
    \/ DecayClear
    \/ TimePasses

DecaySpec == DecayInit /\ [][DecayNext]_decayVars

-----------------------------------------------------------------------------
\* size() says how many values a snapshot has, but for those that were lost
\* to a value of the same priority since the last rescale or clear.
SizeIsWhatIsHeld ==
    Cardinality(Keys(decay_values_)) + merged = size

\* Every priority stays within what an hour can make of it, also when the
\* updates come with old timestamps, so exp() never overflows.
PrioritiesStayFinite ==
    \A k \in Keys(decay_values_) :
        k <= Max(Draws) + InSeconds(RESCALE_THRESHOLD)

\* However often the sample was rescaled, and whichever clock was read before
\* that, a key is still the time and the draw of its value, but for the part
\* of a second that each conversion to seconds has cut off.
KeysAreOfTheirValues ==
    \A k \in Keys(decay_values_) \ {Zero} :
        LET exactKey == decay_values_[k].at + decay_values_[k].draw * Second
                            - start_time_
        IN k * Second - exactKey
             \in -(Second - 1) .. (rescales + 1) * (Second - 1)

Weight(value) == value.at + value.draw * Second

\* The sample holds the heaviest of all the values recorded since the last
\* clear, but for the cut off parts of seconds: none that it has given up or
\* refused was heavier than one that it holds.
HoldsTheHeaviest ==
    LET held == {decay_values_[k] : k \in Keys(decay_values_)}
    IN exact =>
        \A lost \in offered \ held, kept \in held :
            Weight(lost) <= Weight(kept) + (rescales + 2) * (Second - 1)
=============================================================================
