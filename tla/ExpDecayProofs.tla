---------------------------- MODULE ExpDecayProofs ----------------------------
(***************************************************************************)
(* Proofs about ExpDecaySample for any reservoir, threshold, clock and set *)
(* of draws.  What update does to the sample has two halves, rescaling it  *)
(* if that is due and storing the value, and each part of the invariant is *)
(* carried first over one half and then over the other.                    *)
(***************************************************************************)
EXTENDS ExpDecaySample, FiniteSetTheorems, TLAPS

Recorded == [at : Nat, draw : Draws]
Held(values) == {values[k] : k \in Keys(values)}

(* What is true of a sample: values, count, start time, losses to equal     *)
(* keys and rescales so far.                                                *)
WellFormed(values) ==
    /\ IsFiniteSet(Keys(values))
    /\ \A k \in Keys(values) :
          k \in Int /\ Zero <= k /\ values[k] \in Recorded
Counted(values, count, lost) ==
    /\ Cardinality(Keys(values)) + lost
           = IF count < decay_reservoir_size_
              THEN count ELSE decay_reservoir_size_
    /\ count > 0 => Keys(values) # {}
Bounded(values) ==
    \A k \in Keys(values) : k <= Max(Draws) + InSeconds(RESCALE_THRESHOLD)
Accurate(values, start, times) ==
    \A k \in Keys(values) \ {Zero} :
        /\ -(Second - 1) <= k * Second - (Weight(values[k]) - start)
        /\ k * Second - (Weight(values[k]) - start)
               <= (times + 1) * (Second - 1)

(* No key underflowed or met another: what the sample gave up was lighter,  *)
(* by its own key, than each key it holds, and it gave nothing up while it  *)
(* had room.                                                                *)
Heaviest(values, count, start, recorded) ==
    /\ Zero \notin Keys(values)
    /\ count < decay_reservoir_size_ => recorded \subseteq Held(values)
    /\ \A lost \in recorded \ Held(values), k \in Keys(values) :
          Weight(lost) - start <= k * Second + (Second - 1)

TypeInv ==
    /\ WellFormed(decay_values_)
    /\ decay_count_ \in Nat /\ rescales \in Nat /\ merged \in Nat
    /\ exact \in BOOLEAN
    /\ now \in Nat /\ start_time_ \in Nat
    /\ next_scale_time_ = start_time_ + RESCALE_THRESHOLD
    /\ offered \subseteq Recorded

ExpDecayInv ==
    /\ TypeInv
    /\ Counted(decay_values_, decay_count_, merged)
    /\ Bounded(decay_values_)
    /\ Accurate(decay_values_, start_time_, rescales)
    /\ exact => /\ merged = 0
                /\ Heaviest(decay_values_, decay_count_, start_time_, offered)

-----------------------------------------------------------------------------
(* Arithmetic. *)

LEMMA TimesMonotone ==
    ASSUME NEW a \in Int, NEW b \in Int, NEW s \in Nat, a <= b
    PROVE  a * s <= b * s
  <1>1. PICK c \in Nat : b = a + c
    <2>1. b - a \in Nat /\ b = a + (b - a)
      OBVIOUS
    <2> QED
      BY <2>1
  <1>2. b * s = a * s + c * s /\ c * s >= 0 /\ a * s \in Int /\ c * s \in Int
    BY <1>1
  <1> QED
    BY <1>2

LEMMA Distributes ==
    ASSUME NEW a \in Int, NEW b \in Int, NEW s \in Int
    PROVE  (a + b) * s = a * s + b * s /\ (a - b) * s = a * s - b * s
  OBVIOUS

LEMMA PartsAreNatural ==
    Second \in Nat /\ Second >= 1 /\ RESCALE_THRESHOLD \in Nat
  BY ExpDecayAssumption

(* A conversion to seconds cuts off less than a second, towards zero.       *)
LEMMA SecondsOf ==
    ASSUME NEW d \in Int
    PROVE  /\ InSeconds(d) \in Int
           /\ d >= 0 => /\ InSeconds(d) >= 0
                        /\ InSeconds(d) * Second <= d
                        /\ d <= InSeconds(d) * Second + (Second - 1)
           /\ d < 0 => /\ InSeconds(d) <= 0
                       /\ d <= InSeconds(d) * Second
                       /\ InSeconds(d) * Second - (Second - 1) <= d
  <1>1. ASSUME NEW e \in Nat
        PROVE  /\ e \div Second \in Nat
               /\ (e \div Second) * Second <= e
               /\ e <= (e \div Second) * Second + (Second - 1)
    BY PartsAreNatural, SMT
  <1>2. CASE d >= 0
    <2>1. d \in Nat /\ InSeconds(d) = d \div Second
      BY <1>2 DEF InSeconds
    <2> QED
      BY <1>1, <1>2, <2>1
  <1>3. CASE d < 0
    <2>1. PICK q \in Nat : q = (-d) \div Second
      BY <1>1, <1>3
    <2>2. q * Second <= -d /\ -d <= q * Second + (Second - 1)
      BY <1>1, <1>3, <2>1
    <2>3. InSeconds(d) = -q
      BY <1>3, <2>1 DEF InSeconds
    <2>4. (-q) * Second = -(q * Second) /\ q * Second \in Int
      BY PartsAreNatural
    <2> QED
      BY <1>3, <2>2, <2>3, <2>4, PartsAreNatural
  <1> QED
    BY <1>2, <1>3

LEMMA SecondsMonotone ==
    ASSUME NEW d \in Int, NEW e \in Int, d <= e
    PROVE  InSeconds(d) <= InSeconds(e)
  <1>1. CASE d < 0 /\ e >= 0
    BY <1>1, SecondsOf
  <1>2. CASE ~(d < 0 /\ e >= 0)
    <2>1. PICK a \in Int, b \in Int : a = InSeconds(d) /\ b = InSeconds(e)
      BY SecondsOf
    <2>2. a * Second <= b * Second + (Second - 1)
      <3>1. a * Second \in Int /\ b * Second \in Int
        BY PartsAreNatural
      <3> QED
        BY <1>2, <2>1, <3>1, SecondsOf, PartsAreNatural
    <2>3. ASSUME a >= b + 1 PROVE FALSE
      <3>1. (b + 1) * Second <= a * Second
        BY <2>3, TimesMonotone, PartsAreNatural
      <3>2. (b + 1) * Second = b * Second + Second
        BY PartsAreNatural
      <3>3. a * Second \in Int /\ b * Second \in Int
        BY PartsAreNatural
      <3> QED
        BY <2>2, <3>1, <3>2, <3>3, PartsAreNatural
    <2> QED
      BY <2>1, <2>3
  <1> QED
    BY <1>1, <1>2

LEMMA ImageIsFinite ==
    ASSUME NEW S, IsFiniteSet(S), NEW f
    PROVE  /\ IsFiniteSet({f[x] : x \in S})
           /\ Cardinality({f[x] : x \in S}) <= Cardinality(S)
  <1> DEFINE T == {f[x] : x \in S}
             g == [x \in S |-> f[x]]
  <1>1. g \in Surjection(S, T)
    BY DEF Surjection
  <1> HIDE DEF g, T
  <1>2. IsFiniteSet(T) /\ Cardinality(T) <= Cardinality(S)
    BY <1>1, FS_Surjection
  <1> QED
    BY <1>2 DEF T

(* The extremes of a finite set of keys.  FoldLemmas has the greatest.      *)
Either(x, y) == IF x >= y THEN x ELSE y
AnyOf(s) == CHOOSE x \in s : TRUE
Extremes == INSTANCE FoldLemmas WITH Op <- Either, Choice <- AnyOf

LEMMA GreatestKey ==
    ASSUME NEW S, IsFiniteSet(S), S # {}, \A x \in S : x \in Int
    PROVE  Max(S) \in S /\ \A x \in S : x <= Max(S)
  <1>1. Extremes!IsFiniteSet(S)
    BY DEF IsFiniteSet, Extremes!IsFiniteSet
  <1>2. \E x \in S : \A y \in S : x >= y
    BY <1>1, Extremes!GreatestExists
  <1> QED
    BY <1>2 DEF Max

LEMMA LeastKey ==
    ASSUME NEW S, IsFiniteSet(S), S # {}, \A x \in S : x \in Int
    PROVE  Min(S) \in S /\ \A x \in S : Min(S) <= x
  <1> DEFINE T == {-x : x \in S}
  <1>1. IsFiniteSet(T)
    <2> DEFINE f == [x \in S |-> -x]
    <2>1. T = {f[x] : x \in S}
      OBVIOUS
    <2> HIDE DEF f
    <2> QED
      BY <2>1, ImageIsFinite
  <1>2. T # {} /\ \A y \in T : y \in Int
    OBVIOUS
  <1> HIDE DEF T
  <1>3. Max(T) \in T /\ \A y \in T : y <= Max(T)
    BY <1>1, <1>2, GreatestKey
  <1>4. PICK z \in S : Max(T) = -z
    BY <1>3 DEF T
  <1>5. ASSUME NEW x \in S PROVE z <= x
    <2>1. -x \in T
      BY DEF T
    <2> QED
      BY <1>3, <1>4, <2>1
  <1>6. \E z1 \in S : \A y \in S : z1 <= y
    BY <1>5
  <1> QED
    BY <1>6 DEF Min

LEMMA DrawsHaveAMaximum ==
    ASSUME NEW draw \in Draws PROVE Max(Draws) \in Nat /\ draw <= Max(Draws)
  <1>1. IsFiniteSet(Draws) /\ \A d \in Draws : d \in Nat
    BY ExpDecayAssumption
  <1> QED
    BY <1>1, GreatestKey

LEMMA ZeroIsNegative == Zero \in Int /\ Zero < 0 /\ Zero < MinKey
  BY ExpDecayAssumption DEF Zero

(* What representing a key makes of it.                                     *)
LEMMA RepresentableKey ==
    ASSUME NEW k \in Int
    PROVE  /\ Representable(k) \in Int /\ Zero <= Representable(k)
           /\ Representable(k) # Zero => Representable(k) = k
           /\ Representable(k) = Zero \/ Representable(k) = k
  BY ExpDecayAssumption DEF Representable, Zero

LEMMA FadedKey ==
    ASSUME NEW k \in Int, NEW seconds \in Nat
    PROVE  /\ Faded(k, seconds) \in Int /\ Zero <= Faded(k, seconds)
           /\ Faded(k, seconds) # Zero =>
                 Faded(k, seconds) = k - seconds /\ k # Zero
           /\ Faded(k, seconds) = Zero \/ Faded(k, seconds) <= k
  BY RepresentableKey, ZeroIsNegative DEF Faded

-----------------------------------------------------------------------------
(* The halves of an update.  A sample that was rescaled has the faded keys, *)
(* each with a value whose key faded to it.                                 *)
Rescaled(values, new, seconds) ==
    /\ IsFiniteSet(Keys(new)) /\ Cardinality(Keys(new)) <= Cardinality(Keys(values))
    /\ \A k \in Keys(values) : Faded(k, seconds) \in Keys(new)
    /\ \A key \in Keys(new) : \E k \in Keys(values) :
          Faded(k, seconds) = key /\ new[key] = values[k]

LEMMA RescaleFacts ==
    ASSUME WellFormed(decay_values_), NEW time \in Nat, start_time_ \in Nat,
           start_time_ <= time, NEW seconds, NEW new,
           seconds = InSeconds(time - start_time_), new = rescale(time)
    PROVE  seconds \in Nat /\ Rescaled(decay_values_, new, seconds)
  <1> DEFINE From(key) == {k \in Keys(decay_values_) : Faded(k, seconds) = key}
             f == [k \in Keys(decay_values_) |-> Faded(k, seconds)]
  <1>1. seconds \in Nat
    BY SecondsOf
  <1>2. new = [key \in {Faded(k, seconds) : k \in Keys(decay_values_)} |->
                  decay_values_[Max(From(key))]]
    BY DEF rescale
  <1>3. Keys(new) = {Faded(k, seconds) : k \in Keys(decay_values_)}
    BY <1>2 DEF Keys
  <1>4. Keys(new) = {f[k] : k \in Keys(decay_values_)}
    BY <1>3
  <1>5. /\ IsFiniteSet(Keys(new))
        /\ Cardinality(Keys(new)) <= Cardinality(Keys(decay_values_))
    <2> HIDE DEF f
    <2> QED
      BY <1>4, ImageIsFinite DEF WellFormed
  <1>6. ASSUME NEW key \in Keys(new)
        PROVE  \E k \in Keys(decay_values_) :
                   Faded(k, seconds) = key /\ new[key] = decay_values_[k]
    <2>1. From(key) # {} /\ From(key) \in SUBSET Keys(decay_values_)
      BY <1>3
    <2>2. IsFiniteSet(From(key)) /\ \A k \in From(key) : k \in Int
      BY <2>1, FS_Subset DEF WellFormed
    <2>3. PICK S : S = From(key)
      OBVIOUS
    <2>4. Max(S) \in S
      BY <2>1, <2>2, <2>3, GreatestKey
    <2>5. new[key] = decay_values_[Max(S)]
      BY <1>2, <1>3, <2>3
    <2> QED
      BY <2>3, <2>4, <2>5
  <1> QED
    BY <1>1, <1>3, <1>5, <1>6 DEF Rescaled

(* What storing a value does: with room it is added, without it takes the   *)
(* place of the lowest key or is refused.                                   *)
Replaced(values, new, gone, key, value) ==
    /\ Keys(new) = (Keys(values) \ gone) \cup {key}
    /\ new[key] = value
    /\ \A k \in Keys(values) \ (gone \cup {key}) : new[k] = values[k]
Lowest(values, first) ==
    first \in Keys(values) /\ \A k \in Keys(values) : first <= k

LEMMA PutFacts ==
    ASSUME NEW values, NEW key, NEW value, NEW gone,
           NEW left, Keys(left) = Keys(values) \ gone,
           \A k \in Keys(left) : left[k] = values[k]
    PROVE  Replaced(values, PutKey(left, key, value), gone, key, value)
  BY DEF PutKey, Replaced, Keys

Added(values, new, count, key, value) ==
    count < decay_reservoir_size_ /\ Replaced(values, new, {}, key, value)
Displaced(values, new, count, key, value, first) ==
    /\ count >= decay_reservoir_size_
    /\ Lowest(values, first) /\ first < key /\ key \notin Keys(values)
    /\ Replaced(values, new, {first}, key, value)
Refused(values, new, count, key, first) ==
    /\ count >= decay_reservoir_size_ /\ new = values
    /\ Lowest(values, first) /\ (key <= first \/ key \in Keys(values))
Stored(values, new, count, key, value) ==
    \/ Added(values, new, count, key, value)
    \/ \E first : Displaced(values, new, count, key, value, first)
    \/ \E first : Refused(values, new, count, key, first)

LEMMA StoredCases ==
    ASSUME NEW values, NEW count \in Nat, NEW lost \in Nat, NEW key \in Int,
           NEW value, NEW new, WellFormed(values),
           Counted(values, count, lost),
           new = stored(values, count + 1, key, value)
    PROVE  Stored(values, new, count, key, value)
  <1>1. decay_reservoir_size_ \in Nat /\ decay_reservoir_size_ >= 1
    BY ExpDecayAssumption
  <1>2. CASE count < decay_reservoir_size_
    <2>1. new = PutKey(values, key, value)
      BY <1>1, <1>2 DEF stored
    <2>2. Replaced(values, PutKey(values, key, value), {}, key, value)
      BY PutFacts
    <2> QED
      BY <1>2, <2>1, <2>2 DEF Stored, Added
  <1>3. CASE count >= decay_reservoir_size_
    <2>1. Keys(values) # {}
      BY <1>1, <1>3 DEF Counted
    <2>2. PICK first : first = Min(Keys(values))
      OBVIOUS
    <2>3. first \in Keys(values) /\ \A k \in Keys(values) : first <= k
      BY <2>1, <2>2, LeastKey DEF WellFormed
    <2>4. first \in Int
      BY <2>3 DEF WellFormed
    <2>5. PICK left : left = [k \in Keys(values) \ {first} |-> values[k]]
      OBVIOUS
    <2>6. /\ Keys(left) = Keys(values) \ {first}
          /\ \A k \in Keys(left) : left[k] = values[k]
      BY <2>5 DEF Keys
    <2>7. Replaced(values, PutKey(left, key, value), {first}, key, value)
      BY <2>6, PutFacts
    <2>8. ~(count + 1 <= decay_reservoir_size_)
      BY <1>1, <1>3
    <2>9. new = IF first < key /\ key \notin Keys(values)
                THEN PutKey(left, key, value) ELSE values
      BY <2>2, <2>5, <2>8 DEF stored
    <2>10. CASE first < key /\ key \notin Keys(values)
      BY <1>3, <2>3, <2>7, <2>9, <2>10 DEF Lowest, Displaced, Stored
    <2>11. CASE ~(first < key /\ key \notin Keys(values))
      BY <1>3, <2>3, <2>4, <2>9, <2>11 DEF Lowest, Refused, Stored
    <2> QED
      BY <2>10, <2>11
  <1> QED
    BY <1>1, <1>2, <1>3

-----------------------------------------------------------------------------
(* Rescaling. *)

LEMMA RescaledWell ==
    ASSUME NEW values, NEW new, NEW seconds \in Nat, WellFormed(values),
           Rescaled(values, new, seconds)
    PROVE  WellFormed(new)
  <1> SUFFICES ASSUME NEW key \in Keys(new)
               PROVE  key \in Int /\ Zero <= key /\ new[key] \in Recorded
    BY DEF WellFormed, Rescaled
  <1>1. PICK k \in Keys(values) : Faded(k, seconds) = key /\ new[key] = values[k]
    BY DEF Rescaled
  <1>2. k \in Int /\ values[k] \in Recorded
    BY DEF WellFormed
  <1> QED
    BY <1>1, <1>2, FadedKey

LEMMA LeastBound ==
    ASSUME NEW value \in Recorded
    PROVE  /\ Max(Draws) \in Nat /\ InSeconds(RESCALE_THRESHOLD) \in Nat
           /\ value.draw <= Max(Draws) /\ value.draw \in Nat
  <1>1. value.draw \in Draws /\ Draws \subseteq Nat
    BY ExpDecayAssumption DEF Recorded
  <1>2. Max(Draws) \in Nat /\ value.draw <= Max(Draws)
    BY <1>1, DrawsHaveAMaximum
  <1>3. PICK d \in Nat : d = RESCALE_THRESHOLD
    BY PartsAreNatural
  <1>4. InSeconds(d) \in Nat
    BY SecondsOf
  <1> QED
    BY <1>1, <1>2, <1>3, <1>4

LEMMA RescaledBounded ==
    ASSUME NEW values, NEW new, NEW seconds \in Nat, WellFormed(values),
           Rescaled(values, new, seconds), Bounded(values)
    PROVE  Bounded(new)
  <1> SUFFICES ASSUME NEW key \in Keys(new)
               PROVE  key <= Max(Draws) + InSeconds(RESCALE_THRESHOLD)
    BY DEF Bounded
  <1>1. PICK k \in Keys(values) : Faded(k, seconds) = key /\ new[key] = values[k]
    BY DEF Rescaled
  <1>2. k \in Int /\ values[k] \in Recorded
    BY DEF WellFormed
  <1>3. Max(Draws) \in Nat /\ InSeconds(RESCALE_THRESHOLD) \in Nat
    BY <1>2, LeastBound
  <1>4. k <= Max(Draws) + InSeconds(RESCALE_THRESHOLD)
    BY DEF Bounded
  <1>5. key \in Int /\ (key = Zero \/ key <= k)
    BY <1>1, <1>2, FadedKey
  <1> QED
    BY <1>2, <1>3, <1>4, <1>5, ZeroIsNegative

LEMMA WeightType ==
    ASSUME NEW value \in Recorded PROVE Weight(value) \in Int
  <1>1. PICK at \in Nat, draw \in Nat, s \in Nat :
            value.at = at /\ value.draw = draw /\ Second = s
    BY ExpDecayAssumption DEF Recorded
  <1>2. at + draw * s \in Int
    OBVIOUS
  <1> QED
    BY <1>1, <1>2 DEF Weight

LEMMA RescaledAccurate ==
    ASSUME NEW values, NEW new, NEW seconds \in Nat, WellFormed(values),
           Rescaled(values, new, seconds),
           NEW start \in Nat, NEW time \in Nat, NEW times \in Nat,
           start <= time, seconds = InSeconds(time - start),
           Accurate(values, start, times)
    PROVE  Accurate(new, time, times + 1)
  <1> SUFFICES ASSUME NEW key \in Keys(new) \ {Zero}
               PROVE  /\ -(Second - 1) <= key * Second - (Weight(new[key]) - time)
                      /\ key * Second - (Weight(new[key]) - time)
                             <= (times + 1 + 1) * (Second - 1)
    BY DEF Accurate
  <1>1. PICK k \in Keys(values) : Faded(k, seconds) = key /\ new[key] = values[k]
    BY DEF Rescaled
  <1>2. k \in Int /\ values[k] \in Recorded
    BY DEF WellFormed
  <1>3. key = k - seconds /\ k # Zero
    BY <1>1, <1>2, FadedKey
  <1>4. PICK w \in Int : w = Weight(values[k])
    BY <1>2, WeightType
  <1>5. /\ -(Second - 1) <= k * Second - (w - start)
        /\ k * Second - (w - start) <= (times + 1) * (Second - 1)
    BY <1>3, <1>4 DEF Accurate
  <1>6. PICK p \in Int, q \in Int, s \in Nat, b \in Int :
            /\ p = k * Second /\ q = seconds * Second /\ s = Second
            /\ b = (times + 1) * (Second - 1)
    BY <1>2, PartsAreNatural
  <1>7. key * Second = p - q
    BY <1>2, <1>3, <1>6, Distributes, PartsAreNatural
  <1>8. (times + 1 + 1) * (Second - 1) = b + (s - 1)
    <2>1. (times + 1 + 1) * (Second - 1)
              = (times + 1) * (Second - 1) + 1 * (Second - 1)
      BY Distributes, PartsAreNatural
    <2> QED
      BY <1>6, <2>1, PartsAreNatural
  <1>9. q <= time - start /\ time - start <= q + (s - 1)
    BY <1>6, SecondsOf
  <1>10. /\ -(s - 1) <= p - (w - start) /\ p - (w - start) <= b
    BY <1>5, <1>6
  <1>11. /\ -(s - 1) <= p - q - (w - time)
         /\ p - q - (w - time) <= b + (s - 1)
    BY <1>9, <1>10
  <1> QED
    BY <1>1, <1>4, <1>6, <1>7, <1>8, <1>11

LEMMA RescaledCounted ==
    ASSUME NEW values, NEW new, NEW seconds \in Nat, WellFormed(values),
           Rescaled(values, new, seconds),
           NEW count \in Nat, NEW lost \in Nat, Counted(values, count, lost)
    PROVE  /\ Cardinality(Keys(new)) \in Nat
           /\ Counted(new, Cardinality(Keys(new)), 0)
  <1>1. PICK a \in Nat, b \in Nat :
            a = Cardinality(Keys(values)) /\ b = Cardinality(Keys(new))
    BY FS_CardinalityType DEF WellFormed, Rescaled
  <1>2. b <= a /\ a <= decay_reservoir_size_ /\ decay_reservoir_size_ \in Nat
    BY <1>1, ExpDecayAssumption DEF Rescaled, Counted
  <1>3. b > 0 => Keys(new) # {}
    BY <1>1, FS_EmptySet
  <1> QED
    BY <1>1, <1>2, <1>3 DEF Counted

LEMMA RescaledHeaviest ==
    ASSUME NEW values, NEW new, NEW seconds \in Nat, WellFormed(values),
           Rescaled(values, new, seconds),
           NEW start \in Nat, NEW time \in Nat, NEW recorded,
           start <= time, seconds = InSeconds(time - start),
           recorded \subseteq Recorded,
           NEW count \in Nat, Counted(values, count, 0),
           Cardinality(Keys(new)) = Cardinality(Keys(values)),
           Zero \notin Keys(new),
           Heaviest(values, count, start, recorded)
    PROVE  Heaviest(new, Cardinality(Keys(new)), time, recorded)
  <1>1. ASSUME NEW k \in Keys(values)
        PROVE  /\ k - seconds \in Keys(new)
               /\ new[k - seconds] = values[k]
    <2>1. k \in Int
      BY DEF WellFormed
    <2>2. Faded(k, seconds) \in Keys(new)
      BY DEF Rescaled
    <2>3. Faded(k, seconds) = k - seconds
      BY <2>1, <2>2, FadedKey
    <2>4. PICK j \in Keys(values) : /\ Faded(j, seconds) = k - seconds
                                    /\ new[k - seconds] = values[j]
      BY <2>2, <2>3 DEF Rescaled
    <2>5. j \in Int /\ Faded(j, seconds) = j - seconds
      BY <2>2, <2>3, <2>4, FadedKey DEF WellFormed
    <2>6. j = k
      BY <2>1, <2>4, <2>5
    <2> QED
      BY <2>2, <2>3, <2>4, <2>6
  <1>2. Held(values) \subseteq Held(new)
    BY <1>1 DEF Held
  <1>3. Cardinality(Keys(new)) < decay_reservoir_size_ => count < decay_reservoir_size_
    <2>1. PICK a \in Nat : a = Cardinality(Keys(values))
      BY FS_CardinalityType DEF WellFormed
    <2> QED
      BY <2>1, ExpDecayAssumption DEF Counted
  <1>4. ASSUME NEW lost \in recorded \ Held(new), NEW key \in Keys(new)
        PROVE  Weight(lost) - time <= key * Second + (Second - 1)
    <2>1. PICK k \in Keys(values) : Faded(k, seconds) = key
      BY DEF Rescaled
    <2>2. k \in Int /\ key = k - seconds
      BY <2>1, FadedKey DEF WellFormed
    <2>3. lost \in recorded \ Held(values)
      BY <1>2
    <2>4. PICK w \in Int : w = Weight(lost)
      BY WeightType
    <2>5. w - start <= k * Second + (Second - 1)
      BY <2>1, <2>3, <2>4 DEF Heaviest
    <2>6. PICK p \in Int, q \in Int, s \in Nat :
              p = k * Second /\ q = seconds * Second /\ s = Second
      BY <2>2, PartsAreNatural
    <2>7. key * Second = p - q
      BY <2>2, <2>6, Distributes, PartsAreNatural
    <2>8. q <= time - start
      BY <2>6, SecondsOf
    <2>9. w - time <= p - q + (s - 1)
      BY <2>5, <2>6, <2>8
    <2> QED
      BY <2>4, <2>6, <2>7, <2>9
  <1> QED
    BY <1>2, <1>3, <1>4 DEF Heaviest

-----------------------------------------------------------------------------
(* Storing. *)

LEMMA KeyOfUpdate ==
    ASSUME NEW start \in Nat, NEW time \in Nat, NEW draw \in Draws, NEW key,
           key = Representable(InSeconds(time - start) + draw)
    PROVE  /\ key \in Int /\ Zero <= key
           /\ time <= start + RESCALE_THRESHOLD =>
                 key <= Max(Draws) + InSeconds(RESCALE_THRESHOLD)
           /\ key # Zero => key = InSeconds(time - start) + draw
  <1>1. draw \in Nat /\ draw <= Max(Draws) /\ Max(Draws) \in Nat
    BY DrawsHaveAMaximum, ExpDecayAssumption
  <1>2. PICK d \in Int, r \in Nat : d = time - start /\ r = RESCALE_THRESHOLD
    BY PartsAreNatural
  <1>3. PICK a \in Int, b \in Int : a = InSeconds(d) /\ b = InSeconds(r)
    BY SecondsOf
  <1>4. b >= 0
    BY <1>3, SecondsOf
  <1>5. d <= r => a <= b
    BY <1>3, SecondsMonotone
  <1>6. a + draw \in Int /\ key = Representable(a + draw)
    BY <1>1, <1>2, <1>3
  <1>7. /\ key \in Int /\ Zero <= key
        /\ key # Zero => key = a + draw
        /\ key = Zero \/ key = a + draw
    BY <1>6, RepresentableKey
  <1>8. time <= start + RESCALE_THRESHOLD => d <= r
    BY <1>2
  <1> QED
    BY <1>1, <1>2, <1>3, <1>4, <1>5, <1>7, <1>8, ZeroIsNegative

LEMMA StoredWell ==
    ASSUME NEW values, NEW new, NEW count, NEW key \in Int,
           NEW value \in Recorded, Zero <= key,
           WellFormed(values), Stored(values, new, count, key, value)
    PROVE  WellFormed(new)
  <1>1. ASSUME NEW gone, Replaced(values, new, gone, key, value)
        PROVE  WellFormed(new)
    <2>1. IsFiniteSet(Keys(values) \ gone)
      BY FS_Subset DEF WellFormed
    <2>2. IsFiniteSet(Keys(new))
      BY <1>1, <2>1, FS_AddElement DEF Replaced
    <2> QED
      BY <1>1, <2>2 DEF Replaced, WellFormed
  <1> QED
    BY <1>1 DEF Stored, Added, Displaced, Refused

LEMMA StoredKeys ==
    ASSUME NEW values, NEW new, NEW count, NEW key, NEW value,
           Stored(values, new, count, key, value),
           NEW k \in Keys(new)
    PROVE  \/ k = key /\ new[k] = value
           \/ k \in Keys(values) /\ new[k] = values[k]
  BY DEF Stored, Added, Displaced, Refused, Replaced

LEMMA StoredBounded ==
    ASSUME NEW values, NEW new, NEW count, NEW key, NEW value,
           Stored(values, new, count, key, value), Bounded(values),
           key <= Max(Draws) + InSeconds(RESCALE_THRESHOLD)
    PROVE  Bounded(new)
  BY StoredKeys DEF Bounded

LEMMA StoredAccurate ==
    ASSUME NEW values, NEW new, NEW count, NEW key,
           NEW start \in Nat, NEW time \in Nat, NEW draw \in Draws,
           NEW times \in Nat, NEW value,
           value = [at |-> time, draw |-> draw],
           key = Representable(InSeconds(time - start) + draw),
           Stored(values, new, count, key, value),
           Accurate(values, start, times)
    PROVE  Accurate(new, start, times)
  <1>1. ASSUME key # Zero
        PROVE  /\ -(Second - 1) <= key * Second - (Weight(value) - start)
               /\ key * Second - (Weight(value) - start)
                      <= (times + 1) * (Second - 1)
    <2>1. key = InSeconds(time - start) + draw
      BY <1>1, KeyOfUpdate
    <2>2. PICK a \in Int : a = InSeconds(time - start)
      BY SecondsOf
    <2>3. draw \in Nat
      BY ExpDecayAssumption
    <2>4. PICK p \in Int, q \in Int, s \in Nat, b \in Int :
              /\ p = a * Second /\ q = draw * Second /\ s = Second
              /\ b = (times + 1) * (Second - 1)
      BY <2>3, PartsAreNatural
    <2>5. key * Second = p + q
      BY <2>1, <2>2, <2>3, <2>4, Distributes, PartsAreNatural
    <2>6. Weight(value) = time + q
      BY <2>4 DEF Weight
    <2>7. /\ -(s - 1) <= p - (time - start)
          /\ p - (time - start) <= s - 1
      BY <2>2, <2>4, SecondsOf, PartsAreNatural
    <2>8. s - 1 <= b
      <3>1. 1 * (Second - 1) <= (times + 1) * (Second - 1)
        BY TimesMonotone, PartsAreNatural
      <3> QED
        BY <2>4, <3>1, PartsAreNatural
    <2> QED
      BY <2>4, <2>5, <2>6, <2>7, <2>8
  <1> SUFFICES ASSUME NEW k \in Keys(new) \ {Zero}
               PROVE  /\ -(Second - 1) <= k * Second - (Weight(new[k]) - start)
                      /\ k * Second - (Weight(new[k]) - start)
                             <= (times + 1) * (Second - 1)
    BY DEF Accurate
  <1>2. CASE k = key /\ new[k] = value
    BY <1>1, <1>2
  <1>3. CASE k \in Keys(values) /\ new[k] = values[k]
    BY <1>3 DEF Accurate
  <1> QED
    BY <1>2, <1>3, StoredKeys

LEMMA StoredCounted ==
    ASSUME NEW values, NEW new, NEW count \in Nat, NEW lost \in Nat,
           NEW key \in Int, NEW value, NEW more, WellFormed(values),
           Counted(values, count, lost),
           Stored(values, new, count, key, value),
           more = IF key \in Keys(values) /\ count + 1 <= decay_reservoir_size_
                  THEN 1 ELSE 0
    PROVE  Counted(new, count + 1, lost + more)
  <1>1. PICK a \in Nat : a = Cardinality(Keys(values))
    BY FS_CardinalityType DEF WellFormed
  <1>2. PICK r \in Nat : r = decay_reservoir_size_ /\ r >= 1
    BY ExpDecayAssumption
  <1>3. CASE Added(values, new, count, key, value)
    <2>1. Keys(new) = Keys(values) \cup {key} /\ count < r
      BY <1>2, <1>3 DEF Added, Replaced
    <2>2. Cardinality(Keys(new)) = IF key \in Keys(values) THEN a ELSE a + 1
      BY <1>1, <2>1, FS_AddElement DEF WellFormed
    <2>3. a + lost = count
      BY <1>1, <1>2, <2>1 DEF Counted
    <2>4. Keys(new) # {}
      BY <2>1
    <2> QED
      BY <1>2, <2>1, <2>2, <2>3, <2>4 DEF Counted
  <1>4. ASSUME NEW first, Displaced(values, new, count, key, value, first)
        PROVE  Counted(new, count + 1, lost + more)
    <2>1. /\ Keys(new) = (Keys(values) \ {first}) \cup {key} /\ count >= r
          /\ first \in Keys(values) /\ key \notin Keys(values)
      BY <1>2, <1>4 DEF Displaced, Replaced, Lowest
    <2>2. /\ IsFiniteSet(Keys(values) \ {first})
          /\ Cardinality(Keys(values) \ {first}) = a - 1
      BY <1>1, <2>1, FS_RemoveElement DEF WellFormed
    <2>3. Cardinality(Keys(new)) = a
      BY <1>1, <2>1, <2>2, FS_AddElement
    <2>4. a + lost = r
      BY <1>1, <1>2, <2>1 DEF Counted
    <2>5. Keys(new) # {}
      BY <2>1
    <2> QED
      BY <1>2, <2>1, <2>3, <2>4, <2>5 DEF Counted
  <1>5. ASSUME NEW first, Refused(values, new, count, key, first)
        PROVE  Counted(new, count + 1, lost + more)
    <2>1. new = values /\ count >= r /\ Keys(values) # {}
      BY <1>2, <1>5 DEF Refused, Lowest
    <2>2. a + lost = r
      BY <1>1, <1>2, <2>1 DEF Counted
    <2> QED
      BY <1>1, <1>2, <2>1, <2>2 DEF Counted
  <1> QED
    BY <1>3, <1>4, <1>5 DEF Stored

LEMMA StoredHeaviest ==
    ASSUME NEW values, NEW new, NEW count \in Nat, NEW key \in Int,
           NEW start \in Nat, NEW times \in Nat, NEW value \in Recorded,
           NEW recorded, recorded \subseteq Recorded,
           WellFormed(values), Accurate(values, start, times),
           -(Second - 1) <= key * Second - (Weight(value) - start),
           Stored(values, new, count, key, value),
           key \notin Keys(values), key # Zero,
           Heaviest(values, count, start, recorded)
    PROVE  Heaviest(new, count + 1, start, recorded \cup {value})
  <1>1. Zero \notin Keys(new)
    BY StoredKeys DEF Heaviest
  <1>2. PICK s \in Nat : s = Second /\ s >= 1
    BY PartsAreNatural
  \* A lower key that is accurate makes a lighter value.
  <1>3. ASSUME NEW v \in Recorded, NEW j \in Int, NEW k \in Int, j <= k,
               -(Second - 1) <= j * Second - (Weight(v) - start)
        PROVE  Weight(v) - start <= k * Second + (Second - 1)
    <2>1. j * Second <= k * Second
      BY <1>3, TimesMonotone, PartsAreNatural
    <2>2. PICK w \in Int, p \in Int, q \in Int :
              w = Weight(v) /\ p = j * Second /\ q = k * Second
      BY <1>2, WeightType
    <2> QED
      BY <1>2, <1>3, <2>1, <2>2
  \* ... and what is below a key is below a higher one.
  <1>4. ASSUME NEW v \in Recorded, NEW j \in Int, NEW k \in Int, j <= k,
               Weight(v) - start <= j * Second + (Second - 1)
        PROVE  Weight(v) - start <= k * Second + (Second - 1)
    <2>1. j * Second <= k * Second
      BY <1>4, TimesMonotone, PartsAreNatural
    <2>2. PICK w \in Int, p \in Int, q \in Int :
              w = Weight(v) /\ p = j * Second /\ q = k * Second
      BY <1>2, WeightType
    <2> QED
      BY <1>2, <1>4, <2>1, <2>2
  <1>5. CASE Added(values, new, count, key, value)
    <2>1. /\ new[key] = value /\ key \in Keys(new)
          /\ \A k \in Keys(values) : k \in Keys(new) /\ new[k] = values[k]
          /\ count < decay_reservoir_size_
      BY <1>5 DEF Added, Replaced
    <2>2. recorded \cup {value} \subseteq Held(new)
      BY <2>1 DEF Heaviest, Held
    <2> QED
      BY <1>1, <2>2 DEF Heaviest
  <1>6. ASSUME NEW first, Displaced(values, new, count, key, value, first)
        PROVE  Heaviest(new, count + 1, start, recorded \cup {value})
    <2>1. /\ count >= decay_reservoir_size_ /\ first < key
          /\ Lowest(values, first) /\ first \in Keys(values) /\ first \in Int
          /\ Replaced(values, new, {first}, key, value)
      BY <1>6 DEF Displaced, Lowest, WellFormed
    <2>2. ~(count + 1 < decay_reservoir_size_)
      BY <2>1, ExpDecayAssumption
    <2>3. ASSUME NEW lost \in (recorded \cup {value}) \ Held(new),
                 NEW k \in Keys(new)
          PROVE  Weight(lost) - start <= k * Second + (Second - 1)
      <3>1. lost # value /\ lost \in recorded /\ lost \in Recorded
        BY <2>1, <2>3 DEF Replaced, Held
      <3>2. k \in Int /\ first <= k
        BY <2>1 DEF Replaced, Lowest, WellFormed
      <3>3. CASE lost \in Held(values)
        <4>1. PICK j \in Keys(values) : lost = values[j]
          BY <3>3 DEF Held
        <4>2. j = first
          BY <2>1, <2>3, <4>1 DEF Replaced, Held
        <4>3. -(Second - 1) <= first * Second - (Weight(lost) - start)
          BY <2>1, <4>1, <4>2 DEF Accurate, Heaviest
        <4> QED
          BY <1>3, <2>1, <3>1, <3>2, <4>3
      <3>4. CASE lost \notin Held(values)
        <4>1. Weight(lost) - start <= first * Second + (Second - 1)
          BY <2>1, <3>1, <3>4 DEF Heaviest
        <4> QED
          BY <1>4, <2>1, <3>1, <3>2, <4>1
      <3> QED
        BY <3>3, <3>4
    <2> QED
      BY <1>1, <2>2, <2>3 DEF Heaviest
  <1>7. ASSUME NEW first, Refused(values, new, count, key, first)
        PROVE  Heaviest(new, count + 1, start, recorded \cup {value})
    <2>1. /\ count >= decay_reservoir_size_ /\ key <= first /\ new = values
          /\ Lowest(values, first) /\ first \in Int
      BY <1>7 DEF Refused, Lowest, WellFormed
    <2>2. ~(count + 1 < decay_reservoir_size_)
      BY <2>1, ExpDecayAssumption
    <2>3. ASSUME NEW lost \in (recorded \cup {value}) \ Held(values),
                 NEW k \in Keys(values)
          PROVE  Weight(lost) - start <= k * Second + (Second - 1)
      <3>1. k \in Int /\ key <= k
        BY <2>1 DEF Lowest, WellFormed
      <3>2. CASE lost \in recorded
        BY <2>3, <3>2 DEF Heaviest
      <3>3. CASE lost = value
        BY <1>3, <3>1, <3>3
      <3> QED
        BY <3>2, <3>3
    <2> QED
      BY <1>1, <2>1, <2>2, <2>3 DEF Heaviest
  <1> QED
    BY <1>5, <1>6, <1>7 DEF Stored

-----------------------------------------------------------------------------
(* The steps of the sample. *)

LEMMA EmptySample ==
    ASSUME NEW start, NEW times
    PROVE  /\ WellFormed(<<>>) /\ Counted(<<>>, 0, 0) /\ Bounded(<<>>)
           /\ Accurate(<<>>, start, times) /\ Heaviest(<<>>, 0, start, {})
  <1>1. Keys(<<>>) = {}
    BY DEF Keys
  <1>2. IsFiniteSet({}) /\ Cardinality({}) = 0
    BY FS_EmptySet
  <1>3. WellFormed(<<>>)
    BY <1>1, <1>2 DEF WellFormed
  <1>4. Counted(<<>>, 0, 0)
    <2>1. Cardinality(Keys(<<>>)) = 0
      BY <1>1, <1>2
    <2>2. 0 < decay_reservoir_size_ /\ ~(0 > 0)
      BY ExpDecayAssumption
    <2> QED
      BY <2>1, <2>2 DEF Counted
  <1>5. Bounded(<<>>) /\ Accurate(<<>>, start, times)
    BY <1>1 DEF Bounded, Accurate
  <1>6. Heaviest(<<>>, 0, start, {})
    BY <1>1 DEF Heaviest
  <1> QED
    BY <1>3, <1>4, <1>5, <1>6

LEMMA ExpDecayInit == DecayInit => ExpDecayInv
  <1> SUFFICES ASSUME DecayInit PROVE ExpDecayInv
    OBVIOUS
  <1>1. TypeInv
    BY EmptySample, PartsAreNatural DEF DecayInit, TypeInv
  <1> QED
    BY <1>1, EmptySample DEF DecayInit, ExpDecayInv

(* The sample as an update finds it.                                        *)
LEMMA FoundSample ==
    ASSUME ExpDecayInv, NEW time \in 0 .. now, NEW sample, NEW lost, NEW times,
           sample = rescaledIfNeeded(time),
           lost = IF rescaleNeeded(time) THEN 0 ELSE merged,
           times = rescales + (IF rescaleNeeded(time) THEN 1 ELSE 0)
    PROVE  /\ WellFormed(sample.values)
           /\ sample.count \in Nat /\ sample.start \in Nat
           /\ lost \in Nat /\ times \in Nat
           /\ sample.next = sample.start + RESCALE_THRESHOLD
           /\ time <= sample.start + RESCALE_THRESHOLD
           /\ Counted(sample.values, sample.count, lost)
           /\ Bounded(sample.values)
           /\ Accurate(sample.values, sample.start, times)
           /\ /\ exact /\ Zero \notin Keys(sample.values)
              /\ Cardinality(Keys(sample.values)) = Cardinality(Keys(decay_values_))
              => /\ lost = 0
                 /\ Heaviest(sample.values, sample.count, sample.start, offered)
  <1>1. /\ TypeInv /\ WellFormed(decay_values_)
        /\ Counted(decay_values_, decay_count_, merged)
        /\ Bounded(decay_values_)
        /\ Accurate(decay_values_, start_time_, rescales)
        /\ time \in Nat
        /\ exact => merged = 0
                    /\ Heaviest(decay_values_, decay_count_, start_time_, offered)
    BY DEF ExpDecayInv, TypeInv
  <1>2. CASE ~rescaleNeeded(time)
    <2>1. /\ sample.values = decay_values_ /\ sample.count = decay_count_
          /\ sample.start = start_time_ /\ sample.next = next_scale_time_
      BY <1>2 DEF rescaledIfNeeded
    <2>2. time <= start_time_ + RESCALE_THRESHOLD
      BY <1>1, <1>2, PartsAreNatural DEF TypeInv, rescaleNeeded
    <2>3. lost = merged /\ times = rescales
      BY <1>1, <1>2 DEF TypeInv
    <2> QED
      BY <1>1, <2>1, <2>2, <2>3 DEF TypeInv
  <1>3. CASE rescaleNeeded(time)
    <2>1. PICK new : new = rescale(time)
      OBVIOUS
    <2>2. /\ sample.values = new /\ sample.count = Cardinality(Keys(new))
          /\ sample.start = time /\ sample.next = time + RESCALE_THRESHOLD
      BY <1>3, <2>1 DEF rescaledIfNeeded
    <2>3. start_time_ \in Nat /\ start_time_ <= time
      BY <1>1, <1>3, PartsAreNatural DEF TypeInv, rescaleNeeded
    <2>4. PICK seconds \in Nat :
              /\ seconds = InSeconds(time - start_time_)
              /\ Rescaled(decay_values_, new, seconds)
      BY <1>1, <2>1, <2>3, RescaleFacts
    <2>5. lost = 0 /\ times = rescales + 1
      BY <1>3
    <2>6. /\ rescales \in Nat /\ decay_count_ \in Nat /\ merged \in Nat
          /\ offered \subseteq Recorded
      BY <1>1 DEF TypeInv
    <2>7. WellFormed(new) /\ Bounded(new)
      BY <1>1, <2>4, RescaledWell, RescaledBounded
    <2>8. Accurate(new, time, rescales + 1)
      BY <1>1, <2>3, <2>4, <2>6, RescaledAccurate
    <2>9. Cardinality(Keys(new)) \in Nat /\ Counted(new, Cardinality(Keys(new)), 0)
      BY <1>1, <2>4, <2>6, RescaledCounted
    <2>10. ASSUME exact, Zero \notin Keys(new),
                  Cardinality(Keys(new)) = Cardinality(Keys(decay_values_))
           PROVE  Heaviest(new, Cardinality(Keys(new)), time, offered)
      <3>1. Counted(decay_values_, decay_count_, 0)
        BY <1>1, <2>10
      <3> QED
        BY <1>1, <2>3, <2>4, <2>6, <2>10, <3>1, RescaledHeaviest
    <2> QED
      BY <1>1, <2>2, <2>5, <2>6, <2>7, <2>8, <2>9, <2>10, PartsAreNatural
  <1> QED
    BY <1>2, <1>3

LEMMA UpdateStep ==
    ASSUME ExpDecayInv, NEW time \in 0 .. now, NEW draw \in Draws,
           DecayUpdate(time, draw)
    PROVE  ExpDecayInv'
  <1>1. PICK sample, lost, times, value, key, more :
            /\ sample = rescaledIfNeeded(time)
            /\ lost = IF rescaleNeeded(time) THEN 0 ELSE merged
            /\ times = rescales + (IF rescaleNeeded(time) THEN 1 ELSE 0)
            /\ value = [at |-> time, draw |-> draw]
            /\ key = Representable(InSeconds(time - sample.start) + draw)
            /\ more = IF key \in Keys(sample.values)
                         /\ sample.count + 1 <= decay_reservoir_size_
                      THEN 1 ELSE 0
    OBVIOUS
  <1>2. /\ decay_values_' = stored(sample.values, sample.count + 1, key, value)
        /\ decay_count_' = sample.count + 1
        /\ start_time_' = sample.start /\ next_scale_time_' = sample.next
        /\ offered' = offered \cup {value}
        /\ rescales' = times /\ merged' = lost + more
        /\ exact' = /\ exact /\ key \notin Keys(sample.values)
                    /\ Cardinality(Keys(sample.values))
                           = Cardinality(Keys(decay_values_))
                    /\ Zero \notin Keys(sample.values) \cup {key}
        /\ now' = now
    BY <1>1 DEF DecayUpdate
  <1>3. time \in Nat /\ now \in Nat /\ offered \subseteq Recorded
    BY DEF ExpDecayInv, TypeInv
  <1>4. value \in Recorded
    BY <1>1, <1>3 DEF Recorded
  <1>5. PICK values, count, start :
            /\ values = sample.values /\ count = sample.count
            /\ start = sample.start
            /\ count \in Nat /\ start \in Nat
    BY <1>1, FoundSample
  <1>6. /\ WellFormed(values) /\ lost \in Nat /\ times \in Nat
        /\ sample.next = start + RESCALE_THRESHOLD
        /\ time <= start + RESCALE_THRESHOLD
        /\ Counted(values, count, lost) /\ Bounded(values)
        /\ Accurate(values, start, times)
        /\ /\ exact /\ Zero \notin Keys(values)
           /\ Cardinality(Keys(values)) = Cardinality(Keys(decay_values_))
           => lost = 0 /\ Heaviest(values, count, start, offered)
    BY <1>1, <1>5, FoundSample
  <1>7. key = Representable(InSeconds(time - start) + draw)
    BY <1>1, <1>5
  <1>8. /\ key \in Int /\ Zero <= key
        /\ key <= Max(Draws) + InSeconds(RESCALE_THRESHOLD)
    BY <1>3, <1>5, <1>6, <1>7, KeyOfUpdate
  <1>9. PICK new : new = decay_values_'
    OBVIOUS
  <1>10. Stored(values, new, count, key, value)
    BY <1>2, <1>5, <1>6, <1>8, <1>9, StoredCases
  <1>11. WellFormed(new) /\ Bounded(new)
    BY <1>4, <1>6, <1>8, <1>10, StoredWell, StoredBounded
  <1>12. Accurate(new, start, times)
    BY <1>1, <1>3, <1>5, <1>6, <1>7, <1>10, StoredAccurate
  <1>13. Counted(new, count + 1, lost + more)
    BY <1>1, <1>5, <1>6, <1>8, <1>10, StoredCounted
  <1>14. ASSUME exact'
         PROVE  merged' = 0 /\ Heaviest(new, count + 1, start, offered')
    <2>1. /\ exact /\ key \notin Keys(values) /\ Zero \notin Keys(values)
          /\ key # Zero
          /\ Cardinality(Keys(values)) = Cardinality(Keys(decay_values_))
      BY <1>2, <1>5, <1>14
    <2>2. lost = 0 /\ Heaviest(values, count, start, offered)
      BY <1>6, <2>1
    <2>3. more = 0
      BY <1>1, <1>5, <2>1
    <2>4. -(Second - 1) <= key * Second - (Weight(value) - start)
      <3>1. PICK single : single = PutKey(<<>>, key, value)
        OBVIOUS
      <3>2. Keys(single) = {key} /\ single[key] = value
        BY <3>1 DEF PutKey, Keys
      <3>3. Replaced(<<>>, single, {}, key, value)
        BY <3>2 DEF Replaced, Keys
      <3>4. Stored(<<>>, single, 0, key, value)
        BY <3>3, ExpDecayAssumption DEF Stored, Added
      <3>5. Accurate(single, start, times)
        BY <1>1, <1>3, <1>5, <1>6, <1>7, <3>4, EmptySample, StoredAccurate
      <3> QED
        BY <2>1, <3>2, <3>5 DEF Accurate
    <2>5. Heaviest(new, count + 1, start, offered \cup {value})
      BY <1>3, <1>4, <1>5, <1>6, <1>8, <1>10, <2>1, <2>2, <2>4,
         StoredHeaviest
    <2> QED
      BY <1>2, <2>2, <2>3, <2>5
  <1>15. TypeInv'
    <2>1. more \in Nat /\ exact' \in BOOLEAN
      BY <1>1, <1>2
    <2> QED
      BY <1>2, <1>3, <1>4, <1>5, <1>6, <1>9, <1>11, <2>1
      DEF TypeInv, Recorded
  <1> QED
    BY <1>2, <1>5, <1>9, <1>11, <1>12, <1>13, <1>14, <1>15 DEF ExpDecayInv

LEMMA ClearStep ==
    ASSUME ExpDecayInv, DecayClear PROVE ExpDecayInv'
  <1>1. TypeInv'
    BY EmptySample DEF ExpDecayInv, TypeInv, DecayClear
  <1> QED
    BY <1>1, EmptySample DEF DecayClear, ExpDecayInv

-----------------------------------------------------------------------------
(* What holds of the sample after any updates and clears.                   *)
THEOREM ExpDecayInvariant == DecaySpec => []ExpDecayInv
  <1>1. ExpDecayInv /\ [DecayNext]_decayVars => ExpDecayInv'
    <2> SUFFICES ASSUME ExpDecayInv, [DecayNext]_decayVars PROVE ExpDecayInv'
      OBVIOUS
    <2>1. CASE TimePasses
      BY <2>1 DEF TimePasses, ExpDecayInv, TypeInv
    <2>2. CASE UNCHANGED decayVars
      BY <2>2 DEF decayVars, ExpDecayInv, TypeInv
    <2> QED
      BY <2>1, <2>2, UpdateStep, ClearStep DEF DecayNext
  <1> QED
    BY ExpDecayInit, <1>1, PTL DEF DecaySpec

(* size() says how many values a snapshot has, but for those lost to equal  *)
(* priorities since the last rescale or clear.                              *)
THEOREM SizeIsHeld == DecaySpec => []SizeIsWhatIsHeld
  <1>1. ExpDecayInv => SizeIsWhatIsHeld
    BY DEF ExpDecayInv, Counted, SizeIsWhatIsHeld, size
  <1> QED
    BY <1>1, ExpDecayInvariant, PTL

(* exp() never gets more to raise than a whole threshold of age: whatever   *)
(* old timestamps updates come with, the priorities stay finite.            *)
THEOREM PrioritiesAreFinite == DecaySpec => []PrioritiesStayFinite
  <1>1. ExpDecayInv => PrioritiesStayFinite
    BY DEF ExpDecayInv, Bounded, PrioritiesStayFinite
  <1> QED
    BY <1>1, ExpDecayInvariant, PTL

(* Through any number of rescales a key stays that of its value, but for    *)
(* what each conversion to seconds has cut off.                             *)
THEOREM KeysAreAccurate == DecaySpec => []KeysAreOfTheirValues
  <1>1. ASSUME ExpDecayInv PROVE KeysAreOfTheirValues
    <2> SUFFICES ASSUME NEW k \in Keys(decay_values_) \ {Zero}
                 PROVE  k * Second - (decay_values_[k].at + decay_values_[k].draw * Second
                                          - start_time_)
                            \in -(Second - 1) .. (rescales + 1) * (Second - 1)
      BY DEF KeysAreOfTheirValues
    <2>1. k \in Int /\ decay_values_[k] \in Recorded
      BY <1>1 DEF ExpDecayInv, TypeInv, WellFormed
    <2>2. PICK w \in Int, p \in Int, b \in Int :
              /\ w = Weight(decay_values_[k]) /\ p = k * Second
              /\ b = (rescales + 1) * (Second - 1)
      BY <1>1, <2>1, WeightType, PartsAreNatural DEF ExpDecayInv, TypeInv
    <2>3. -(Second - 1) <= p - (w - start_time_) /\ p - (w - start_time_) <= b
      BY <1>1, <2>2 DEF ExpDecayInv, Accurate
    <2>4. start_time_ \in Int
      BY <1>1 DEF ExpDecayInv, TypeInv
    <2>5. PICK at \in Nat, d \in Int :
              at = decay_values_[k].at /\ d = decay_values_[k].draw * Second
      <3>1. PICK time \in Nat, draw \in Nat, s \in Nat :
                decay_values_[k].at = time /\ decay_values_[k].draw = draw /\ Second = s
        BY <2>1, ExpDecayAssumption DEF Recorded
      <3>2. draw * s \in Int
        OBVIOUS
      <3> QED
        BY <3>1, <3>2
    <2>6. w = at + d
      BY <2>2, <2>5 DEF Weight
    <2>7. p - (at + d - start_time_) \in -(Second - 1) .. b
      BY <2>2, <2>3, <2>4, <2>6, PartsAreNatural
    <2> QED
      BY <2>2, <2>5, <2>7
  <1> QED
    BY <1>1, ExpDecayInvariant, PTL

(* The sample holds the heaviest of the values recorded, of any number of   *)
(* them and over any number of rescales, but for the seconds cut off.       *)
THEOREM HeaviestAreHeld == DecaySpec => []HoldsTheHeaviest
  <1>1. ASSUME ExpDecayInv PROVE HoldsTheHeaviest
    <2> SUFFICES ASSUME exact, NEW lost \in offered \ Held(decay_values_),
                        NEW k \in Keys(decay_values_)
                 PROVE  Weight(lost) <= Weight(decay_values_[k])
                                            + (rescales + 2) * (Second - 1)
      BY DEF HoldsTheHeaviest, Held
    <2>1. /\ k \in Int /\ decay_values_[k] \in Recorded /\ lost \in Recorded
          /\ start_time_ \in Int /\ rescales \in Nat
      BY <1>1 DEF ExpDecayInv, TypeInv, WellFormed
    <2>2. PICK w \in Int, v \in Int, p \in Int, b \in Int :
              /\ w = Weight(decay_values_[k]) /\ v = Weight(lost)
              /\ p = k * Second /\ b = (rescales + 1) * (Second - 1)
      BY <2>1, WeightType, PartsAreNatural
    <2>3. v - start_time_ <= p + (Second - 1) /\ k # Zero
      BY <1>1, <2>2 DEF ExpDecayInv, Heaviest
    <2>4. p - (w - start_time_) <= b
      BY <1>1, <2>2, <2>3 DEF ExpDecayInv, Accurate
    <2>5. (rescales + 2) * (Second - 1) = b + (Second - 1)
      <3>1. (rescales + 1 + 1) * (Second - 1)
                = (rescales + 1) * (Second - 1) + 1 * (Second - 1)
        BY <2>1, Distributes, PartsAreNatural
      <3>2. rescales + 1 + 1 = rescales + 2
        BY <2>1
      <3> QED
        BY <2>2, <3>1, <3>2, PartsAreNatural
    <2> QED
      BY <2>1, <2>2, <2>3, <2>4, <2>5, PartsAreNatural
  <1> QED
    BY <1>1, ExpDecayInvariant, PTL
=============================================================================
