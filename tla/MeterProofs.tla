----------------------------- MODULE MeterProofs -----------------------------
(***************************************************************************)
(* Proofs about Meter for any threads, any number of EWMAs, any interval,  *)
(* any amounts, any smoothing constant and any resolution of rates: the    *)
(* tick grid is kept whoever ticks, the unsigned age never wraps round,    *)
(* and no average leaves the range of the counts its ticks have taken,     *)
(* however many tick loops overlap.                                        *)
(***************************************************************************)
EXTENDS Meter, FiniteSetTheorems, TLAPS

(* The steps of EWMA::tick, which are those of a thread that owes ticks.    *)
TickSteps ==
    {"exchange", "isInit", "loadEwma", "casEwma", "storeEwma", "setInit"}

(* A thread owes ticks exactly while it is in the loop that gives them;     *)
(* outside of it and of mark() its next EWMA is the first.                  *)
Loop(t) ==
    /\ pc[t] \in TickSteps => local[t].left > 0
    /\ pc[t] \notin TickSteps => local[t].left = 0
    /\ pc[t] \notin TickSteps \cup {"update"} => local[t].ewma = 1

LoopInv == \A t \in Threads : Loop(t)

(* The time a thread has loaded from last_tick_ is not to come, nor is the  *)
(* time it has read from the clock, which it read later.                    *)
ClockInv ==
    \A t \in Threads :
        /\ pc[t] = "readClock" => local[t].old <= now
        /\ pc[t] = "compare" =>
              local[t].old <= local[t].cur /\ local[t].cur <= now

(* A value within the range of the counts that ticks have taken.            *)
Reached(counts, value) ==
    /\ \E i \in DOMAIN counts : InstantRate(counts[i]) <= value
    /\ \E i \in DOMAIN counts : value <= InstantRate(counts[i])

Taken(counts, n) == \E i \in DOMAIN counts : counts[i] = n

(* What the thread that ticks an EWMA knows of it: the count it has taken   *)
(* is in the log; an average it has seen initialised, loaded or stored is   *)
(* within the range.                                                        *)
Ticker(t) ==
    LET r == local[t].ewma
    IN /\ pc[t] \in {"isInit", "loadEwma", "casEwma", "storeEwma"} =>
              Taken(log[r], local[t].count)
       /\ pc[t] = "loadEwma" => initialized_[r]
       /\ pc[t] = "casEwma" => Reached(log[r], local[t].cur_ewma)
       /\ pc[t] = "setInit" => Reached(log[r], ewma_[r])

TickerInv == \A t \in Threads : Ticker(t)

AverageInv == \A r \in Rates : initialized_[r] => Reached(log[r], ewma_[r])

(* While no two loops have met, there is one at most; each EWMA that no     *)
(* tick is at has the average of its log, and the one that a tick is at     *)
(* has that of its log without the count just taken.                        *)
AtEwma == TickSteps \ {"exchange"}

Settled(r) ==
    /\ ewma_[r] = Average(log[r])
    /\ initialized_[r] <=> log[r] # <<>>

AtTick(t) ==
    LET r == local[t].ewma
    IN /\ log[r] # <<>>
       /\ pc[t] \in {"isInit", "loadEwma", "casEwma", "storeEwma"} =>
              /\ ewma_[r] = Average(Front(log[r]))
              /\ initialized_[r] <=> Front(log[r]) # <<>>
              /\ local[t].count = Last(log[r])
       /\ pc[t] = "casEwma" => local[t].cur_ewma = ewma_[r]
       /\ pc[t] \in {"loadEwma", "casEwma"} => initialized_[r]
       /\ pc[t] = "storeEwma" => ~initialized_[r]
       /\ pc[t] = "setInit" => ewma_[r] = Average(log[r])

AloneInv ==
    ~overlap => \A t, u \in Threads :
                   pc[t] \in TickSteps /\ pc[u] \in TickSteps => t = u

ExactInv ==
    ~overlap =>
        /\ \A t \in Threads : pc[t] \in AtEwma => AtTick(t)
        /\ \A r \in Rates :
              (\A t \in Threads : pc[t] \in AtEwma => local[t].ewma # r)
                  => Settled(r)

MeterInv ==
    /\ TypeOK /\ LoopInv
    /\ ClockInv /\ TicksMatchIntervals
    /\ TickerInv /\ AverageInv
    /\ EveryTickIsTaken /\ EventsAreConserved
    /\ AloneInv /\ ExactInv

-----------------------------------------------------------------------------
(* Sums, as the folds they are in the community modules.                    *)
Plus(x, y) == x + y
Pick(s) == CHOOSE x \in s : TRUE
Sums == INSTANCE FoldLemmas WITH Op <- Plus, Choice <- Pick

LEMMA FiniteInSums == ASSUME NEW S, IsFiniteSet(S) PROVE Sums!IsFiniteSet(S)
  BY DEF IsFiniteSet, Sums!IsFiniteSet

LEMMA SumIs ==
    ASSUME NEW f, NEW S
    PROVE  SumFunctionOnSet(f, S) = Sums!Folded(0, f, S)
  BY DEF SumFunctionOnSet, FoldFunctionOnSet, MapThenFoldSet, Sums!Folded,
         Sums!FoldFrom, Sums!IsFold, Plus, Pick

LEMMA SumIsInt ==
    ASSUME NEW f, NEW S, IsFiniteSet(S), \A x \in S : f[x] \in Int
    PROVE  SumFunctionOnSet(f, S) \in Int
  <1>1. Sums!Chooses(S)
    BY DEF Sums!Chooses, Pick
  <1>2. Sums!Closed(0, f, S, Int)
    BY DEF Sums!Closed, Plus
  <1>3. Sums!Folded(0, f, S) \in Int
    BY <1>1, <1>2, FiniteInSums, Sums!FoldType
  <1> QED
    BY <1>3, SumIs

(* The sum without any one of the elements.                                 *)
LEMMA SumWithout ==
    ASSUME NEW f, NEW S, IsFiniteSet(S), \A x \in S : f[x] \in Int
    PROVE  \A x \in S : SumFunctionOnSet(f, S) =
                            f[x] + SumFunctionOnSet(f, S \ {x})
  <1>1. Sums!Chooses(S)
    BY DEF Sums!Chooses, Pick
  <1>2. Sums!Closed(0, f, S, Int)
    BY DEF Sums!Closed, Plus
  <1>3. Sums!Commutes(f, S, Int)
    BY DEF Sums!Commutes, Plus
  <1>4. \A x \in S : Sums!Folded(0, f, S)
                       = Plus(f[x], Sums!Folded(0, f, S \ {x}))
    BY <1>1, <1>2, <1>3, FiniteInSums, Sums!FoldWithout
  <1> QED
    BY <1>4, SumIs DEF Plus

(* The sum depends on the values of the set only.                           *)
LEMMA SumOfEqual ==
    ASSUME NEW f, NEW g, NEW S, IsFiniteSet(S), \A x \in S : f[x] = g[x]
    PROVE  SumFunctionOnSet(f, S) = SumFunctionOnSet(g, S)
  <1>1. Sums!Chooses(S)
    BY DEF Sums!Chooses, Pick
  <1>2. Sums!Folded(0, f, S) = Sums!Folded(0, g, S)
    BY <1>1, FiniteInSums, Sums!FoldOfEqual
  <1> QED
    BY <1>2, SumIs

(* A function that changes at one element at most.                          *)
LEMMA SumChanges ==
    ASSUME NEW S, IsFiniteSet(S), NEW f, NEW g, NEW x \in S,
           \A y \in S : f[y] \in Int /\ g[y] \in Int,
           \A y \in S \ {x} : g[y] = f[y]
    PROVE  /\ SumFunctionOnSet(f, S) \in Int
           /\ SumFunctionOnSet(g, S) = SumFunctionOnSet(f, S) + g[x] - f[x]
  <1> DEFINE U == S \ {x}
  <1>1. IsFiniteSet(U)
    BY FS_Subset
  <1>2. /\ SumFunctionOnSet(f, S) = f[x] + SumFunctionOnSet(f, U)
        /\ SumFunctionOnSet(g, S) = g[x] + SumFunctionOnSet(g, U)
    BY SumWithout
  <1>3. SumFunctionOnSet(f, U) = SumFunctionOnSet(g, U)
    BY <1>1, SumOfEqual
  <1>4. SumFunctionOnSet(f, S) \in Int /\ SumFunctionOnSet(f, U) \in Int
    BY <1>1, SumIsInt
  <1>5. f[x] \in Int /\ g[x] \in Int
    OBVIOUS
  <1> HIDE DEF U
  <1> QED
    BY <1>2, <1>3, <1>4, <1>5

(* A sequence that gets one more number.                                    *)
LEMMA SumOfAppend ==
    ASSUME NEW s \in Seq(Int), NEW n \in Int
    PROVE  /\ SumFunction(s) \in Int
           /\ SumFunction(Append(s, n)) = SumFunction(s) + n
  <1> DEFINE last == Len(s) + 1
             m == Append(s, n)
  <1>1. /\ DOMAIN s = 1 .. Len(s) /\ DOMAIN m = 1 .. last /\ m[last] = n
        /\ \A i \in DOMAIN s : m[i] = s[i] /\ s[i] \in Int
        /\ \A i \in DOMAIN m : m[i] \in Int
    OBVIOUS
  <1>2. Len(s) \in Nat /\ last \in DOMAIN m /\ DOMAIN m \ {last} = DOMAIN s
    BY <1>1
  <1>3. IsFiniteSet(DOMAIN s) /\ IsFiniteSet(DOMAIN m)
    BY <1>1, <1>2, FS_Interval
  <1>4. SumFunctionOnSet(s, DOMAIN s) \in Int
    BY <1>1, <1>3, SumIsInt
  <1>5. SumFunctionOnSet(m, DOMAIN m) = m[last] + SumFunctionOnSet(m, DOMAIN s)
    <2> DEFINE D == DOMAIN m
    <2>1. IsFiniteSet(D) /\ last \in D /\ \A i \in D : m[i] \in Int
      BY <1>1, <1>2, <1>3
    <2> HIDE DEF m, last, D
    <2>2. SumFunctionOnSet(m, D) = m[last] + SumFunctionOnSet(m, D \ {last})
      BY <2>1, SumWithout
    <2> QED
      BY <1>2, <2>2 DEF D
  <1> HIDE DEF m, last
  <1>6. SumFunctionOnSet(m, DOMAIN s) = SumFunctionOnSet(s, DOMAIN s)
    <2> DEFINE D == DOMAIN s
    <2>1. IsFiniteSet(D) /\ \A i \in D : m[i] = s[i]
      BY <1>1, <1>3
    <2> HIDE DEF D
    <2>2. SumFunctionOnSet(m, D) = SumFunctionOnSet(s, D)
      BY <2>1, SumOfEqual
    <2> QED
      BY <2>2 DEF D
  <1>7. SumFunction(m) = SumFunction(s) + n
    BY <1>1, <1>4, <1>5, <1>6 DEF SumFunction
  <1> QED
    BY <1>4, <1>7 DEF m, SumFunction

LEMMA SumOfEmpty == SumFunction(<<>>) = 0
  <1>1. DOMAIN <<>> = {}
    OBVIOUS
  <1>2. Sums!Folded(0, <<>>, {}) = 0
    BY Sums!FoldOfNone
  <1> QED
    BY <1>1, <1>2, SumIs DEF SumFunction

LEMMA SumOfNothing ==
    ASSUME NEW S, IsFiniteSet(S)
    PROVE  SumFunction([x \in S |-> 0]) = 0
  <1> DEFINE f == [x \in S |-> 0]
             V == {0}
  <1>1. Sums!Chooses(S) /\ Sums!Closed(0, f, S, V)
    BY DEF Sums!Chooses, Sums!Closed, Pick, Plus
  <1>2. DOMAIN f = S /\ S \in SUBSET S
    OBVIOUS
  <1> HIDE DEF f, V
  <1>3. Sums!Folded(0, f, S) \in V
    BY <1>1, <1>2, FiniteInSums, Sums!FoldType
  <1>4. SumFunction(f) \in V
    BY <1>2, <1>3, SumIs DEF SumFunction
  <1> QED
    BY <1>4 DEF f, V

-----------------------------------------------------------------------------
(* Division rounds down, and keeps a quotient between its bounds.           *)
LEMMA Division ==
    ASSUME NEW x \in Int, NEW d \in Nat, d > 0
    PROVE  /\ x \div d \in Int
           /\ x % d \in 0 .. d - 1
           /\ x = d * (x \div d) + (x % d)
  BY SMT

LEMMA QuotientFromBelow ==
    ASSUME NEW x \in Int, NEW d \in Nat, d > 0, NEW y \in Int, d * y <= x
    PROVE  y <= x \div d
  BY SMT

LEMMA QuotientFromAbove ==
    ASSUME NEW x \in Int, NEW d \in Nat, d > 0, NEW y \in Int, x <= d * y
    PROVE  x \div d <= y
  BY SMT

(* The new average lies between the old one and the rate of the interval.   *)
LEMMA FoldIsBetween ==
    ASSUME NEW cur \in Int, NEW rate \in Int
    PROVE  /\ Fold(cur, rate) \in Int
           /\ cur <= rate => cur <= Fold(cur, rate) /\ Fold(cur, rate) <= rate
           /\ rate <= cur => rate <= Fold(cur, rate) /\ Fold(cur, rate) <= cur
  <1> DEFINE gap == rate - cur
             part == (AlphaNum * gap) \div AlphaDen
  <1>1. /\ AlphaNum \in Nat /\ AlphaDen \in Nat
        /\ AlphaNum > 0 /\ AlphaDen > 0 /\ AlphaNum <= AlphaDen
    BY MeterAssumption
  <1>2. gap \in Int /\ AlphaNum * gap \in Int
    BY <1>1
  <1>3. part \in Int
    BY <1>1, <1>2, Division
  <1>4. gap >= 0 => part \in 0 .. gap
    <2> SUFFICES ASSUME gap >= 0 PROVE part \in 0 .. gap
      OBVIOUS
    <2>1. AlphaDen * 0 <= AlphaNum * gap
      BY <1>1, <1>2
    <2>2. AlphaNum * gap <= AlphaDen * gap
      BY <1>1, <1>2
    <2> QED
      BY <1>1, <1>2, <1>3, <2>1, <2>2, QuotientFromBelow, QuotientFromAbove
  <1>5. gap <= 0 => part \in gap .. 0
    <2> SUFFICES ASSUME gap <= 0 PROVE part \in gap .. 0
      OBVIOUS
    <2>1. AlphaNum * gap <= AlphaDen * 0
      BY <1>1, <1>2
    <2>2. AlphaDen * gap <= AlphaNum * gap
      BY <1>1, <1>2
    <2> QED
      BY <1>1, <1>2, <1>3, <2>1, <2>2, QuotientFromBelow, QuotientFromAbove
  <1>6. Fold(cur, rate) = cur + part
    BY DEF Fold
  <1> HIDE DEF part
  <1> QED
    BY <1>3, <1>4, <1>5, <1>6

LEMMA RateType == ASSUME NEW n \in Nat PROVE InstantRate(n) \in Int
  BY MeterAssumption DEF InstantRate

-----------------------------------------------------------------------------
(* The average of a sequence of counts, as the fold it is: the newest count *)
(* is weighed last.                                                         *)
Weigh(n, average) == Weighted(average, n)
Newest(s) == Max(s)
Averages == INSTANCE FoldLemmas WITH Op <- Weigh, Choice <- Newest

LEMMA FiniteInAverages ==
    ASSUME NEW S, IsFiniteSet(S) PROVE Averages!IsFiniteSet(S)
  BY DEF IsFiniteSet, Averages!IsFiniteSet

LEMMA NewestIs ==
    ASSUME NEW S, IsFiniteSet(S), S # {}, \A x \in S : x \in Int
    PROVE  Newest(S) \in S /\ \A y \in S : Newest(S) >= y
  <1>1. \E x \in S : \A y \in S : x >= y
    BY FiniteInAverages, Averages!GreatestExists
  <1> QED
    BY <1>1 DEF Newest, Max

LEMMA AverageBy ==
    ASSUME NEW first, NEW counts
    PROVE  FoldLeft(Weighted, first, counts)
             = Averages!Folded(first, counts, DOMAIN counts)
  BY DEF FoldLeft, MapThenFoldSet, Averages!Folded, Averages!FoldFrom,
         Averages!IsFold, Weigh, Newest

LEMMA FoldLeftOfAppend ==
    ASSUME NEW first, NEW s \in Seq(Nat), NEW n \in Nat
    PROVE  FoldLeft(Weighted, first, Append(s, n))
             = Weighted(FoldLeft(Weighted, first, s), n)
  <1> DEFINE D == DOMAIN s
             E == DOMAIN Append(s, n)
             m == Append(s, n)
             last == Len(s) + 1
  <1>1. /\ D = 1 .. Len(s) /\ E = 1 .. last /\ m[last] = n
        /\ Len(s) \in Nat /\ \A i \in D : m[i] = s[i]
    OBVIOUS
  <1>2. IsFiniteSet(D) /\ IsFiniteSet(E)
    BY <1>1, FS_Interval
  <1>3. last \in E /\ E \ {last} = D /\ E # {} /\ \A i \in E : i <= last
    <2>1. 1 .. last \ {last} = 1 .. Len(s) /\ last \in 1 .. last
      BY <1>1
    <2>2. E = 1 .. last /\ D = 1 .. Len(s)
      BY <1>1
    <2> HIDE DEF D, E
    <2> QED
      BY <1>1, <2>1, <2>2
  <1>4. \A i \in E : i \in Int
    BY <1>1
  <1>5. D \subseteq E
    BY <1>1
  <1> HIDE DEF D, E, m
  <1>6. Averages!Chooses(E) /\ Averages!Chooses(D)
    <2>1. ASSUME NEW S \in SUBSET E, S # {} PROVE Newest(S) \in S
      <3>1. IsFiniteSet(S) /\ \A x \in S : x \in Int
        BY <1>2, <1>4, FS_Subset
      <3> QED
        BY <2>1, <3>1, NewestIs
    <2> QED
      BY <1>5, <2>1 DEF Averages!Chooses
  <1>7. Newest(E) = last
    <2>1. Newest(E) \in E /\ \A y \in E : Newest(E) >= y
      BY <1>2, <1>3, <1>4, NewestIs
    <2>2. Newest(E) >= last /\ Newest(E) <= last /\ last \in Int
          /\ Newest(E) \in Int
      BY <1>3, <1>4, <2>1
    <2> QED
      BY <2>2
  <1>8. Averages!Folded(first, m, E)
          = Weigh(m[Newest(E)], Averages!Folded(first, m, E \ {Newest(E)}))
    BY <1>2, <1>3, <1>6, FiniteInAverages, Averages!FoldOfSome
  <1>9. Averages!Folded(first, m, D) = Averages!Folded(first, s, D)
    BY <1>1, <1>2, <1>6, FiniteInAverages, Averages!FoldOfEqual
  <1>10. Averages!Folded(first, m, E) = Weigh(n, Averages!Folded(first, s, D))
    BY <1>1, <1>3, <1>7, <1>8, <1>9
  <1>11. /\ FoldLeft(Weighted, first, m) = Averages!Folded(first, m, E)
         /\ FoldLeft(Weighted, first, s) = Averages!Folded(first, s, D)
    BY AverageBy DEF m, D, E
  <1> QED
    BY <1>10, <1>11 DEF m, Weigh

LEMMA AverageOfOne ==
    ASSUME NEW n \in Nat
    PROVE  Average(Append(<<>>, n)) = InstantRate(n)
  <1>1. /\ Append(<<>>, n) # <<>> /\ Head(Append(<<>>, n)) = n
        /\ Tail(Append(<<>>, n)) = <<>> /\ DOMAIN <<>> = {}
    OBVIOUS
  <1>2. FoldLeft(Weighted, n * Scale, <<>>) = n * Scale
    <2>1. Averages!Folded(n * Scale, <<>>, {}) = n * Scale
      BY Averages!FoldOfNone
    <2> QED
      BY <1>1, <2>1, AverageBy
  <1> QED
    BY <1>1, <1>2 DEF Average, InstantRate

LEMMA AverageOfMore ==
    ASSUME NEW s \in Seq(Nat), s # <<>>, NEW n \in Nat
    PROVE  Average(Append(s, n)) = Weighted(Average(s), n)
  <1>1. /\ Append(s, n) # <<>> /\ Head(Append(s, n)) = Head(s)
        /\ Tail(Append(s, n)) = Append(Tail(s), n) /\ Tail(s) \in Seq(Nat)
    OBVIOUS
  <1>2. FoldLeft(Weighted, Head(s) * Scale, Append(Tail(s), n))
          = Weighted(FoldLeft(Weighted, Head(s) * Scale, Tail(s)), n)
    BY <1>1, FoldLeftOfAppend
  <1> QED
    BY <1>1, <1>2 DEF Average

(* The step of EWMA::tick is the step of the weighted average.              *)
LEMMA QuotientOfSum ==
    ASSUME NEW x \in Int, NEW d \in Nat, d > 0, NEW a \in Int
    PROVE  (d * a + x) \div d = a + x \div d
  BY SMT

LEMMA FoldIsWeighted ==
    ASSUME NEW average \in Int, NEW n \in Nat
    PROVE  Fold(average, InstantRate(n)) = Weighted(average, n)
  <1>1. /\ AlphaNum \in Nat /\ AlphaDen \in Nat /\ AlphaDen > 0
        /\ Scale \in Nat
    BY MeterAssumption
  <1> DEFINE rate == n * Scale
             x == AlphaNum * (rate - average)
  <1>2. rate \in Int
    BY <1>1
  <1>3. AlphaNum * n * Scale = AlphaNum * rate
    BY <1>1
  <1>4. Fold(average, InstantRate(n)) = average + x \div AlphaDen
    BY DEF Fold, InstantRate
  <1>5. Weighted(average, n)
          = (AlphaNum * rate + (AlphaDen - AlphaNum) * average) \div AlphaDen
    BY <1>3 DEF Weighted
  <1> HIDE DEF rate
  <1>6. x \in Int
    BY <1>1, <1>2
  <1>7. AlphaNum * rate + (AlphaDen - AlphaNum) * average
          = AlphaDen * average + x
    BY <1>1, <1>2
  <1> HIDE DEF x
  <1> QED
    BY <1>1, <1>4, <1>5, <1>6, <1>7, QuotientOfSum

-----------------------------------------------------------------------------
(* What each action does to the call of its thread, and to no other call.   *)
Moves(t, targets) ==
    /\ pc' \in [Threads -> Steps] /\ local' \in [Threads -> Locals]
    /\ pc'[t] \in targets
    /\ \A u \in Threads \ {t} : pc'[u] = pc[u] /\ local'[u] = local[u]

LEMMA MovesTo ==
    ASSUME TypeOK, NEW t \in Threads, NEW step \in Steps, NEW l \in Locals,
           Goto(t, step), local' = [local EXCEPT ![t] = l]
    PROVE  Moves(t, {step}) /\ local'[t] = l
  <1>1. pc \in [Threads -> Steps] /\ local \in [Threads -> Locals]
    BY DEF TypeOK
  <1>2. pc' = [pc EXCEPT ![t] = step]
    BY DEF Goto
  <1>3. pc' \in [Threads -> Steps] /\ local' \in [Threads -> Locals]
    BY <1>1, <1>2
  <1>4. /\ pc'[t] = step /\ local'[t] = l
        /\ \A u \in Threads \ {t} : pc'[u] = pc[u] /\ local'[u] = local[u]
    BY <1>1, <1>2
  <1> QED
    BY <1>3, <1>4 DEF Moves

LEMMA NoLocalsType ==
    NoLocals \in Locals /\ NoLocals.left = 0 /\ NoLocals.ewma = 1
  <1>1. 1 \in Rates
    BY MeterAssumption DEF Rates
  <1> QED
    BY <1>1 DEF NoLocals, Locals

LEMMA BeginEffect ==
    ASSUME TypeOK, NEW t \in Threads, CallMark(t) \/ CallGetRate(t)
    PROVE  /\ pc[t] = "idle" /\ Moves(t, {"readTick"})
           /\ local'[t].left = 0 /\ local'[t].ewma = 1
           /\ UNCHANGED <<shared, hist>>
  <1>1. 1 \in Rates
    BY MeterAssumption DEF Rates
  <1>2. ASSUME NEW op \in {"mark", "getRate"}, NEW n \in Nat,
               NEW r \in Rates, Begin(t, op, n, r)
        PROVE  /\ pc[t] = "idle" /\ Moves(t, {"readTick"})
               /\ local'[t].left = 0 /\ local'[t].ewma = 1
               /\ UNCHANGED <<shared, hist>>
    <2> DEFINE l == [NoLocals EXCEPT !.op = op, !.n = n, !.rate = r]
    <2>1. l \in Locals /\ l.left = 0 /\ l.ewma = 1
      BY NoLocalsType DEF Locals
    <2>2. Goto(t, "readTick") /\ "readTick" \in Steps
      BY <1>2 DEF Begin, AfterStep, Steps
    <2>3. local' = [local EXCEPT ![t] = l]
      BY <1>2 DEF Begin
    <2> HIDE DEF l
    <2>4. Moves(t, {"readTick"}) /\ local'[t] = l
      BY <2>1, <2>2, <2>3, MovesTo
    <2> QED
      BY <1>2, <2>1, <2>4 DEF Begin
  <1>3. CASE CallMark(t)
    BY <1>1, <1>2, <1>3, MeterAssumption DEF CallMark
  <1>4. CASE CallGetRate(t)
    BY <1>2, <1>4 DEF CallGetRate
  <1> QED
    BY <1>3, <1>4

LEMMA ReadLastTickEffect ==
    ASSUME TypeOK, NEW t \in Threads, ReadLastTick(t)
    PROVE  /\ pc[t] = "readTick" /\ Moves(t, {"readClock"})
           /\ local'[t].old = last_tick_ /\ local'[t].left = local[t].left
           /\ local'[t].ewma = local[t].ewma
           /\ UNCHANGED <<shared, hist>>
  <1> DEFINE l == [local[t] EXCEPT !.old = last_tick_]
  <1>1. /\ l \in Locals /\ l.old = last_tick_
        /\ l.left = local[t].left /\ l.ewma = local[t].ewma
    BY DEF TypeOK, Locals
  <1>2. Goto(t, "readClock") /\ "readClock" \in Steps
    BY DEF ReadLastTick, AfterStep, Steps
  <1>3. local' = [local EXCEPT ![t] = l] /\ UNCHANGED <<shared, hist>>
    BY DEF ReadLastTick, TypeOK
  <1> HIDE DEF l
  <1> QED
    BY <1>1, <1>2, <1>3, MovesTo DEF ReadLastTick

LEMMA ReadClockEffect ==
    ASSUME TypeOK, NEW t \in Threads, ReadClock(t)
    PROVE  /\ pc[t] = "readClock" /\ Moves(t, {"compare"})
           /\ local'[t].old = local[t].old /\ local'[t].cur = now
           /\ local'[t].left = local[t].left /\ local'[t].ewma = local[t].ewma
           /\ UNCHANGED <<shared, hist>>
  <1> DEFINE l == [local[t] EXCEPT !.cur = now]
  <1>1. /\ l \in Locals /\ l.old = local[t].old /\ l.cur = now
        /\ l.left = local[t].left /\ l.ewma = local[t].ewma
    <2>1. now \in Nat /\ local[t] \in Locals
      BY MeterAssumption DEF TypeOK
    <2> QED
      BY <2>1 DEF Locals
  <1>2. Goto(t, "compare") /\ "compare" \in Steps
    BY DEF ReadClock, AfterStep, Steps
  <1>3. local' = [local EXCEPT ![t] = l] /\ UNCHANGED <<shared, hist>>
    BY DEF ReadClock, TypeOK
  <1> HIDE DEF l
  <1> QED
    BY <1>1, <1>2, <1>3, MovesTo DEF ReadClock

(* The age of a thread that has read both times is what it should be.       *)
LEMMA AgeIs ==
    ASSUME TypeOK, ClockInv, NEW t \in Threads, pc[t] = "compare"
    PROVE  /\ Age(t) = local[t].cur - local[t].old /\ Age(t) \in Nat
           /\ Age(t) \div TICK_INTERVAL \in Nat
           /\ NewTick(t) = local[t].old
                               + TICK_INTERVAL * (Age(t) \div TICK_INTERVAL)
           /\ NewTick(t) <= local[t].cur
           /\ Age(t) > TICK_INTERVAL => Age(t) \div TICK_INTERVAL > 0
  <1> DEFINE cur == local[t].cur
             old == local[t].old
             age == Age(t)
  <1>1. cur \in Nat /\ old \in Nat
    BY DEF TypeOK, Locals
  <1>2. now \in Nat /\ now < Wrap /\ Wrap \in Nat
    BY MeterAssumption DEF TypeOK
  <1>3. old <= cur /\ cur <= now
    BY DEF ClockInv
  <1>4. cur - old \in Nat /\ cur - old < Wrap
    BY <1>1, <1>2, <1>3
  <1>5. age = (cur - old) % Wrap
    BY DEF Age
  <1>6. age = cur - old
    BY <1>2, <1>4, <1>5
  <1>7. NewTick(t) = cur - (age % TICK_INTERVAL)
    BY DEF NewTick
  <1>8. TICK_INTERVAL \in Nat /\ TICK_INTERVAL > 0
    BY MeterAssumption
  <1> HIDE DEF cur, old, age
  <1>9. /\ age = TICK_INTERVAL * (age \div TICK_INTERVAL)
                     + (age % TICK_INTERVAL)
        /\ age % TICK_INTERVAL \in 0 .. TICK_INTERVAL - 1
        /\ age \div TICK_INTERVAL \in Int
    BY <1>1, <1>6, <1>8, Division
  <1>10. age \div TICK_INTERVAL >= 0
    BY <1>4, <1>6, <1>8, QuotientFromBelow
  <1>11. age > TICK_INTERVAL => age \div TICK_INTERVAL >= 1
    BY <1>4, <1>6, <1>8, QuotientFromBelow
  <1>12. TICK_INTERVAL * (age \div TICK_INTERVAL) \in Int
    BY <1>8, <1>9
  <1> DEFINE whole == TICK_INTERVAL * (age \div TICK_INTERVAL)
             part == age % TICK_INTERVAL
  <1>13. whole \in Int /\ part \in Int /\ part >= 0 /\ age = whole + part
    BY <1>8, <1>9, <1>12
  <1>14. NewTick(t) = cur - part
    BY <1>7
  <1> HIDE DEF whole, part
  <1>15. NewTick(t) = old + whole /\ NewTick(t) <= cur
    BY <1>1, <1>6, <1>13, <1>14
  <1>16. age \in Nat /\ (age > TICK_INTERVAL => age \div TICK_INTERVAL > 0)
    BY <1>4, <1>6, <1>9, <1>11
  <1>17. age \div TICK_INTERVAL \in Nat
    BY <1>9, <1>10
  <1> QED
    BY <1>6, <1>15, <1>16, <1>17 DEF cur, old, age, whole

LEMMA GrantTicksEffect ==
    ASSUME TypeOK, ClockInv, NEW t \in Threads, GrantTicks(t)
    PROVE  /\ pc[t] = "compare" /\ Moves(t, {"exchange", "count", "getRate"})
           /\ \/ /\ pc'[t] = "exchange" /\ Age(t) \div TICK_INTERVAL > 0
                 /\ local'[t].left = Age(t) \div TICK_INTERVAL
                 /\ local'[t].ewma = 1
                 /\ last_tick_ = local[t].old /\ last_tick_' = NewTick(t)
                 /\ granted' = granted + Age(t) \div TICK_INTERVAL
                 /\ overlap' = (overlap \/ \E u \in Threads : InTickLoop(u))
              \/ /\ pc'[t] \in {"count", "getRate"}
                 /\ UNCHANGED <<local, last_tick_, granted, overlap>>
           /\ UNCHANGED <<now, count_, uncounted_, initialized_, ewma_,
                          log, folds>>
  <1>0. pc[t] = "compare" /\ 1 \in Rates /\ local[t] \in Locals
    BY MeterAssumption DEF GrantTicks, TypeOK, Rates
  <1>1. CASE Age(t) > TICK_INTERVAL /\ last_tick_ = local[t].old
    <2> DEFINE q == Age(t) \div TICK_INTERVAL
               l == [local[t] EXCEPT !.left = q, !.ewma = 1]
    <2>1. q \in Nat /\ q > 0
      BY <1>0, <1>1, AgeIs
    <2> HIDE DEF q
    <2>2. l \in Locals /\ l.left = q /\ l.ewma = 1
      BY <1>0, <2>1 DEF Locals
    <2>3. local' = [local EXCEPT ![t] = l]
      BY <1>1 DEF GrantTicks, TypeOK, q
    <2>4. Goto(t, "exchange") /\ "exchange" \in Steps
      BY <1>1 DEF GrantTicks, Steps
    <2> HIDE DEF l
    <2>5. Moves(t, {"exchange"}) /\ local'[t] = l
      BY <2>2, <2>3, <2>4, MovesTo
    <2>6. Moves(t, {"exchange", "count", "getRate"}) /\ pc'[t] = "exchange"
      BY <2>5 DEF Moves
    <2>7. /\ local'[t].left = Age(t) \div TICK_INTERVAL
          /\ local'[t].ewma = 1 /\ Age(t) \div TICK_INTERVAL > 0
      BY <2>1, <2>2, <2>5 DEF q
    <2> QED
      BY <1>0, <1>1, <2>6, <2>7 DEF GrantTicks
  <1>2. CASE ~(Age(t) > TICK_INTERVAL /\ last_tick_ = local[t].old)
    <2>1. /\ Goto(t, AfterTicks(local[t].op))
          /\ UNCHANGED <<last_tick_, local, granted, overlap>>
      BY <1>2 DEF GrantTicks
    <2>2. AfterTicks(local[t].op) \in {"count", "getRate"}
      BY DEF AfterTicks
    <2>3. AfterTicks(local[t].op) \in Steps
      BY DEF AfterTicks, Steps
    <2>4. local' = [local EXCEPT ![t] = local[t]]
      BY <2>1 DEF TypeOK
    <2>5. Moves(t, {AfterTicks(local[t].op)})
      BY <1>0, <2>1, <2>3, <2>4, MovesTo
    <2> QED
      BY <1>0, <2>1, <2>2, <2>5 DEF GrantTicks, Moves
  <1> QED
    BY <1>1, <1>2

LEMMA LocalsOfNextTick ==
    ASSUME NEW l \in Locals, NEW left \in Nat, NEW r \in Rates,
           NEW n \in Nat, NEW e \in Int
    PROVE  [l EXCEPT !.left = left, !.ewma = r, !.count = n, !.cur_ewma = e]
               \in Locals
  BY DEF Locals

LEMMA EndEwmaTickEffect ==
    ASSUME TypeOK, NEW t \in Threads, local[t].left > 0, EndEwmaTick(t)
    PROVE  /\ Moves(t, {"exchange", "count", "getRate"})
           /\ pc'[t] = "exchange" <=> local'[t].left > 0
           /\ \/ /\ local[t].ewma < NumRates
                 /\ local'[t].left = local[t].left
                 /\ local'[t].ewma = local[t].ewma + 1
              \/ /\ local[t].ewma = NumRates
                 /\ local'[t].left = local[t].left - 1
                 /\ local'[t].ewma = 1
  <1> DEFINE r == local[t].ewma
             left == IF r < NumRates THEN local[t].left ELSE local[t].left - 1
             next == IF r < NumRates THEN r + 1 ELSE 1
             l == [local[t] EXCEPT !.left = left, !.ewma = next,
                                   !.count = 0, !.cur_ewma = 0]
             step == IF left > 0 THEN "exchange" ELSE AfterTicks(local[t].op)
  <1>1. local[t] \in Locals
    BY DEF TypeOK
  <1>2. left \in Nat
    BY <1>1 DEF Locals
  <1>3. next \in Rates
    BY <1>1, MeterAssumption DEF Locals, Rates
  <1>4. local' = [local EXCEPT ![t] = l] /\ Goto(t, step)
    BY DEF EndEwmaTick, TypeOK
  <1>10. \/ r < NumRates /\ left = local[t].left /\ next = r + 1
         \/ r = NumRates /\ left = local[t].left - 1 /\ next = 1
    BY <1>1, MeterAssumption DEF Locals, Rates
  <1> HIDE DEF left, next
  <1>5. l \in Locals
    <2>1. 0 \in Nat /\ 0 \in Int
      OBVIOUS
    <2> QED
      BY <1>1, <1>2, <1>3, <2>1, LocalsOfNextTick, Zenon
  <1>9. l.left = left /\ l.ewma = next
    BY <1>1 DEF Locals
  <1>6. step \in Steps /\ step \in {"exchange", "count", "getRate"}
    BY DEF AfterTicks, Steps
  <1>7. step = "exchange" <=> left > 0
    BY DEF AfterTicks
  <1> HIDE DEF l, step
  <1>8. Moves(t, {step}) /\ local'[t] = l
    BY <1>4, <1>5, <1>6, MovesTo
  <1> QED
    BY <1>6, <1>7, <1>8, <1>9, <1>10 DEF Moves

LEMMA TakeUncountedEffect ==
    ASSUME TypeOK, NEW t \in Threads, TakeUncounted(t)
    PROVE  /\ pc[t] = "exchange" /\ Moves(t, {"isInit"})
           /\ local'[t].ewma = local[t].ewma
           /\ local'[t].left = local[t].left
           /\ local'[t].count = uncounted_[local[t].ewma]
  <1> DEFINE l == [local[t] EXCEPT !.count = uncounted_[local[t].ewma]]
  <1>1. local[t] \in Locals
    BY DEF TypeOK
  <1>2. local[t].ewma \in Rates
    BY <1>1 DEF Locals
  <1>3. uncounted_[local[t].ewma] \in Nat
    BY <1>2 DEF TypeOK
  <1>4. /\ l \in Locals /\ l.ewma = local[t].ewma /\ l.left = local[t].left
        /\ l.count = uncounted_[local[t].ewma]
    BY <1>1, <1>3 DEF Locals
  <1>5. /\ local' = [local EXCEPT ![t] = l] /\ Goto(t, "isInit")
        /\ pc[t] = "exchange" /\ "isInit" \in Steps
    BY DEF TakeUncounted, TypeOK, Steps
  <1> HIDE DEF l
  <1>6. Moves(t, {"isInit"}) /\ local'[t] = l
    BY <1>4, <1>5, MovesTo
  <1> QED
    BY <1>4, <1>5, <1>6

(* A step that leaves the locals of its thread as they are.                 *)
LEMMA OnlyGoes ==
    ASSUME TypeOK, NEW t \in Threads, NEW step \in Steps, Goto(t, step),
           UNCHANGED local
    PROVE  Moves(t, {step})
  <1>1. local[t] \in Locals /\ local' = [local EXCEPT ![t] = local[t]]
    BY DEF TypeOK
  <1> QED
    BY <1>1, MovesTo

LEMMA TestInitializedEffect ==
    ASSUME TypeOK, NEW t \in Threads, TestInitialized(t)
    PROVE  /\ pc[t] = "isInit" /\ Moves(t, {"loadEwma", "storeEwma"})
           /\ pc'[t] = "loadEwma" <=> initialized_[local[t].ewma]
           /\ UNCHANGED <<shared, local, hist>>
  <1>1. CASE initialized_[local[t].ewma]
    <2>1. Goto(t, "loadEwma") /\ "loadEwma" \in Steps
      BY <1>1 DEF TestInitialized, Steps
    <2>2. Moves(t, {"loadEwma"})
      BY <2>1, OnlyGoes DEF TestInitialized
    <2> QED
      BY <1>1, <2>2 DEF TestInitialized, Moves
  <1>2. CASE ~initialized_[local[t].ewma]
    <2>1. Goto(t, "storeEwma") /\ "storeEwma" \in Steps
      BY <1>2 DEF TestInitialized, Steps
    <2>2. Moves(t, {"storeEwma"})
      BY <2>1, OnlyGoes DEF TestInitialized
    <2> QED
      BY <1>2, <2>2 DEF TestInitialized, Moves
  <1> QED
    BY <1>1, <1>2

LEMMA LoadEwmaEffect ==
    ASSUME TypeOK, NEW t \in Threads, LoadEwma(t)
    PROVE  /\ pc[t] = "loadEwma" /\ Moves(t, {"casEwma"})
           /\ local'[t].ewma = local[t].ewma
           /\ local'[t].left = local[t].left
           /\ local'[t].count = local[t].count
           /\ local'[t].cur_ewma = ewma_[local[t].ewma]
           /\ UNCHANGED <<shared, hist>>
  <1> DEFINE l == [local[t] EXCEPT !.cur_ewma = ewma_[local[t].ewma]]
  <1>1. local[t] \in Locals
    BY DEF TypeOK
  <1>2. local[t].ewma \in Rates
    BY <1>1 DEF Locals
  <1>3. ewma_[local[t].ewma] \in Int
    BY <1>2 DEF TypeOK
  <1>4. /\ l \in Locals /\ l.ewma = local[t].ewma /\ l.left = local[t].left
        /\ l.count = local[t].count /\ l.cur_ewma = ewma_[local[t].ewma]
    BY <1>1, <1>3 DEF Locals
  <1>5. /\ local' = [local EXCEPT ![t] = l] /\ Goto(t, "casEwma")
        /\ pc[t] = "loadEwma" /\ "casEwma" \in Steps
    BY DEF LoadEwma, TypeOK, Steps
  <1> HIDE DEF l
  <1>6. Moves(t, {"casEwma"}) /\ local'[t] = l
    BY <1>4, <1>5, MovesTo
  <1> QED
    BY <1>4, <1>5, <1>6 DEF LoadEwma

LEMMA StoreEwmaEffect ==
    ASSUME TypeOK, NEW t \in Threads, StoreEwma(t)
    PROVE  pc[t] = "storeEwma" /\ Moves(t, {"setInit"}) /\ UNCHANGED local
  <1>1. /\ pc[t] = "storeEwma" /\ Goto(t, "setInit") /\ "setInit" \in Steps
        /\ UNCHANGED local
    BY DEF StoreEwma, Steps
  <1> QED
    BY <1>1, OnlyGoes

LEMMA AddToCountEffect ==
    ASSUME TypeOK, NEW t \in Threads, AddToCount(t)
    PROVE  pc[t] = "count" /\ Moves(t, {"update"}) /\ UNCHANGED local
  <1>1. /\ pc[t] = "count" /\ Goto(t, "update") /\ "update" \in Steps
        /\ UNCHANGED local
    BY DEF AddToCount, Steps
  <1> QED
    BY <1>1, OnlyGoes

LEMMA UpdateEwmaEffect ==
    ASSUME TypeOK, NEW t \in Threads, UpdateEwma(t)
    PROVE  /\ pc[t] = "update" /\ Moves(t, {"update", "idle"})
           /\ \/ /\ pc'[t] = "update" /\ local[t].ewma < NumRates
                 /\ local'[t].ewma = local[t].ewma + 1
                 /\ local'[t].left = local[t].left /\ local'[t].n = local[t].n
              \/ /\ pc'[t] = "idle" /\ local[t].ewma = NumRates
                 /\ local'[t].ewma = 1 /\ local'[t].left = 0
  <1>1. local[t] \in Locals
    BY DEF TypeOK
  <1>2. CASE local[t].ewma < NumRates
    <2> DEFINE l == [local[t] EXCEPT !.ewma = local[t].ewma + 1]
    <2>1. local[t].ewma + 1 \in Rates
      BY <1>1, <1>2, MeterAssumption DEF Locals, Rates
    <2>2. /\ l \in Locals /\ l.ewma = local[t].ewma + 1
          /\ l.left = local[t].left /\ l.n = local[t].n
      BY <1>1, <2>1 DEF Locals
    <2>3. local' = [local EXCEPT ![t] = l] /\ pc[t] = "update" /\ UNCHANGED pc
      BY <1>2 DEF UpdateEwma, TypeOK
    <2>4. Goto(t, "update") /\ "update" \in Steps
      BY <2>3 DEF Goto, TypeOK, Steps
    <2> HIDE DEF l
    <2>5. Moves(t, {"update"}) /\ local'[t] = l
      BY <2>2, <2>3, <2>4, MovesTo
    <2> QED
      BY <1>2, <2>2, <2>3, <2>5 DEF Moves
  <1>3. CASE ~(local[t].ewma < NumRates)
    <2>1. /\ local' = [local EXCEPT ![t] = NoLocals] /\ Goto(t, "idle")
          /\ pc[t] = "update"
      BY <1>3 DEF UpdateEwma
    <2>2. "idle" \in Steps
      BY DEF Steps
    <2>3. Moves(t, {"idle"}) /\ local'[t] = NoLocals
      BY <2>1, <2>2, NoLocalsType, MovesTo
    <2>4. local[t].ewma = NumRates
      BY <1>1, <1>3, MeterAssumption DEF Locals, Rates
    <2> QED
      BY <2>1, <2>3, <2>4, NoLocalsType DEF Moves
  <1> QED
    BY <1>2, <1>3

LEMMA GetRateEffect ==
    ASSUME TypeOK, NEW t \in Threads, GetRate(t)
    PROVE  /\ pc[t] = "getRate" /\ Moves(t, {"idle"})
           /\ local'[t].left = 0 /\ local'[t].ewma = 1
           /\ UNCHANGED <<shared, hist>>
  <1>1. /\ local' = [local EXCEPT ![t] = NoLocals] /\ Goto(t, "idle")
        /\ UNCHANGED <<shared, hist>> /\ "idle" \in Steps
        /\ pc[t] = "getRate"
    BY DEF GetRate, Steps
  <1> QED
    BY <1>1, NoLocalsType, MovesTo

-----------------------------------------------------------------------------
(* Types.                                                                   *)
LEMMA OneIncreased ==
    ASSUME NEW f \in [Rates -> Nat], NEW r \in Rates, NEW n \in Nat
    PROVE  [f EXCEPT ![r] = f[r] + n] \in [Rates -> Nat]
  <1>1. f[r] + n \in Nat
    OBVIOUS
  <1> QED
    BY <1>1

LEMMA TypeStep == MeterInv /\ [Next]_vars => TypeOK'
  <1> SUFFICES ASSUME MeterInv, [Next]_vars PROVE TypeOK'
    OBVIOUS
  <1>0. TypeOK /\ LoopInv /\ ClockInv
    BY DEF MeterInv
  <1>1. CASE UNCHANGED vars
    BY <1>0, <1>1 DEF TypeOK, vars, shared, hist
  <1>2. ASSUME ClockTicks PROVE TypeOK'
    <2>1. now' \in StartTime .. MaxTime
      BY <1>0, <1>2, MeterAssumption DEF TypeOK, ClockTicks
    <2> QED
      BY <1>0, <1>2, <2>1 DEF TypeOK, ClockTicks, hist
  <1>3. ASSUME NEW t \in Threads, CallMark(t) \/ CallGetRate(t)
        PROVE  TypeOK'
    <2>1. Moves(t, {"readTick"}) /\ UNCHANGED <<shared, hist>>
      BY <1>0, <1>3, BeginEffect
    <2> QED
      BY <1>0, <2>1 DEF TypeOK, Moves, shared, hist
  <1>4. ASSUME NEW t \in Threads, ReadLastTick(t) PROVE TypeOK'
    <2>1. Moves(t, {"readClock"}) /\ UNCHANGED <<shared, hist>>
      BY <1>0, <1>4, ReadLastTickEffect
    <2> QED
      BY <1>0, <2>1 DEF TypeOK, Moves, shared, hist
  <1>5. ASSUME NEW t \in Threads, ReadClock(t) PROVE TypeOK'
    <2>1. Moves(t, {"compare"}) /\ UNCHANGED <<shared, hist>>
      BY <1>0, <1>5, ReadClockEffect
    <2> QED
      BY <1>0, <2>1 DEF TypeOK, Moves, shared, hist
  <1>6. ASSUME NEW t \in Threads, GrantTicks(t) PROVE TypeOK'
    <2>1. /\ Moves(t, {"exchange", "count", "getRate"})
          /\ UNCHANGED <<now, count_, uncounted_, initialized_, ewma_,
                         log, folds>>
      BY <1>0, <1>6, GrantTicksEffect
    <2>2. last_tick_' \in Nat /\ granted' \in Nat /\ overlap' \in BOOLEAN
      <3>1. CASE UNCHANGED <<last_tick_, granted, overlap>>
        BY <1>0, <3>1 DEF TypeOK
      <3>2. CASE /\ last_tick_' = NewTick(t)
                 /\ granted' = granted + Age(t) \div TICK_INTERVAL
                 /\ overlap' = (overlap \/ \E u \in Threads : InTickLoop(u))
        <4> DEFINE q == Age(t) \div TICK_INTERVAL
        <4>1. pc[t] = "compare"
          BY <1>6 DEF GrantTicks
        <4>2. q \in Nat /\ NewTick(t) = local[t].old + TICK_INTERVAL * q
          BY <1>0, <4>1, AgeIs
        <4>3. local[t].old \in Nat /\ granted \in Nat
          BY <1>0 DEF TypeOK, Locals
        <4>4. granted' = granted + q
          BY <3>2
        <4> HIDE DEF q
        <4>5. TICK_INTERVAL * q \in Nat
          BY <4>2, MeterAssumption
        <4>6. overlap' \in BOOLEAN
          BY <1>0, <3>2 DEF TypeOK
        <4> QED
          BY <3>2, <4>2, <4>3, <4>4, <4>5, <4>6
      <3> QED
        BY <1>0, <1>6, <3>1, <3>2, GrantTicksEffect
    <2> QED
      BY <1>0, <2>1, <2>2 DEF TypeOK, Moves
  <1>7. ASSUME NEW t \in Threads, TakeUncounted(t) PROVE TypeOK'
    <2>1. pc[t] = "exchange" /\ Moves(t, {"isInit"})
          /\ local'[t].left = local[t].left
      BY <1>0, <1>7, TakeUncountedEffect
    <2> DEFINE r == local[t].ewma
    <2>2. r \in Rates
      BY <1>0 DEF TypeOK, Locals
    <2>3. uncounted_[r] \in Nat
      BY <1>0, <2>2 DEF TypeOK
    <2>4. uncounted_' \in [Rates -> Nat]
      BY <1>0, <1>7 DEF TypeOK, TakeUncounted
    <2>5. Append(log[r], uncounted_[r]) \in Seq(Nat)
      BY <1>0, <2>2, <2>3 DEF TypeOK
    <2>6. log' = [log EXCEPT ![r] = Append(log[r], uncounted_[r])]
      BY <1>7 DEF TakeUncounted
    <2> HIDE DEF r
    <2>7. log' \in [Rates -> Seq(Nat)]
      BY <1>0, <2>5, <2>6 DEF TypeOK
    <2> QED
      BY <1>0, <1>7, <2>1, <2>4, <2>7 DEF TypeOK, TakeUncounted, Moves
  <1>8. ASSUME NEW t \in Threads, TestInitialized(t) PROVE TypeOK'
    <2>1. /\ pc[t] = "isInit" /\ Moves(t, {"loadEwma", "storeEwma"})
          /\ UNCHANGED <<shared, local, hist>>
      BY <1>0, <1>8, TestInitializedEffect
    <2> QED
      BY <1>0, <2>1 DEF TypeOK, Moves, shared, hist
  <1>9. ASSUME NEW t \in Threads, LoadEwma(t) PROVE TypeOK'
    <2>1. /\ pc[t] = "loadEwma" /\ Moves(t, {"casEwma"})
          /\ local'[t].left = local[t].left /\ UNCHANGED <<shared, hist>>
      BY <1>0, <1>9, LoadEwmaEffect
    <2> QED
      BY <1>0, <2>1 DEF TypeOK, Moves, shared, hist
  <1>10. ASSUME NEW t \in Threads, ExchangeEwma(t) PROVE TypeOK'
    <2>1. pc[t] = "casEwma" /\ EndEwmaTick(t)
      BY <1>10 DEF ExchangeEwma
    <2>2. local[t].left > 0
      BY <1>0, <2>1 DEF LoopInv, Loop, TickSteps
    <2>3. /\ Moves(t, {"exchange", "count", "getRate"})
      BY <1>0, <2>1, <2>2, EndEwmaTickEffect
    <2> DEFINE new == Fold(local[t].cur_ewma, InstantRate(local[t].count))
    <2>4. new \in Int
      BY <1>0, RateType, FoldIsBetween DEF TypeOK, Locals
    <2>5. \/ UNCHANGED <<ewma_, folds>>
          \/ /\ ewma_' = [ewma_ EXCEPT ![local[t].ewma] = new]
             /\ folds' = [folds EXCEPT ![local[t].ewma] =
                                         folds[local[t].ewma] + 1]
      BY <1>10 DEF ExchangeEwma
    <2> HIDE DEF new
    <2>6. ewma_' \in [Rates -> Int]
      BY <1>0, <2>4, <2>5 DEF TypeOK
    <2>7. folds' \in [Rates -> Nat]
      <3>1. folds \in [Rates -> Nat] /\ local[t].ewma \in Rates /\ 1 \in Nat
        BY <1>0 DEF TypeOK, Locals
      <3> QED
        BY <2>5, <3>1, OneIncreased
    <2> QED
      BY <1>0, <1>10, <2>3, <2>6, <2>7 DEF TypeOK, ExchangeEwma, Moves
  <1>11. ASSUME NEW t \in Threads, StoreEwma(t) PROVE TypeOK'
    <2>1. pc[t] = "storeEwma" /\ Moves(t, {"setInit"}) /\ UNCHANGED local
      BY <1>0, <1>11, StoreEwmaEffect
    <2> DEFINE new == InstantRate(local[t].count)
    <2>2. new \in Int
      BY <1>0, RateType DEF TypeOK, Locals
    <2>3. /\ ewma_' = [ewma_ EXCEPT ![local[t].ewma] = new]
          /\ folds' = [folds EXCEPT ![local[t].ewma] =
                                      folds[local[t].ewma] + 1]
      BY <1>11 DEF StoreEwma
    <2> HIDE DEF new
    <2>4. ewma_' \in [Rates -> Int]
      BY <1>0, <2>2, <2>3 DEF TypeOK
    <2>5. folds' \in [Rates -> Nat]
      <3>1. folds \in [Rates -> Nat] /\ local[t].ewma \in Rates
        BY <1>0 DEF TypeOK, Locals
      <3>2. folds[local[t].ewma] + 1 \in Nat
        BY <3>1
      <3> QED
        BY <2>3, <3>1, <3>2
    <2> QED
      BY <1>0, <1>11, <2>1, <2>4, <2>5 DEF TypeOK, StoreEwma, Moves
  <1>12. ASSUME NEW t \in Threads, SetInitialized(t) PROVE TypeOK'
    <2>1. pc[t] = "setInit" /\ EndEwmaTick(t)
      BY <1>12 DEF SetInitialized
    <2>2. local[t].left > 0
      BY <1>0, <2>1 DEF LoopInv, Loop, TickSteps
    <2>3. /\ Moves(t, {"exchange", "count", "getRate"})
      BY <1>0, <2>1, <2>2, EndEwmaTickEffect
    <2>4. initialized_' \in [Rates -> BOOLEAN]
      BY <1>0, <1>12 DEF TypeOK, SetInitialized
    <2> QED
      BY <1>0, <1>12, <2>3, <2>4 DEF TypeOK, SetInitialized, Moves, hist
  <1>13. ASSUME NEW t \in Threads, AddToCount(t) PROVE TypeOK'
    <2>1. Moves(t, {"update"})
      BY <1>0, <1>13, AddToCountEffect
    <2>2. count_' \in Nat
      BY <1>0, <1>13 DEF TypeOK, Locals, AddToCount
    <2> QED
      BY <1>0, <1>13, <2>1, <2>2 DEF TypeOK, AddToCount, Moves, hist
  <1>14. ASSUME NEW t \in Threads, UpdateEwma(t) PROVE TypeOK'
    <2>1. Moves(t, {"update", "idle"})
      BY <1>0, <1>14, UpdateEwmaEffect
    <2>2. local[t].n \in Nat /\ local[t].ewma \in Rates
      BY <1>0 DEF TypeOK, Locals
    <2>3. uncounted_' = [uncounted_ EXCEPT ![local[t].ewma] =
                            uncounted_[local[t].ewma] + local[t].n]
      BY <1>14 DEF UpdateEwma
    <2>4. uncounted_' \in [Rates -> Nat]
      BY <1>0, <2>2, <2>3, OneIncreased DEF TypeOK
    <2> QED
      BY <1>0, <1>14, <2>1, <2>4 DEF TypeOK, UpdateEwma, Moves, hist
  <1>15. ASSUME NEW t \in Threads, GetRate(t) PROVE TypeOK'
    <2>1. Moves(t, {"idle"}) /\ UNCHANGED <<shared, hist>>
      BY <1>0, <1>15, GetRateEffect
    <2> QED
      BY <1>0, <2>1 DEF TypeOK, Moves, shared, hist
  <1>16. CASE Next
    BY <1>16, <1>2, <1>3, <1>4, <1>5, <1>6, <1>7, <1>8, <1>9, <1>10, <1>11,
       <1>12, <1>13, <1>14, <1>15 DEF Next, Step
  <1> QED
    BY <1>1, <1>16

-----------------------------------------------------------------------------
(* Only the threads in the loop owe ticks.                                  *)
LEMMA LoopMoves ==
    ASSUME LoopInv, NEW t \in Threads, NEW targets, Moves(t, targets),
           Loop(t)'
    PROVE  LoopInv'
  BY DEF LoopInv, Loop, Moves

LEMMA LoopStep == MeterInv /\ [Next]_vars => LoopInv'
  <1> SUFFICES ASSUME MeterInv, [Next]_vars PROVE LoopInv'
    OBVIOUS
  <1>0. TypeOK /\ LoopInv /\ ClockInv
    BY DEF MeterInv
  <1>1. CASE UNCHANGED vars
    BY <1>0, <1>1 DEF LoopInv, Loop, vars
  <1>2. ASSUME ClockTicks PROVE LoopInv'
    BY <1>0, <1>2 DEF LoopInv, Loop, ClockTicks
  <1> USE DEF Moves, Loop, TickSteps
  <1>3. ASSUME NEW t \in Threads, NEW targets, Moves(t, targets), Loop(t)'
        PROVE  LoopInv'
    BY <1>0, <1>3, LoopMoves
  <1>4. ASSUME NEW t \in Threads PROVE Loop(t)
    BY <1>0, <1>4 DEF LoopInv
  <1>5. ASSUME NEW t \in Threads, CallMark(t) \/ CallGetRate(t) PROVE LoopInv'
    <2>1. Moves(t, {"readTick"}) /\ local'[t].left = 0 /\ local'[t].ewma = 1
      BY <1>0, <1>5, BeginEffect
    <2> QED
      BY <2>1, <1>3
  <1>6. ASSUME NEW t \in Threads, ReadLastTick(t) PROVE LoopInv'
    <2>1. /\ pc[t] = "readTick" /\ Moves(t, {"readClock"})
          /\ local'[t].left = local[t].left /\ local'[t].ewma = local[t].ewma
      BY <1>0, <1>6, ReadLastTickEffect
    <2> QED
      BY <2>1, <1>3, <1>4
  <1>7. ASSUME NEW t \in Threads, ReadClock(t) PROVE LoopInv'
    <2>1. /\ pc[t] = "readClock" /\ Moves(t, {"compare"})
          /\ local'[t].left = local[t].left /\ local'[t].ewma = local[t].ewma
      BY <1>0, <1>7, ReadClockEffect
    <2> QED
      BY <2>1, <1>3, <1>4
  <1>8. ASSUME NEW t \in Threads, GrantTicks(t) PROVE LoopInv'
    <2>1. /\ pc[t] = "compare" /\ Moves(t, {"exchange", "count", "getRate"})
          /\ \/ pc'[t] = "exchange" /\ local'[t].left > 0
             \/ pc'[t] \in {"count", "getRate"} /\ UNCHANGED local
      BY <1>0, <1>8, GrantTicksEffect
    <2> QED
      BY <2>1, <1>3, <1>4
  <1>9. ASSUME NEW t \in Threads, TakeUncounted(t) PROVE LoopInv'
    <2>1. /\ pc[t] = "exchange" /\ Moves(t, {"isInit"})
          /\ local'[t].left = local[t].left
      BY <1>0, <1>9, TakeUncountedEffect
    <2> QED
      BY <2>1, <1>3, <1>4
  <1>10. ASSUME NEW t \in Threads, TestInitialized(t) PROVE LoopInv'
    <2>1. /\ pc[t] = "isInit" /\ Moves(t, {"loadEwma", "storeEwma"})
          /\ UNCHANGED local
      BY <1>0, <1>10, TestInitializedEffect
    <2> QED
      BY <2>1, <1>3, <1>4
  <1>11. ASSUME NEW t \in Threads, LoadEwma(t) PROVE LoopInv'
    <2>1. /\ pc[t] = "loadEwma" /\ Moves(t, {"casEwma"})
          /\ local'[t].left = local[t].left
      BY <1>0, <1>11, LoadEwmaEffect
    <2> QED
      BY <2>1, <1>3, <1>4
  <1>12. ASSUME NEW t \in Threads, pc[t] \in {"casEwma", "setInit"}, EndEwmaTick(t)
         PROVE  LoopInv'
    <2>1. local[t].left > 0 /\ local[t].left \in Nat
      BY <1>0, <1>4, <1>12 DEF TypeOK, Locals
    <2>2. /\ Moves(t, {"exchange", "count", "getRate"})
          /\ pc'[t] = "exchange" <=> local'[t].left > 0
          /\ \/ local'[t].left = local[t].left
             \/ local'[t].left = local[t].left - 1 /\ local'[t].ewma = 1
      BY <1>0, <1>12, <2>1, EndEwmaTickEffect
    <2>3. Loop(t)'
      BY <2>1, <2>2
    <2> QED
      BY <2>2, <2>3, <1>3
  <1>13. ASSUME NEW t \in Threads, ExchangeEwma(t) \/ SetInitialized(t)
         PROVE  LoopInv'
    BY <1>12, <1>13 DEF ExchangeEwma, SetInitialized
  <1>14. ASSUME NEW t \in Threads, StoreEwma(t) PROVE LoopInv'
    <2>1. pc[t] = "storeEwma" /\ Moves(t, {"setInit"}) /\ UNCHANGED local
      BY <1>0, <1>14, StoreEwmaEffect
    <2> QED
      BY <2>1, <1>3, <1>4
  <1>15. ASSUME NEW t \in Threads, AddToCount(t) PROVE LoopInv'
    <2>1. pc[t] = "count" /\ Moves(t, {"update"}) /\ UNCHANGED local
      BY <1>0, <1>15, AddToCountEffect
    <2> QED
      BY <2>1, <1>3, <1>4
  <1>16. ASSUME NEW t \in Threads, UpdateEwma(t) PROVE LoopInv'
    <2>1. /\ pc[t] = "update" /\ Moves(t, {"update", "idle"})
          /\ \/ pc'[t] = "update" /\ local'[t].left = local[t].left
             \/ pc'[t] = "idle" /\ local'[t].ewma = 1 /\ local'[t].left = 0
      BY <1>0, <1>16, UpdateEwmaEffect
    <2> QED
      BY <2>1, <1>3, <1>4
  <1>17. ASSUME NEW t \in Threads, GetRate(t) PROVE LoopInv'
    <2>1. Moves(t, {"idle"}) /\ local'[t].left = 0 /\ local'[t].ewma = 1
      BY <1>0, <1>17, GetRateEffect
    <2> QED
      BY <2>1, <1>3
  <1>18. CASE Next
    BY <1>18, <1>2, <1>5, <1>6, <1>7, <1>8, <1>9, <1>10, <1>11, <1>13, <1>14,
       <1>15, <1>16, <1>17 DEF Next, Step
  <1> QED
    BY <1>1, <1>18

-----------------------------------------------------------------------------
(* Times read are not to come, and the ticks granted match the intervals.   *)
LEMMA ClockMoves ==
    ASSUME ClockInv, TicksMatchIntervals, NEW t \in Threads, NEW targets,
           Moves(t, targets), UNCHANGED <<now, last_tick_, granted>>,
           "readClock" \notin targets, "compare" \notin targets
    PROVE  ClockInv' /\ TicksMatchIntervals'
  BY DEF ClockInv, TicksMatchIntervals, Moves

LEMMA ClockStep ==
    MeterInv /\ [Next]_vars => ClockInv' /\ TicksMatchIntervals'
  <1> SUFFICES ASSUME MeterInv, [Next]_vars
               PROVE  ClockInv' /\ TicksMatchIntervals'
    OBVIOUS
  <1>0. TypeOK /\ LoopInv /\ ClockInv /\ TicksMatchIntervals
    BY DEF MeterInv
  <1>1. CASE UNCHANGED vars
    BY <1>0, <1>1
       DEF ClockInv, TicksMatchIntervals, vars, shared, hist
  <1>2. ASSUME ClockTicks PROVE ClockInv' /\ TicksMatchIntervals'
    <2>1. now \in Nat /\ last_tick_ \in Nat
      BY <1>0, MeterAssumption DEF TypeOK
    <2>2. \A t \in Threads : local[t].old \in Nat /\ local[t].cur \in Nat
      BY <1>0 DEF TypeOK, Locals
    <2>3. now' = now + 1 /\ UNCHANGED <<last_tick_, pc, local, granted>>
      BY <1>2 DEF ClockTicks, hist
    <2> QED
      BY <1>0, <2>1, <2>2, <2>3 DEF ClockInv, TicksMatchIntervals
  <1>3. ASSUME NEW t \in Threads, CallMark(t) \/ CallGetRate(t)
        PROVE  ClockInv' /\ TicksMatchIntervals'
    <2>1. Moves(t, {"readTick"}) /\ UNCHANGED <<now, last_tick_, granted>>
      BY <1>0, <1>3, BeginEffect DEF shared, hist
    <2> QED
      BY <1>0, <2>1, ClockMoves
  <1>4. ASSUME NEW t \in Threads, ReadLastTick(t)
        PROVE  ClockInv' /\ TicksMatchIntervals'
    <2>1. /\ Moves(t, {"readClock"}) /\ local'[t].old = last_tick_
          /\ UNCHANGED <<now, last_tick_, granted>>
      BY <1>0, <1>4, ReadLastTickEffect DEF shared, hist
    <2>2. local'[t].old <= now'
      BY <1>0, <2>1 DEF TicksMatchIntervals
    <2> QED
      BY <1>0, <2>1, <2>2 DEF ClockInv, TicksMatchIntervals, Moves
  <1>5. ASSUME NEW t \in Threads, ReadClock(t)
        PROVE  ClockInv' /\ TicksMatchIntervals'
    <2>1. /\ Moves(t, {"compare"})
          /\ local'[t].old = local[t].old /\ local'[t].cur = now
          /\ UNCHANGED <<now, last_tick_, granted>>
      BY <1>0, <1>5, ReadClockEffect DEF shared, hist
    <2>2. pc[t] = "readClock"
      BY <1>5 DEF ReadClock
    <2>3. local'[t].old <= local'[t].cur /\ local'[t].cur <= now'
      BY <1>0, <2>1, <2>2, MeterAssumption DEF ClockInv, TypeOK
    <2> QED
      BY <1>0, <2>1, <2>3 DEF ClockInv, TicksMatchIntervals, Moves
  <1>6. ASSUME NEW t \in Threads, GrantTicks(t)
        PROVE  ClockInv' /\ TicksMatchIntervals'
    <2>1. /\ Moves(t, {"exchange", "count", "getRate"}) /\ UNCHANGED now
          /\ \/ UNCHANGED <<last_tick_, granted>>
             \/ /\ last_tick_ = local[t].old /\ last_tick_' = NewTick(t)
                /\ granted' = granted + Age(t) \div TICK_INTERVAL
      BY <1>0, <1>6, GrantTicksEffect
    <2>2. CASE UNCHANGED <<last_tick_, granted>>
      BY <1>0, <2>1, <2>2, ClockMoves
    <2>3. CASE /\ last_tick_ = local[t].old /\ last_tick_' = NewTick(t)
               /\ granted' = granted + Age(t) \div TICK_INTERVAL
      <3> DEFINE q == Age(t) \div TICK_INTERVAL
      <3>1. pc[t] = "compare"
        BY <1>6 DEF GrantTicks
      <3>2. /\ q \in Nat /\ NewTick(t) = local[t].old + TICK_INTERVAL * q
            /\ NewTick(t) <= local[t].cur
        BY <1>0, <3>1, AgeIs
      <3>3. local[t].cur <= now
        BY <1>0, <3>1 DEF ClockInv
      <3>4. granted' = granted + q
        BY <2>3
      <3>5. granted \in Nat /\ now \in Nat /\ local[t].cur \in Nat
        BY <1>0, MeterAssumption DEF TypeOK, Locals
      <3> HIDE DEF q
      <3>6. TICK_INTERVAL * (granted + q)
              = TICK_INTERVAL * granted + TICK_INTERVAL * q
        BY <3>2, <3>5, MeterAssumption
      <3>7. /\ TICK_INTERVAL * granted \in Nat /\ TICK_INTERVAL * q \in Nat
            /\ StartTime \in Nat
        BY <3>2, <3>5, MeterAssumption
      <3>8. last_tick_' = StartTime + TICK_INTERVAL * granted'
        BY <1>0, <2>3, <3>2, <3>4, <3>6, <3>7 DEF TicksMatchIntervals
      <3>9. last_tick_' \in Nat
        BY <3>4, <3>6, <3>7, <3>8
      <3>10. last_tick_' <= now'
        BY <2>1, <2>3, <3>2, <3>3, <3>5, <3>9
      <3>11. ClockInv'
        BY <1>0, <2>1 DEF ClockInv, Moves
      <3> QED
        BY <3>8, <3>10, <3>11 DEF TicksMatchIntervals
    <2> QED
      BY <2>1, <2>2, <2>3
  <1>7. ASSUME NEW t \in Threads, TakeUncounted(t)
        PROVE  ClockInv' /\ TicksMatchIntervals'
    <2>1. Moves(t, {"isInit"}) /\ UNCHANGED <<now, last_tick_, granted>>
      BY <1>0, <1>7, TakeUncountedEffect DEF TakeUncounted
    <2> QED
      BY <1>0, <2>1, ClockMoves
  <1>8. ASSUME NEW t \in Threads, TestInitialized(t)
        PROVE  ClockInv' /\ TicksMatchIntervals'
    <2>1. /\ Moves(t, {"loadEwma", "storeEwma"})
          /\ UNCHANGED <<now, last_tick_, granted>>
      BY <1>0, <1>8, TestInitializedEffect DEF shared, hist
    <2> QED
      BY <1>0, <2>1, ClockMoves
  <1>9. ASSUME NEW t \in Threads, LoadEwma(t)
        PROVE  ClockInv' /\ TicksMatchIntervals'
    <2>1. Moves(t, {"casEwma"}) /\ UNCHANGED <<now, last_tick_, granted>>
      BY <1>0, <1>9, LoadEwmaEffect DEF shared, hist
    <2> QED
      BY <1>0, <2>1, ClockMoves
  <1>10. ASSUME NEW t \in Threads, ExchangeEwma(t)
         PROVE  ClockInv' /\ TicksMatchIntervals'
    <2>1. local[t].left > 0
      BY <1>0, <1>10 DEF ExchangeEwma, LoopInv, Loop, TickSteps
    <2>2. /\ Moves(t, {"exchange", "count", "getRate"})
          /\ UNCHANGED <<now, last_tick_, granted>>
      BY <1>0, <1>10, <2>1, EndEwmaTickEffect DEF ExchangeEwma
    <2> QED
      BY <1>0, <2>2, ClockMoves
  <1>11. ASSUME NEW t \in Threads, StoreEwma(t)
         PROVE  ClockInv' /\ TicksMatchIntervals'
    <2>1. Moves(t, {"setInit"}) /\ UNCHANGED <<now, last_tick_, granted>>
      BY <1>0, <1>11, StoreEwmaEffect DEF StoreEwma
    <2> QED
      BY <1>0, <2>1, ClockMoves
  <1>12. ASSUME NEW t \in Threads, SetInitialized(t)
         PROVE  ClockInv' /\ TicksMatchIntervals'
    <2>1. local[t].left > 0
      BY <1>0, <1>12 DEF SetInitialized, LoopInv, Loop, TickSteps
    <2>2. /\ Moves(t, {"exchange", "count", "getRate"})
          /\ UNCHANGED <<now, last_tick_, granted>>
      BY <1>0, <1>12, <2>1, EndEwmaTickEffect DEF SetInitialized, hist
    <2> QED
      BY <1>0, <2>2, ClockMoves
  <1>13. ASSUME NEW t \in Threads, AddToCount(t)
         PROVE  ClockInv' /\ TicksMatchIntervals'
    <2>1. Moves(t, {"update"}) /\ UNCHANGED <<now, last_tick_, granted>>
      BY <1>0, <1>13, AddToCountEffect DEF AddToCount, hist
    <2> QED
      BY <1>0, <2>1, ClockMoves
  <1>14. ASSUME NEW t \in Threads, UpdateEwma(t)
         PROVE  ClockInv' /\ TicksMatchIntervals'
    <2>1. Moves(t, {"update", "idle"}) /\ UNCHANGED <<now, last_tick_, granted>>
      BY <1>0, <1>14, UpdateEwmaEffect DEF UpdateEwma, hist
    <2> QED
      BY <1>0, <2>1, ClockMoves
  <1>15. ASSUME NEW t \in Threads, GetRate(t)
         PROVE  ClockInv' /\ TicksMatchIntervals'
    <2>1. Moves(t, {"idle"}) /\ UNCHANGED <<now, last_tick_, granted>>
      BY <1>0, <1>15, GetRateEffect DEF shared, hist
    <2> QED
      BY <1>0, <2>1, ClockMoves
  <1>16. CASE Next
    BY <1>16, <1>2, <1>3, <1>4, <1>5, <1>6, <1>7, <1>8, <1>9, <1>10, <1>11,
       <1>12, <1>13, <1>14, <1>15 DEF Next, Step
  <1> QED
    BY <1>1, <1>16

-----------------------------------------------------------------------------
(* The range of the counts taken only grows.                                *)
LEMMA AppendKeeps ==
    ASSUME NEW counts \in Seq(Nat), NEW n \in Nat
    PROVE  /\ \A v : Reached(counts, v) => Reached(Append(counts, n), v)
           /\ \A m : Taken(counts, m) => Taken(Append(counts, n), m)
           /\ Taken(Append(counts, n), n)
  <1>1. \A i \in DOMAIN counts :
           i \in DOMAIN Append(counts, n) /\ Append(counts, n)[i] = counts[i]
    OBVIOUS
  <1>2. /\ Len(counts) + 1 \in DOMAIN Append(counts, n)
        /\ Append(counts, n)[Len(counts) + 1] = n
    OBVIOUS
  <1> QED
    BY <1>1, <1>2 DEF Reached, Taken

(* Storing the rate of a count that was taken stays within the range, and   *)
(* so does moving an average of the range towards it.                       *)
LEMMA StoreReached ==
    ASSUME NEW counts \in Seq(Nat), NEW n \in Nat, Taken(counts, n)
    PROVE  Reached(counts, InstantRate(n))
  <1>1. PICK i \in DOMAIN counts : counts[i] = n
    BY DEF Taken
  <1>2. InstantRate(n) <= InstantRate(n)
    BY RateType
  <1> QED
    BY <1>1, <1>2 DEF Reached

LEMMA FoldReached ==
    ASSUME NEW counts \in Seq(Nat), NEW n \in Nat, Taken(counts, n),
           NEW cur \in Int, Reached(counts, cur)
    PROVE  Reached(counts, Fold(cur, InstantRate(n)))
  <1> DEFINE rate == InstantRate(n)
             new == Fold(cur, rate)
  <1>1. rate \in Int /\ Reached(counts, rate)
    BY StoreReached, RateType
  <1>2. \A j \in DOMAIN counts : InstantRate(counts[j]) \in Int
    BY RateType
  <1>3. new \in Int /\ (cur <= new \/ rate <= new) /\ (new <= cur \/ new <= rate)
    <2>1. /\ new \in Int /\ (cur <= rate => cur <= new /\ new <= rate)
          /\ rate <= cur => rate <= new /\ new <= cur
      BY <1>1, FoldIsBetween
    <2> HIDE DEF rate, new
    <2> QED
      BY <1>1, <2>1
  <1> HIDE DEF rate, new
  <1>4. \E j \in DOMAIN counts : InstantRate(counts[j]) <= new
    BY <1>1, <1>2, <1>3 DEF Reached
  <1>5. \E j \in DOMAIN counts : new <= InstantRate(counts[j])
    BY <1>1, <1>2, <1>3 DEF Reached
  <1>6. Reached(counts, new)
    BY <1>4, <1>5 DEF Reached
  <1> QED
    BY <1>6 DEF new, rate

(* A step after which the logs are extended at most, averages change only   *)
(* to values within their range, and initialised ones stay so.              *)
Extends ==
    \A r \in Rates :
        /\ \A v : Reached(log[r], v) => Reached(log'[r], v)
        /\ \A n : Taken(log[r], n) => Taken(log'[r], n)
        /\ ewma_'[r] = ewma_[r] \/ Reached(log'[r], ewma_'[r])
        /\ initialized_[r] => initialized_'[r]
        /\ initialized_'[r] => initialized_[r] \/ Reached(log'[r], ewma_'[r])

LEMMA AverageMoves ==
    ASSUME TypeOK, TickerInv, AverageInv, Extends,
           NEW t \in Threads, NEW targets, Moves(t, targets), Ticker(t)'
    PROVE  TickerInv' /\ AverageInv'
  <1>1. ASSUME NEW u \in Threads, u # t PROVE Ticker(u)'
    <2>1. pc'[u] = pc[u] /\ local'[u] = local[u]
      BY <1>1 DEF Moves
    <2>2. local[u].ewma \in Rates /\ Ticker(u)
      BY DEF TypeOK, Locals, TickerInv
    <2> QED
      BY <2>1, <2>2 DEF Ticker, Extends
  <1>2. AverageInv'
    BY DEF AverageInv, Extends
  <1> QED
    BY <1>1, <1>2 DEF TickerInv

(* A step that touches no average, to a step that needs to know nothing.    *)
LEMMA AverageKept ==
    ASSUME TypeOK, TickerInv, AverageInv,
           UNCHANGED <<log, ewma_, initialized_>>,
           NEW t \in Threads, NEW targets, Moves(t, targets),
           targets \cap {"isInit", "loadEwma", "casEwma", "storeEwma", "setInit"}
               = {}
    PROVE  TickerInv' /\ AverageInv'
  <1>1. Extends
    BY DEF Extends
  <1>2. pc'[t] \notin {"isInit", "loadEwma", "casEwma", "storeEwma", "setInit"}
    BY DEF Moves
  <1>3. Ticker(t)'
    BY <1>2 DEF Ticker
  <1> QED
    BY <1>1, <1>3, AverageMoves

LEMMA AverageStep == MeterInv /\ [Next]_vars => TickerInv' /\ AverageInv'
  <1> SUFFICES ASSUME MeterInv, [Next]_vars PROVE TickerInv' /\ AverageInv'
    OBVIOUS
  <1>0. TypeOK /\ LoopInv /\ ClockInv /\ TickerInv /\ AverageInv
    BY DEF MeterInv
  <1>1. CASE UNCHANGED vars
    BY <1>0, <1>1 DEF TickerInv, Ticker, AverageInv, vars, shared, hist
  <1>2. ASSUME ClockTicks PROVE TickerInv' /\ AverageInv'
    BY <1>0, <1>2 DEF TickerInv, Ticker, AverageInv, ClockTicks, hist
  <1>3. ASSUME NEW t \in Threads, CallMark(t) \/ CallGetRate(t)
        PROVE  TickerInv' /\ AverageInv'
    <2>1. Moves(t, {"readTick"}) /\ UNCHANGED <<log, ewma_, initialized_>>
      BY <1>0, <1>3, BeginEffect DEF shared, hist
    <2> QED
      BY <1>0, <2>1, AverageKept
  <1>4. ASSUME NEW t \in Threads, ReadLastTick(t)
        PROVE  TickerInv' /\ AverageInv'
    <2>1. Moves(t, {"readClock"}) /\ UNCHANGED <<log, ewma_, initialized_>>
      BY <1>0, <1>4, ReadLastTickEffect DEF shared, hist
    <2> QED
      BY <1>0, <2>1, AverageKept
  <1>5. ASSUME NEW t \in Threads, ReadClock(t)
        PROVE  TickerInv' /\ AverageInv'
    <2>1. Moves(t, {"compare"}) /\ UNCHANGED <<log, ewma_, initialized_>>
      BY <1>0, <1>5, ReadClockEffect DEF shared, hist
    <2> QED
      BY <1>0, <2>1, AverageKept
  <1>6. ASSUME NEW t \in Threads, GrantTicks(t)
        PROVE  TickerInv' /\ AverageInv'
    <2>1. /\ Moves(t, {"exchange", "count", "getRate"})
          /\ UNCHANGED <<log, ewma_, initialized_>>
      BY <1>0, <1>6, GrantTicksEffect
    <2> QED
      BY <1>0, <2>1, AverageKept
  <1>7. ASSUME NEW t \in Threads, TakeUncounted(t)
        PROVE  TickerInv' /\ AverageInv'
    <2> DEFINE r == local[t].ewma
               n == uncounted_[r]
    <2>1. /\ Moves(t, {"isInit"}) /\ local'[t].ewma = r /\ local'[t].count = n
      BY <1>0, <1>7, TakeUncountedEffect
    <2>2. r \in Rates
      BY <1>0 DEF TypeOK, Locals
    <2>3. n \in Nat
      BY <1>0, <2>2 DEF TypeOK
    <2>4. /\ log' = [log EXCEPT ![r] = Append(log[r], n)]
          /\ UNCHANGED <<ewma_, initialized_>>
      BY <1>7 DEF TakeUncounted
    <2> HIDE DEF r, n
    <2>5. \A q \in Rates : log[q] \in Seq(Nat)
      BY <1>0 DEF TypeOK
    <2>6. log'[r] = Append(log[r], n) /\ \A q \in Rates \ {r} : log'[q] = log[q]
      BY <1>0, <2>2, <2>4 DEF TypeOK
    <2>7. Extends
      BY <2>2, <2>3, <2>4, <2>5, <2>6, AppendKeeps DEF Extends
    <2>8. Taken(log'[r], n)
      BY <2>2, <2>3, <2>5, <2>6, AppendKeeps
    <2>9. Ticker(t)'
      BY <2>1, <2>8 DEF Ticker, Moves
    <2> QED
      BY <1>0, <2>1, <2>7, <2>9, AverageMoves
  <1>8. ASSUME NEW t \in Threads, TestInitialized(t)
        PROVE  TickerInv' /\ AverageInv'
    <2>1. /\ pc[t] = "isInit" /\ Moves(t, {"loadEwma", "storeEwma"})
          /\ pc'[t] = "loadEwma" => initialized_[local[t].ewma]
          /\ UNCHANGED <<log, ewma_, initialized_, local>>
      BY <1>0, <1>8, TestInitializedEffect DEF shared, hist
    <2>2. Extends
      BY <2>1 DEF Extends
    <2>3. Taken(log[local[t].ewma], local[t].count)
      BY <1>0, <2>1 DEF TickerInv, Ticker
    <2>4. Ticker(t)'
      BY <2>1, <2>3 DEF Ticker, Moves
    <2> QED
      BY <1>0, <2>1, <2>2, <2>4, AverageMoves
  <1>9. ASSUME NEW t \in Threads, LoadEwma(t)
        PROVE  TickerInv' /\ AverageInv'
    <2>1. /\ pc[t] = "loadEwma" /\ Moves(t, {"casEwma"})
          /\ local'[t].ewma = local[t].ewma
          /\ local'[t].count = local[t].count
          /\ local'[t].cur_ewma = ewma_[local[t].ewma]
          /\ UNCHANGED <<log, ewma_, initialized_>>
      BY <1>0, <1>9, LoadEwmaEffect DEF shared, hist
    <2>2. Extends
      BY <2>1 DEF Extends
    <2>3. local[t].ewma \in Rates
      BY <1>0 DEF TypeOK, Locals
    <2>4. /\ Taken(log[local[t].ewma], local[t].count)
          /\ initialized_[local[t].ewma]
      BY <1>0, <2>1 DEF TickerInv, Ticker
    <2>5. Reached(log[local[t].ewma], ewma_[local[t].ewma])
      BY <1>0, <2>3, <2>4 DEF AverageInv
    <2>6. Ticker(t)'
      BY <2>1, <2>4, <2>5 DEF Ticker, Moves
    <2> QED
      BY <1>0, <2>1, <2>2, <2>6, AverageMoves
  <1>10. ASSUME NEW t \in Threads, ExchangeEwma(t)
         PROVE  TickerInv' /\ AverageInv'
    <2> DEFINE r == local[t].ewma
               new == Fold(local[t].cur_ewma, InstantRate(local[t].count))
    <2>1. pc[t] = "casEwma" /\ local[t].left > 0
      BY <1>0, <1>10 DEF ExchangeEwma, LoopInv, Loop, TickSteps
    <2>2. /\ Moves(t, {"exchange", "count", "getRate"})
          /\ UNCHANGED <<log, initialized_>>
      BY <1>0, <1>10, <2>1, EndEwmaTickEffect DEF ExchangeEwma
    <2>3. /\ r \in Rates /\ local[t].count \in Nat /\ local[t].cur_ewma \in Int
      BY <1>0 DEF TypeOK, Locals
    <2>4. Taken(log[r], local[t].count) /\ Reached(log[r], local[t].cur_ewma)
      BY <1>0, <2>1 DEF TickerInv, Ticker
    <2>5. log[r] \in Seq(Nat)
      BY <1>0, <2>3 DEF TypeOK
    <2>6. Reached(log[r], new)
      BY <2>3, <2>4, <2>5, FoldReached
    <2>7. UNCHANGED ewma_ \/ ewma_' = [ewma_ EXCEPT ![r] = new]
      BY <1>10 DEF ExchangeEwma
    <2> HIDE DEF r, new
    <2>8. \A q \in Rates : ewma_'[q] = ewma_[q] \/ Reached(log[q], ewma_'[q])
      BY <1>0, <2>3, <2>6, <2>7 DEF TypeOK
    <2>9. Extends
      BY <2>2, <2>8 DEF Extends
    <2>10. Ticker(t)'
      BY <2>2 DEF Ticker, Moves
    <2> QED
      BY <1>0, <2>2, <2>9, <2>10, AverageMoves
  <1>11. ASSUME NEW t \in Threads, StoreEwma(t)
         PROVE  TickerInv' /\ AverageInv'
    <2> DEFINE r == local[t].ewma
               new == InstantRate(local[t].count)
    <2>1. pc[t] = "storeEwma" /\ Moves(t, {"setInit"}) /\ UNCHANGED local
      BY <1>0, <1>11, StoreEwmaEffect
    <2>2. r \in Rates /\ local[t].count \in Nat
      BY <1>0 DEF TypeOK, Locals
    <2>3. Taken(log[r], local[t].count)
      BY <1>0, <2>1 DEF TickerInv, Ticker
    <2>4. log[r] \in Seq(Nat)
      BY <1>0, <2>2 DEF TypeOK
    <2>5. Reached(log[r], new)
      BY <2>2, <2>3, <2>4, StoreReached
    <2>6. /\ ewma_' = [ewma_ EXCEPT ![r] = new]
          /\ UNCHANGED <<log, initialized_>>
      BY <1>11 DEF StoreEwma
    <2>7. local'[t].ewma = r
      BY <2>1
    <2> HIDE DEF r, new
    <2>8. /\ ewma_'[r] = new
          /\ \A q \in Rates \ {r} : ewma_'[q] = ewma_[q]
      BY <1>0, <2>2, <2>6 DEF TypeOK
    <2>9. Extends
      BY <2>5, <2>6, <2>8 DEF Extends
    <2>10. Ticker(t)'
      BY <2>1, <2>5, <2>6, <2>7, <2>8 DEF Ticker, Moves
    <2> QED
      BY <1>0, <2>1, <2>9, <2>10, AverageMoves
  <1>12. ASSUME NEW t \in Threads, SetInitialized(t)
         PROVE  TickerInv' /\ AverageInv'
    <2> DEFINE r == local[t].ewma
    <2>1. pc[t] = "setInit" /\ local[t].left > 0
      BY <1>0, <1>12 DEF SetInitialized, LoopInv, Loop, TickSteps
    <2>2. /\ Moves(t, {"exchange", "count", "getRate"})
          /\ UNCHANGED <<log, ewma_>>
      BY <1>0, <1>12, <2>1, EndEwmaTickEffect DEF SetInitialized, hist
    <2>3. r \in Rates /\ Reached(log[r], ewma_[r])
      BY <1>0, <2>1 DEF TickerInv, Ticker, TypeOK, Locals
    <2>4. initialized_' = [initialized_ EXCEPT ![r] = TRUE]
      BY <1>12 DEF SetInitialized
    <2> HIDE DEF r
    <2>5. /\ initialized_'[r]
          /\ \A q \in Rates \ {r} : initialized_'[q] = initialized_[q]
      BY <1>0, <2>3, <2>4 DEF TypeOK
    <2>6. Extends
      BY <2>2, <2>3, <2>5 DEF Extends
    <2>7. Ticker(t)'
      BY <2>2 DEF Ticker, Moves
    <2> QED
      BY <1>0, <2>2, <2>6, <2>7, AverageMoves
  <1>13. ASSUME NEW t \in Threads, AddToCount(t)
         PROVE  TickerInv' /\ AverageInv'
    <2>1. Moves(t, {"update"}) /\ UNCHANGED <<log, ewma_, initialized_>>
      BY <1>0, <1>13, AddToCountEffect DEF AddToCount, hist
    <2> QED
      BY <1>0, <2>1, AverageKept
  <1>14. ASSUME NEW t \in Threads, UpdateEwma(t)
         PROVE  TickerInv' /\ AverageInv'
    <2>1. /\ Moves(t, {"update", "idle"})
          /\ UNCHANGED <<log, ewma_, initialized_>>
      BY <1>0, <1>14, UpdateEwmaEffect DEF UpdateEwma, hist
    <2> QED
      BY <1>0, <2>1, AverageKept
  <1>15. ASSUME NEW t \in Threads, GetRate(t)
         PROVE  TickerInv' /\ AverageInv'
    <2>1. Moves(t, {"idle"}) /\ UNCHANGED <<log, ewma_, initialized_>>
      BY <1>0, <1>15, GetRateEffect DEF shared, hist
    <2> QED
      BY <1>0, <2>1, AverageKept
  <1>16. CASE Next
    BY <1>16, <1>2, <1>3, <1>4, <1>5, <1>6, <1>7, <1>8, <1>9, <1>10, <1>11,
       <1>12, <1>13, <1>14, <1>15 DEF Next, Step
  <1> QED
    BY <1>1, <1>16

-----------------------------------------------------------------------------
(* The ticks granted are those taken and those still owed: a step changes   *)
(* what its own thread owes, and by as much as it takes or is granted.      *)
LEMMA LocalsHave ==
    ASSUME NEW l \in Locals
    PROVE  /\ l.left \in Nat /\ l.n \in Nat
           /\ l.ewma \in Rates /\ l.ewma \in Nat
           /\ 1 <= l.ewma /\ l.ewma <= NumRates
  BY MeterAssumption DEF Locals, Rates

LEMMA LocalTypes ==
    ASSUME NEW f \in [Threads -> Locals], NEW t \in Threads
    PROVE  /\ f[t].left \in Nat /\ f[t].n \in Nat
           /\ f[t].ewma \in Rates /\ f[t].ewma \in Nat
           /\ 1 <= f[t].ewma /\ f[t].ewma <= NumRates
  BY LocalsHave

LEMMA Balance ==
    ASSUME NEW a \in Int, NEW b \in Int, NEW m \in Int, NEW n \in Int,
           NEW x \in Int, NEW y \in Int, NEW s \in Int,
           a = m + s, b - n - y = a - m - x
    PROVE  b = n + (s + y - x)
  OBVIOUS

LEMMA TakenMoves ==
    ASSUME TypeOK, TypeOK', EveryTickIsTaken,
           NEW t \in Threads, NEW targets, Moves(t, targets),
           \A r \in Rates : granted' - Len(log'[r]) - Owed(t, r)'
                              = granted - Len(log[r]) - Owed(t, r)
    PROVE  EveryTickIsTaken'
  <1> SUFFICES ASSUME NEW r \in Rates
               PROVE  granted' = Len(log'[r])
                          + SumFunction([u \in Threads |-> Owed(u, r)'])
    BY DEF EveryTickIsTaken
  <1> DEFINE f == [u \in Threads |-> Owed(u, r)]
             g == [u \in Threads |-> Owed(u, r)']
  <1>1. IsFiniteSet(Threads)
    BY MeterAssumption
  <1>2. local \in [Threads -> Locals] /\ local' \in [Threads -> Locals]
    BY DEF TypeOK
  <1>3. \A u \in Threads : Owed(u, r) \in Int
    BY <1>2, LocalTypes DEF Owed
  <1>4. \A u \in Threads : Owed(u, r)' \in Int
    BY <1>2, LocalTypes DEF Owed
  <1>5. \A u \in Threads \ {t} : Owed(u, r)' = Owed(u, r)
    BY DEF Moves, Owed
  <1>6. /\ \A u \in Threads : f[u] \in Int /\ g[u] \in Int
        /\ \A u \in Threads \ {t} : g[u] = f[u]
        /\ f[t] = Owed(t, r) /\ g[t] = Owed(t, r)'
        /\ DOMAIN f = Threads /\ DOMAIN g = Threads
    BY <1>3, <1>4, <1>5
  <1>7. granted = Len(log[r]) + SumFunction(f)
    BY DEF EveryTickIsTaken
  <1>8. granted' - Len(log'[r]) - g[t] = granted - Len(log[r]) - f[t]
    BY <1>6
  <1>9. /\ granted \in Int /\ granted' \in Int
        /\ Len(log[r]) \in Int /\ Len(log'[r]) \in Int
    <2>1. log[r] \in Seq(Nat) /\ log'[r] \in Seq(Nat)
      BY DEF TypeOK
    <2> QED
      BY <2>1 DEF TypeOK
  <1> HIDE DEF f, g
  <1>10. /\ SumFunctionOnSet(f, Threads) \in Int
         /\ SumFunctionOnSet(g, Threads)
              = SumFunctionOnSet(f, Threads) + g[t] - f[t]
    BY <1>1, <1>6, SumChanges
  <1>11. /\ SumFunction(f) = SumFunctionOnSet(f, Threads)
         /\ SumFunction(g) = SumFunctionOnSet(g, Threads)
    BY <1>6 DEF SumFunction
  <1>12. granted' = Len(log'[r]) + SumFunction(g)
    <2> DEFINE ft == f[t]
               gt == g[t]
               sf == SumFunction(f)
               sg == SumFunction(g)
               n == Len(log[r])
               m == Len(log'[r])
    <2>1. /\ granted = n + sf /\ granted' - m - gt = granted - n - ft
          /\ granted \in Int /\ granted' \in Int /\ n \in Int /\ m \in Int
          /\ ft \in Int /\ gt \in Int /\ sf \in Int /\ sg = sf + gt - ft
      BY <1>6, <1>7, <1>8, <1>9, <1>10, <1>11
    <2> HIDE DEF ft, gt, sf, sg, n, m
    <2>2. granted' = m + (sf + gt - ft)
      <3> DEFINE a == granted
                 b == granted'
      <3>1. /\ a \in Int /\ b \in Int /\ n \in Int /\ m \in Int
            /\ ft \in Int /\ gt \in Int /\ sf \in Int
            /\ a = n + sf /\ b - m - gt = a - n - ft
        BY <2>1
      <3> HIDE DEF a, b
      <3>2. b = m + (sf + gt - ft)
        BY <3>1, Balance
      <3> QED
        BY <3>2 DEF b
    <2> QED
      BY <2>1, <2>2 DEF m, sg
  <1> QED
    BY <1>12 DEF g

(* A step within the loop that changes nothing that is owed, and one        *)
(* outside of it.                                                           *)
LEMMA TakenKept ==
    ASSUME TypeOK, TypeOK', EveryTickIsTaken, UNCHANGED <<granted, log>>,
           NEW t \in Threads, NEW targets, Moves(t, targets),
           \A r \in Rates : Owed(t, r)' = Owed(t, r)
    PROVE  EveryTickIsTaken'
  <1>1. \A r \in Rates : granted' - Len(log'[r]) - Owed(t, r)'
                           = granted - Len(log[r]) - Owed(t, r)
    OBVIOUS
  <1> QED
    BY <1>1, TakenMoves

LEMMA TakenOutside ==
    ASSUME TypeOK, TypeOK', LoopInv, LoopInv', EveryTickIsTaken,
           UNCHANGED <<granted, log>>,
           NEW t \in Threads, NEW targets, Moves(t, targets),
           pc[t] \notin TickSteps, targets \cap TickSteps = {}
    PROVE  EveryTickIsTaken'
  <1>1. local[t].left = 0
    BY DEF LoopInv, Loop
  <1>2. local'[t].left = 0
    BY DEF LoopInv, Loop, Moves
  <1>3. \A r \in Rates : Owed(t, r)' = Owed(t, r)
    BY <1>1, <1>2 DEF Owed
  <1> QED
    BY <1>3, TakenKept

LEMMA TakenStep ==
    ASSUME MeterInv, [Next]_vars, TypeOK', LoopInv'
    PROVE  EveryTickIsTaken'
  <1>0. TypeOK /\ LoopInv /\ ClockInv /\ EveryTickIsTaken
    BY DEF MeterInv
  <1>a. local \in [Threads -> Locals] /\ local' \in [Threads -> Locals]
    BY <1>0 DEF TypeOK
  <1>1. ASSUME UNCHANGED <<pc, local, granted, log>> PROVE EveryTickIsTaken'
    <2>1. \A r \in Rates : \A t \in Threads : Owed(t, r)' = Owed(t, r)
      BY <1>1 DEF Owed
    <2>2. \A r \in Rates : [t \in Threads |-> Owed(t, r)']
                             = [t \in Threads |-> Owed(t, r)]
      BY <2>1
    <2> QED
      BY <1>0, <1>1, <2>2 DEF EveryTickIsTaken
  <1>2. CASE UNCHANGED vars
    BY <1>1, <1>2 DEF vars, hist
  <1>3. ASSUME ClockTicks PROVE EveryTickIsTaken'
    BY <1>1, <1>3 DEF ClockTicks, hist
  <1>4. ASSUME NEW t \in Threads, CallMark(t) \/ CallGetRate(t)
        PROVE  EveryTickIsTaken'
    <2>1. /\ pc[t] = "idle" /\ Moves(t, {"readTick"})
          /\ UNCHANGED <<granted, log>>
      BY <1>0, <1>4, BeginEffect DEF hist
    <2> QED
      BY <1>0, <2>1, TakenOutside DEF TickSteps
  <1>5. ASSUME NEW t \in Threads, ReadLastTick(t) PROVE EveryTickIsTaken'
    <2>1. /\ pc[t] = "readTick" /\ Moves(t, {"readClock"})
          /\ UNCHANGED <<granted, log>>
      BY <1>0, <1>5, ReadLastTickEffect DEF hist
    <2> QED
      BY <1>0, <2>1, TakenOutside DEF TickSteps
  <1>6. ASSUME NEW t \in Threads, ReadClock(t) PROVE EveryTickIsTaken'
    <2>1. /\ pc[t] = "readClock" /\ Moves(t, {"compare"})
          /\ UNCHANGED <<granted, log>>
      BY <1>0, <1>6, ReadClockEffect DEF hist
    <2> QED
      BY <1>0, <2>1, TakenOutside DEF TickSteps
  <1>7. ASSUME NEW t \in Threads, GrantTicks(t) PROVE EveryTickIsTaken'
    <2> DEFINE q == Age(t) \div TICK_INTERVAL
    <2>1. /\ pc[t] = "compare" /\ Moves(t, {"exchange", "count", "getRate"})
          /\ \/ /\ pc'[t] = "exchange" /\ q > 0
                /\ local'[t].left = q /\ local'[t].ewma = 1
                /\ granted' = granted + q
             \/ UNCHANGED <<local, granted>> /\ pc'[t] \in {"count", "getRate"}
          /\ UNCHANGED log
      BY <1>0, <1>7, GrantTicksEffect
    <2>2. q \in Nat
      BY <1>0, <2>1, AgeIs
    <2> HIDE DEF q
    <2>3. local[t].left = 0
      BY <1>0, <2>1 DEF LoopInv, Loop, TickSteps
    <2>4. \A r \in Rates : log[r] \in Seq(Nat) /\ Len(log[r]) \in Nat
      BY <1>0 DEF TypeOK
    <2>5. granted \in Nat
      BY <1>0 DEF TypeOK
    <2>6. ASSUME NEW r \in Rates
          PROVE  granted' - Len(log'[r]) - Owed(t, r)'
                   = granted - Len(log[r]) - Owed(t, r)
      <3>1. r \in Nat /\ r >= 1
        BY MeterAssumption DEF Rates
      <3>2. Owed(t, r) = 0
        BY <2>3 DEF Owed
      <3>3. \/ granted' = granted + q /\ Owed(t, r)' = q
            \/ granted' = granted /\ Owed(t, r)' = 0
        BY <2>1, <2>2, <2>3, <3>1 DEF Owed
      <3> QED
        BY <2>1, <2>2, <2>4, <2>5, <3>2, <3>3
    <2> QED
      BY <1>0, <2>1, <2>6, TakenMoves
  <1>8. ASSUME NEW t \in Threads, TakeUncounted(t) PROVE EveryTickIsTaken'
    <2> DEFINE e == local[t].ewma
               n == uncounted_[e]
    <2>1. /\ pc[t] = "exchange" /\ Moves(t, {"isInit"})
          /\ local'[t].ewma = e /\ local'[t].left = local[t].left
          /\ UNCHANGED granted
      BY <1>0, <1>8, TakeUncountedEffect DEF TakeUncounted
    <2>2. e \in Rates /\ local[t].left \in Nat /\ local[t].left > 0
      BY <1>0, <1>a, <2>1, LocalTypes DEF LoopInv, Loop, TickSteps
    <2>3. log' = [log EXCEPT ![e] = Append(log[e], n)]
      BY <1>8 DEF TakeUncounted
    <2>4. pc'[t] = "isInit"
      BY <2>1 DEF Moves
    <2> HIDE DEF e, n
    <2>5. \A r \in Rates : log[r] \in Seq(Nat) /\ Len(log[r]) \in Nat
      BY <1>0 DEF TypeOK
    <2>6. /\ log'[e] = Append(log[e], n)
          /\ \A r \in Rates \ {e} : log'[r] = log[r]
      BY <1>0, <2>2, <2>3 DEF TypeOK
    <2>7. Len(log'[e]) = Len(log[e]) + 1
      BY <2>2, <2>5, <2>6
    <2>8. granted \in Nat
      BY <1>0 DEF TypeOK
    <2>9. ASSUME NEW r \in Rates
          PROVE  granted' - Len(log'[r]) - Owed(t, r)'
                   = granted - Len(log[r]) - Owed(t, r)
      <3>1. CASE r = e
        <4>1. Owed(t, r) = local[t].left /\ Owed(t, r)' = local[t].left - 1
          <5>1. ~(e > e)
            BY <2>2 DEF Rates
          <5> QED
            BY <2>1, <2>2, <2>4, <3>1, <5>1 DEF Owed, e
        <4> DEFINE k == Len(log[e])
        <4>2. /\ k \in Nat /\ Len(log[r]) = k /\ Len(log'[r]) = k + 1
              /\ granted' = granted
          BY <2>1, <2>2, <2>5, <2>7, <3>1
        <4> HIDE DEF k
        <4> QED
          BY <2>2, <2>8, <4>1, <4>2
      <3>2. CASE r # e
        <4>1. Owed(t, r)' = Owed(t, r)
          BY <2>1, <2>4, <3>2 DEF Owed, e
        <4> QED
          BY <2>1, <2>6, <3>2, <4>1
      <3> QED
        BY <3>1, <3>2
    <2> QED
      BY <1>0, <2>1, <2>9, TakenMoves
  <1>9. ASSUME NEW t \in Threads, NEW targets, Moves(t, targets),
               pc[t] \in AtEwma, targets \cap {"exchange"} = {},
               local'[t].left = local[t].left, local'[t].ewma = local[t].ewma,
               UNCHANGED <<granted, log>>
        PROVE  EveryTickIsTaken'
    <2>1. pc[t] # "exchange" /\ pc'[t] # "exchange"
      BY <1>9 DEF AtEwma, Moves
    <2>2. \A r \in Rates : Owed(t, r)' = Owed(t, r)
      BY <1>9, <2>1 DEF Owed
    <2> QED
      BY <1>0, <1>9, <2>2, TakenKept
  <1>10. ASSUME NEW t \in Threads, TestInitialized(t) PROVE EveryTickIsTaken'
    <2>1. /\ pc[t] = "isInit" /\ Moves(t, {"loadEwma", "storeEwma"})
          /\ UNCHANGED <<local, granted, log>>
      BY <1>0, <1>10, TestInitializedEffect DEF hist
    <2> QED
      BY <1>9, <2>1 DEF AtEwma, TickSteps
  <1>11. ASSUME NEW t \in Threads, LoadEwma(t) PROVE EveryTickIsTaken'
    <2>1. /\ pc[t] = "loadEwma" /\ Moves(t, {"casEwma"})
          /\ local'[t].left = local[t].left /\ local'[t].ewma = local[t].ewma
          /\ UNCHANGED <<granted, log>>
      BY <1>0, <1>11, LoadEwmaEffect DEF hist
    <2> QED
      BY <1>9, <2>1 DEF AtEwma, TickSteps
  <1>12. ASSUME NEW t \in Threads, StoreEwma(t) PROVE EveryTickIsTaken'
    <2>1. /\ pc[t] = "storeEwma" /\ Moves(t, {"setInit"})
          /\ UNCHANGED <<local, granted, log>>
      BY <1>0, <1>12, StoreEwmaEffect DEF StoreEwma
    <2> QED
      BY <1>9, <2>1 DEF AtEwma, TickSteps
  <1>13. ASSUME NEW t \in Threads, pc[t] \in {"casEwma", "setInit"},
                EndEwmaTick(t), UNCHANGED <<granted, log>>
         PROVE  EveryTickIsTaken'
    <2> DEFINE left == local[t].left
               e == local[t].ewma
               left1 == local'[t].left
               e1 == local'[t].ewma
    <2>1. /\ left \in Nat /\ left > 0 /\ e \in Nat /\ 1 <= e /\ e <= NumRates
          /\ pc[t] # "exchange"
      BY <1>0, <1>a, <1>13, LocalTypes DEF LoopInv, Loop, TickSteps
    <2>2. /\ Moves(t, {"exchange", "count", "getRate"})
          /\ pc'[t] = "exchange" <=> left1 > 0
          /\ \/ e < NumRates /\ left1 = left /\ e1 = e + 1
             \/ e = NumRates /\ left1 = left - 1 /\ e1 = 1
      BY <1>0, <1>13, <2>1, EndEwmaTickEffect
    <2>3. ASSUME NEW r \in Rates PROVE Owed(t, r)' = Owed(t, r)
      <3>1. r \in Nat /\ 1 <= r /\ r <= NumRates /\ NumRates \in Nat
        BY MeterAssumption DEF Rates
      <3>2. Owed(t, r) = IF r > e THEN left ELSE left - 1
        BY <2>1 DEF Owed
      <3>3. Owed(t, r)' = IF left1 = 0 THEN 0
                          ELSE IF r > e1 \/ (r = e1 /\ pc'[t] = "exchange")
                               THEN left1 ELSE left1 - 1
        BY DEF Owed
      <3> HIDE DEF left, e, left1, e1
      <3> QED
        BY <2>1, <2>2, <3>1, <3>2, <3>3
    <2> QED
      BY <1>0, <1>13, <2>2, <2>3, TakenKept
  <1>14. ASSUME NEW t \in Threads, ExchangeEwma(t) \/ SetInitialized(t)
         PROVE  EveryTickIsTaken'
    BY <1>13, <1>14 DEF ExchangeEwma, SetInitialized, hist
  <1>15. ASSUME NEW t \in Threads, AddToCount(t) PROVE EveryTickIsTaken'
    <2>1. /\ pc[t] = "count" /\ Moves(t, {"update"})
          /\ UNCHANGED <<granted, log>>
      BY <1>0, <1>15, AddToCountEffect DEF AddToCount, hist
    <2> QED
      BY <1>0, <2>1, TakenOutside DEF TickSteps
  <1>16. ASSUME NEW t \in Threads, UpdateEwma(t) PROVE EveryTickIsTaken'
    <2>1. /\ pc[t] = "update" /\ Moves(t, {"update", "idle"})
          /\ UNCHANGED <<granted, log>>
      BY <1>0, <1>16, UpdateEwmaEffect DEF UpdateEwma, hist
    <2> QED
      BY <1>0, <2>1, TakenOutside DEF TickSteps
  <1>17. ASSUME NEW t \in Threads, GetRate(t) PROVE EveryTickIsTaken'
    <2>1. /\ pc[t] = "getRate" /\ Moves(t, {"idle"})
          /\ UNCHANGED <<granted, log>>
      BY <1>0, <1>17, GetRateEffect DEF hist
    <2> QED
      BY <1>0, <2>1, TakenOutside DEF TickSteps
  <1>18. CASE Next
    BY <1>18, <1>3, <1>4, <1>5, <1>6, <1>7, <1>8, <1>10, <1>11, <1>12, <1>14,
       <1>15, <1>16, <1>17 DEF Next, Step
  <1> QED
    BY <1>2, <1>18

-----------------------------------------------------------------------------
(* The events counted are those taken, those waiting and those to come.     *)
LEMMA LogSums ==
    ASSUME NEW s \in Seq(Nat), NEW n \in Nat
    PROVE  /\ SumFunction(s) \in Int
           /\ SumFunction(Append(s, n)) = SumFunction(s) + n
  <1>1. s \in Seq(Int) /\ n \in Int
    OBVIOUS
  <1> QED
    BY <1>1, SumOfAppend

LEMMA BalanceOfEvents ==
    ASSUME NEW a \in Int, NEW b \in Int, NEW m \in Int, NEW n \in Int,
           NEW u \in Int, NEW v \in Int,
           NEW x \in Int, NEW y \in Int, NEW s \in Int,
           a = m + u + s, b - n - v - y = a - m - u - x
    PROVE  b = n + v + (s + y - x)
  OBVIOUS

LEMMA ConservedMoves ==
    ASSUME TypeOK, TypeOK', EventsAreConserved,
           NEW t \in Threads, NEW targets, Moves(t, targets),
           \A r \in Rates :
               count_' - SumFunction(log'[r]) - uncounted_'[r] - ToCome(t, r)'
                 = count_ - SumFunction(log[r]) - uncounted_[r] - ToCome(t, r)
    PROVE  EventsAreConserved'
  <1> SUFFICES ASSUME NEW r \in Rates
               PROVE  count_' = SumFunction(log'[r]) + uncounted_'[r]
                          + SumFunction([u \in Threads |-> ToCome(u, r)'])
    BY DEF EventsAreConserved
  <1> DEFINE f == [u \in Threads |-> ToCome(u, r)]
             g == [u \in Threads |-> ToCome(u, r)']
  <1>1. IsFiniteSet(Threads)
    BY MeterAssumption
  <1>2. local \in [Threads -> Locals] /\ local' \in [Threads -> Locals]
    BY DEF TypeOK
  <1>3. \A u \in Threads : ToCome(u, r) \in Int
    BY <1>2, LocalTypes DEF ToCome
  <1>4. \A u \in Threads : ToCome(u, r)' \in Int
    BY <1>2, LocalTypes DEF ToCome
  <1>5. \A u \in Threads \ {t} : ToCome(u, r)' = ToCome(u, r)
    BY DEF Moves, ToCome
  <1>6. /\ \A u \in Threads : f[u] \in Int /\ g[u] \in Int
        /\ \A u \in Threads \ {t} : g[u] = f[u]
        /\ f[t] = ToCome(t, r) /\ g[t] = ToCome(t, r)'
        /\ DOMAIN f = Threads /\ DOMAIN g = Threads
    BY <1>3, <1>4, <1>5
  <1> DEFINE a == count_
             b == count_'
             m == SumFunction(log[r])
             n == SumFunction(log'[r])
             v == uncounted_[r]
             w == uncounted_'[r]
             x == f[t]
             y == g[t]
             sf == SumFunction(f)
             sg == SumFunction(g)
  <1>7. a = m + v + sf
    BY DEF EventsAreConserved
  <1>8. b - n - w - y = a - m - v - x
    BY <1>6
  <1>9. a \in Int /\ b \in Int /\ v \in Int /\ w \in Int /\ m \in Int /\ n \in Int
    <2>1. log[r] \in Seq(Nat) /\ log'[r] \in Seq(Nat) /\ 0 \in Nat
      BY DEF TypeOK
    <2> QED
      BY <2>1, LogSums DEF TypeOK
  <1> HIDE DEF f, g
  <1>10. /\ SumFunctionOnSet(f, Threads) \in Int
         /\ SumFunctionOnSet(g, Threads)
              = SumFunctionOnSet(f, Threads) + g[t] - f[t]
    BY <1>1, <1>6, SumChanges
  <1>11. sf \in Int /\ sg = sf + y - x /\ x \in Int /\ y \in Int
    BY <1>6, <1>10 DEF SumFunction
  <1> HIDE DEF a, b, m, n, v, w, x, y, sf, sg
  <1>12. b = n + w + sg
    BY <1>7, <1>8, <1>9, <1>11, BalanceOfEvents
  <1> QED
    BY <1>12 DEF b, n, w, sg, g

(* A step of a thread that has not counted its events, or has none.         *)
LEMMA ConservedKept ==
    ASSUME TypeOK, TypeOK', EventsAreConserved,
           UNCHANGED <<count_, uncounted_, log>>,
           NEW t \in Threads, NEW targets, Moves(t, targets),
           pc[t] # "update", targets \cap {"update"} = {}
    PROVE  EventsAreConserved'
  <1>1. \A r \in Rates : ToCome(t, r)' = ToCome(t, r)
    BY DEF Moves, ToCome
  <1>2. \A r \in Rates :
           count_' - SumFunction(log'[r]) - uncounted_'[r] - ToCome(t, r)'
             = count_ - SumFunction(log[r]) - uncounted_[r] - ToCome(t, r)
    BY <1>1
  <1> QED
    BY <1>2, ConservedMoves

LEMMA ConservedStep ==
    ASSUME MeterInv, [Next]_vars, TypeOK'
    PROVE  EventsAreConserved'
  <1>0. TypeOK /\ LoopInv /\ ClockInv /\ EventsAreConserved
    BY DEF MeterInv
  <1>a. local \in [Threads -> Locals] /\ local' \in [Threads -> Locals]
    BY <1>0 DEF TypeOK
  <1>b. \A r \in Rates : log[r] \in Seq(Nat) /\ uncounted_[r] \in Nat
    BY <1>0 DEF TypeOK
  <1>c. \A r \in Rates : SumFunction(log[r]) \in Int
    <2>1. 0 \in Nat
      OBVIOUS
    <2> QED
      BY <1>b, <2>1, LogSums
  <1>1. ASSUME UNCHANGED <<pc, local, count_, uncounted_, log>>
        PROVE  EventsAreConserved'
    <2>1. \A r \in Rates : \A t \in Threads : ToCome(t, r)' = ToCome(t, r)
      BY <1>1 DEF ToCome
    <2>2. \A r \in Rates : [t \in Threads |-> ToCome(t, r)']
                             = [t \in Threads |-> ToCome(t, r)]
      BY <2>1
    <2> QED
      BY <1>0, <1>1, <2>2 DEF EventsAreConserved
  <1>2. CASE UNCHANGED vars
    BY <1>1, <1>2 DEF vars, shared, hist
  <1>3. ASSUME ClockTicks PROVE EventsAreConserved'
    BY <1>1, <1>3 DEF ClockTicks, hist
  <1>4. ASSUME NEW t \in Threads, CallMark(t) \/ CallGetRate(t)
        PROVE  EventsAreConserved'
    <2>1. /\ pc[t] = "idle" /\ Moves(t, {"readTick"})
          /\ UNCHANGED <<count_, uncounted_, log>>
      BY <1>0, <1>4, BeginEffect DEF shared, hist
    <2> QED
      BY <1>0, <2>1, ConservedKept
  <1>5. ASSUME NEW t \in Threads, ReadLastTick(t) PROVE EventsAreConserved'
    <2>1. /\ pc[t] = "readTick" /\ Moves(t, {"readClock"})
          /\ UNCHANGED <<count_, uncounted_, log>>
      BY <1>0, <1>5, ReadLastTickEffect DEF shared, hist
    <2> QED
      BY <1>0, <2>1, ConservedKept
  <1>6. ASSUME NEW t \in Threads, ReadClock(t) PROVE EventsAreConserved'
    <2>1. /\ pc[t] = "readClock" /\ Moves(t, {"compare"})
          /\ UNCHANGED <<count_, uncounted_, log>>
      BY <1>0, <1>6, ReadClockEffect DEF shared, hist
    <2> QED
      BY <1>0, <2>1, ConservedKept
  <1>7. ASSUME NEW t \in Threads, GrantTicks(t) PROVE EventsAreConserved'
    <2>1. /\ pc[t] = "compare" /\ Moves(t, {"exchange", "count", "getRate"})
          /\ UNCHANGED <<count_, uncounted_, log>>
      BY <1>0, <1>7, GrantTicksEffect
    <2> QED
      BY <1>0, <2>1, ConservedKept
  <1>8. ASSUME NEW t \in Threads, TakeUncounted(t) PROVE EventsAreConserved'
    <2> DEFINE e == local[t].ewma
               n == uncounted_[e]
    <2>1. pc[t] = "exchange" /\ Moves(t, {"isInit"}) /\ UNCHANGED count_
      BY <1>0, <1>8, TakeUncountedEffect DEF TakeUncounted
    <2>2. e \in Rates /\ n \in Nat /\ log[e] \in Seq(Nat)
      BY <1>a, <1>b, LocalTypes
    <2>3. /\ log' = [log EXCEPT ![e] = Append(log[e], n)]
          /\ uncounted_' = [uncounted_ EXCEPT ![e] = 0]
      BY <1>8 DEF TakeUncounted
    <2>4. \A r \in Rates : ToCome(t, r)' = 0 /\ ToCome(t, r) = 0
      BY <2>1 DEF ToCome, Moves
    <2>5. /\ log'[e] = Append(log[e], n) /\ uncounted_'[e] = 0
          /\ \A r \in Rates \ {e} :
                 log'[r] = log[r] /\ uncounted_'[r] = uncounted_[r]
      <3> HIDE DEF e, n
      <3> QED
        BY <1>0, <2>2, <2>3 DEF TypeOK
    <2>6. n = uncounted_[e]
      OBVIOUS
    <2> HIDE DEF e, n
    <2>7. /\ SumFunction(log'[e]) = SumFunction(log[e]) + n
          /\ SumFunction(log[e]) \in Int
      BY <2>2, <2>5, LogSums
    <2>8. count_ \in Int
      BY <1>0 DEF TypeOK
    <2>9. ASSUME NEW r \in Rates
          PROVE  count_' - SumFunction(log'[r]) - uncounted_'[r] - ToCome(t, r)'
                   = count_ - SumFunction(log[r]) - uncounted_[r] - ToCome(t, r)
      <3>1. CASE r = e
        <4> DEFINE a == count_
                   m == SumFunction(log[e])
        <4>1. /\ count_' = a /\ SumFunction(log'[r]) = m + n
              /\ SumFunction(log[r]) = m /\ uncounted_'[r] = 0
              /\ uncounted_[r] = n /\ ToCome(t, r)' = 0 /\ ToCome(t, r) = 0
          BY <2>1, <2>4, <2>5, <2>6, <2>7, <3>1
        <4>2. a \in Int /\ m \in Int /\ n \in Int
          BY <2>2, <2>7, <2>8
        <4> HIDE DEF a, m
        <4>3. a - (m + n) - 0 - 0 = a - m - n - 0
          BY <4>2
        <4> QED
          BY <4>1, <4>3 DEF a
      <3>2. CASE r # e
        BY <2>1, <2>4, <2>5, <3>2
      <3> QED
        BY <3>1, <3>2
    <2> QED
      BY <1>0, <2>1, <2>9, ConservedMoves
  <1>9. ASSUME NEW t \in Threads, TestInitialized(t) PROVE EventsAreConserved'
    <2>1. /\ pc[t] = "isInit" /\ Moves(t, {"loadEwma", "storeEwma"})
          /\ UNCHANGED <<count_, uncounted_, log>>
      BY <1>0, <1>9, TestInitializedEffect DEF shared, hist
    <2> QED
      BY <1>0, <2>1, ConservedKept
  <1>10. ASSUME NEW t \in Threads, LoadEwma(t) PROVE EventsAreConserved'
    <2>1. /\ pc[t] = "loadEwma" /\ Moves(t, {"casEwma"})
          /\ UNCHANGED <<count_, uncounted_, log>>
      BY <1>0, <1>10, LoadEwmaEffect DEF shared, hist
    <2> QED
      BY <1>0, <2>1, ConservedKept
  <1>11. ASSUME NEW t \in Threads, StoreEwma(t) PROVE EventsAreConserved'
    <2>1. /\ pc[t] = "storeEwma" /\ Moves(t, {"setInit"})
          /\ UNCHANGED <<count_, uncounted_, log>>
      BY <1>0, <1>11, StoreEwmaEffect DEF StoreEwma
    <2> QED
      BY <1>0, <2>1, ConservedKept
  <1>12. ASSUME NEW t \in Threads, ExchangeEwma(t) \/ SetInitialized(t)
         PROVE  EventsAreConserved'
    <2>1. /\ pc[t] \in {"casEwma", "setInit"} /\ EndEwmaTick(t)
          /\ UNCHANGED <<count_, uncounted_, log>>
      BY <1>12 DEF ExchangeEwma, SetInitialized, hist
    <2>2. local[t].left > 0
      BY <1>0, <2>1 DEF LoopInv, Loop, TickSteps
    <2>3. Moves(t, {"exchange", "count", "getRate"})
      BY <1>0, <2>1, <2>2, EndEwmaTickEffect
    <2> QED
      BY <1>0, <2>1, <2>3, ConservedKept
  <1>13. ASSUME NEW t \in Threads, AddToCount(t) PROVE EventsAreConserved'
    <2> DEFINE n == local[t].n
    <2>1. /\ pc[t] = "count" /\ Moves(t, {"update"})
          /\ UNCHANGED <<local, uncounted_, log>> /\ count_' = count_ + n
      BY <1>0, <1>13, AddToCountEffect DEF AddToCount, hist
    <2>2. n \in Nat /\ local[t].ewma = 1
      BY <1>0, <1>a, <2>1, LocalTypes DEF LoopInv, Loop, TickSteps
    <2>3. \A r \in Rates : 1 <= r
      BY MeterAssumption DEF Rates
    <2>4. \A r \in Rates : ToCome(t, r)' = n /\ ToCome(t, r) = 0
      BY <2>1, <2>2, <2>3 DEF ToCome, Moves
    <2> HIDE DEF n
    <2>5. count_ \in Int
      BY <1>0 DEF TypeOK
    <2>6. ASSUME NEW r \in Rates
          PROVE  count_' - SumFunction(log'[r]) - uncounted_'[r] - ToCome(t, r)'
                   = count_ - SumFunction(log[r]) - uncounted_[r] - ToCome(t, r)
      <3> DEFINE a == count_
                 m == SumFunction(log[r])
                 v == uncounted_[r]
      <3>1. /\ count_' = a + n /\ SumFunction(log'[r]) = m
            /\ uncounted_'[r] = v /\ ToCome(t, r)' = n /\ ToCome(t, r) = 0
        BY <2>1, <2>4
      <3>2. a \in Int /\ m \in Int /\ v \in Int /\ n \in Int
        BY <1>b, <1>c, <2>2, <2>5
      <3> HIDE DEF a, m, v
      <3>3. (a + n) - m - v - n = a - m - v - 0
        BY <3>2
      <3> QED
        BY <3>1, <3>3 DEF a, m, v
    <2> QED
      BY <1>0, <2>1, <2>6, ConservedMoves
  <1>14. ASSUME NEW t \in Threads, UpdateEwma(t) PROVE EventsAreConserved'
    <2> DEFINE n == local[t].n
               e == local[t].ewma
    <2>1. /\ pc[t] = "update" /\ Moves(t, {"update", "idle"})
          /\ \/ /\ pc'[t] = "update" /\ e < NumRates
                /\ local'[t].ewma = e + 1 /\ local'[t].n = n
             \/ pc'[t] = "idle" /\ e = NumRates
      BY <1>0, <1>14, UpdateEwmaEffect
    <2>2. /\ UNCHANGED <<count_, log>>
          /\ uncounted_' = [uncounted_ EXCEPT ![e] = uncounted_[e] + n]
      BY <1>14 DEF UpdateEwma, hist
    <2>3. n \in Nat /\ e \in Rates /\ e \in Nat
      BY <1>a, LocalTypes
    <2>4. \A r \in Rates : r \in Nat /\ r <= NumRates /\ NumRates \in Nat
      BY MeterAssumption DEF Rates
    <2>5. \A r \in Rates : ToCome(t, r) = IF e <= r THEN n ELSE 0
      BY <2>1 DEF ToCome
    <2>6. \A r \in Rates : ToCome(t, r)' = IF e < r THEN n ELSE 0
      <3>1. \A r \in Rates : ToCome(t, r)' =
               IF pc'[t] = "update" /\ local'[t].ewma <= r
               THEN local'[t].n ELSE 0
        BY DEF ToCome
      <3> HIDE DEF n, e
      <3>2. \A r \in Rates : e + 1 <= r <=> e < r
        BY <2>3, <2>4
      <3>3. CASE pc'[t] = "update"
        BY <2>1, <3>1, <3>2, <3>3
      <3>4. CASE pc'[t] = "idle"
        <4>1. \A r \in Rates : ~(e < r)
          BY <2>1, <2>3, <2>4, <3>4
        <4> QED
          BY <3>1, <3>4, <4>1
      <3> QED
        BY <2>1, <3>3, <3>4
    <2> HIDE DEF n, e
    <2>7. /\ uncounted_'[e] = uncounted_[e] + n
          /\ \A r \in Rates \ {e} : uncounted_'[r] = uncounted_[r]
      BY <1>0, <2>2, <2>3 DEF TypeOK
    <2>8. count_ \in Int
      BY <1>0 DEF TypeOK
    <2>9. ASSUME NEW r \in Rates
          PROVE  count_' - SumFunction(log'[r]) - uncounted_'[r] - ToCome(t, r)'
                   = count_ - SumFunction(log[r]) - uncounted_[r] - ToCome(t, r)
      <3> DEFINE a == count_
                 m == SumFunction(log[r])
                 v == uncounted_[r]
      <3>1. /\ count_' = a /\ SumFunction(log'[r]) = m
            /\ a \in Int /\ m \in Int /\ v \in Int /\ n \in Int
        BY <1>b, <1>c, <2>2, <2>3, <2>8
      <3>2. \/ /\ uncounted_'[r] = v + n
               /\ ToCome(t, r) = n /\ ToCome(t, r)' = 0
            \/ uncounted_'[r] = v /\ ToCome(t, r)' = ToCome(t, r)
        BY <2>3, <2>4, <2>5, <2>6, <2>7
      <3> HIDE DEF a, m, v
      <3>3. a - m - (v + n) - 0 = a - m - v - n
        BY <3>1
      <3> QED
        BY <3>1, <3>2, <3>3 DEF a, m, v
    <2> QED
      BY <1>0, <2>1, <2>9, ConservedMoves
  <1>15. ASSUME NEW t \in Threads, GetRate(t) PROVE EventsAreConserved'
    <2>1. /\ pc[t] = "getRate" /\ Moves(t, {"idle"})
          /\ UNCHANGED <<count_, uncounted_, log>>
      BY <1>0, <1>15, GetRateEffect DEF shared, hist
    <2> QED
      BY <1>0, <2>1, ConservedKept
  <1>16. CASE Next
    BY <1>16, <1>3, <1>4, <1>5, <1>6, <1>7, <1>8, <1>9, <1>10, <1>11, <1>12,
       <1>13, <1>14, <1>15 DEF Next, Step
  <1> QED
    BY <1>2, <1>16

-----------------------------------------------------------------------------
(* While no two loops have met, at most one thread ticks.                   *)
LEMMA AloneMoves ==
    ASSUME AloneInv, NEW t \in Threads, NEW targets, Moves(t, targets),
           UNCHANGED overlap, pc'[t] \in TickSteps => pc[t] \in TickSteps
    PROVE  AloneInv'
  BY DEF AloneInv, Moves

LEMMA AloneStep ==
    ASSUME MeterInv, [Next]_vars
    PROVE  AloneInv'
  <1>0. TypeOK /\ LoopInv /\ ClockInv /\ AloneInv
    BY DEF MeterInv
  <1>1. CASE UNCHANGED vars
    BY <1>0, <1>1 DEF AloneInv, vars, hist
  <1>2. ASSUME ClockTicks PROVE AloneInv'
    BY <1>0, <1>2 DEF AloneInv, ClockTicks, hist
  <1>3. ASSUME NEW t \in Threads, CallMark(t) \/ CallGetRate(t) PROVE AloneInv'
    <2>1. Moves(t, {"readTick"}) /\ UNCHANGED overlap
      BY <1>0, <1>3, BeginEffect DEF hist
    <2> QED
      BY <1>0, <2>1, AloneMoves DEF Moves, TickSteps
  <1>4. ASSUME NEW t \in Threads, ReadLastTick(t) PROVE AloneInv'
    <2>1. Moves(t, {"readClock"}) /\ UNCHANGED overlap
      BY <1>0, <1>4, ReadLastTickEffect DEF hist
    <2> QED
      BY <1>0, <2>1, AloneMoves DEF Moves, TickSteps
  <1>5. ASSUME NEW t \in Threads, ReadClock(t) PROVE AloneInv'
    <2>1. Moves(t, {"compare"}) /\ UNCHANGED overlap
      BY <1>0, <1>5, ReadClockEffect DEF hist
    <2> QED
      BY <1>0, <2>1, AloneMoves DEF Moves, TickSteps
  <1>6. ASSUME NEW t \in Threads, GrantTicks(t) PROVE AloneInv'
    <2>1. /\ Moves(t, {"exchange", "count", "getRate"})
          /\ \/ overlap' = (overlap \/ \E u \in Threads : InTickLoop(u))
             \/ pc'[t] \in {"count", "getRate"} /\ UNCHANGED overlap
      BY <1>0, <1>6, GrantTicksEffect
    <2>2. CASE overlap' = (overlap \/ \E u \in Threads : InTickLoop(u))
      <3>1. ~overlap' => \A u \in Threads : pc[u] \notin TickSteps
        BY <1>0, <2>2 DEF InTickLoop, LoopInv, Loop
      <3> QED
        BY <2>1, <3>1 DEF AloneInv, Moves
    <2>3. CASE pc'[t] \in {"count", "getRate"} /\ UNCHANGED overlap
      BY <1>0, <2>1, <2>3, AloneMoves DEF TickSteps
    <2> QED
      BY <2>1, <2>2, <2>3
  <1>7. ASSUME NEW t \in Threads, pc[t] \in TickSteps, NEW targets,
               Moves(t, targets), UNCHANGED overlap
        PROVE  AloneInv'
    BY <1>0, <1>7, AloneMoves
  <1>8. ASSUME NEW t \in Threads, TakeUncounted(t) PROVE AloneInv'
    <2>1. pc[t] = "exchange" /\ Moves(t, {"isInit"}) /\ UNCHANGED overlap
      BY <1>0, <1>8, TakeUncountedEffect DEF TakeUncounted
    <2> QED
      BY <1>7, <2>1 DEF TickSteps
  <1>9. ASSUME NEW t \in Threads, TestInitialized(t) PROVE AloneInv'
    <2>1. /\ pc[t] = "isInit" /\ Moves(t, {"loadEwma", "storeEwma"})
          /\ UNCHANGED overlap
      BY <1>0, <1>9, TestInitializedEffect DEF hist
    <2> QED
      BY <1>7, <2>1 DEF TickSteps
  <1>10. ASSUME NEW t \in Threads, LoadEwma(t) PROVE AloneInv'
    <2>1. pc[t] = "loadEwma" /\ Moves(t, {"casEwma"}) /\ UNCHANGED overlap
      BY <1>0, <1>10, LoadEwmaEffect DEF hist
    <2> QED
      BY <1>7, <2>1 DEF TickSteps
  <1>11. ASSUME NEW t \in Threads, StoreEwma(t) PROVE AloneInv'
    <2>1. pc[t] = "storeEwma" /\ Moves(t, {"setInit"}) /\ UNCHANGED overlap
      BY <1>0, <1>11, StoreEwmaEffect DEF StoreEwma
    <2> QED
      BY <1>7, <2>1 DEF TickSteps
  <1>12. ASSUME NEW t \in Threads, ExchangeEwma(t) \/ SetInitialized(t)
         PROVE  AloneInv'
    <2>1. /\ pc[t] \in {"casEwma", "setInit"} /\ EndEwmaTick(t)
          /\ UNCHANGED overlap
      BY <1>12 DEF ExchangeEwma, SetInitialized, hist
    <2>2. pc[t] \in TickSteps /\ local[t].left > 0
      BY <1>0, <2>1 DEF LoopInv, Loop, TickSteps
    <2>3. Moves(t, {"exchange", "count", "getRate"})
      BY <1>0, <2>1, <2>2, EndEwmaTickEffect
    <2> QED
      BY <1>7, <2>1, <2>2, <2>3
  <1>13. ASSUME NEW t \in Threads, AddToCount(t) PROVE AloneInv'
    <2>1. Moves(t, {"update"}) /\ UNCHANGED overlap
      BY <1>0, <1>13, AddToCountEffect DEF AddToCount, hist
    <2> QED
      BY <1>0, <2>1, AloneMoves DEF Moves, TickSteps
  <1>14. ASSUME NEW t \in Threads, UpdateEwma(t) PROVE AloneInv'
    <2>1. Moves(t, {"update", "idle"}) /\ UNCHANGED overlap
      BY <1>0, <1>14, UpdateEwmaEffect DEF UpdateEwma, hist
    <2> QED
      BY <1>0, <2>1, AloneMoves DEF Moves, TickSteps
  <1>15. ASSUME NEW t \in Threads, GetRate(t) PROVE AloneInv'
    <2>1. Moves(t, {"idle"}) /\ UNCHANGED overlap
      BY <1>0, <1>15, GetRateEffect DEF hist
    <2> QED
      BY <1>0, <2>1, AloneMoves DEF Moves, TickSteps
  <1>16. CASE Next
    BY <1>16, <1>2, <1>3, <1>4, <1>5, <1>6, <1>8, <1>9, <1>10, <1>11, <1>12,
       <1>13, <1>14, <1>15 DEF Next, Step
  <1> QED
    BY <1>1, <1>16

-----------------------------------------------------------------------------
(* ... and each average is that of the counts its ticks have taken.         *)
LEMMA FrontOfAppend ==
    ASSUME NEW s \in Seq(Nat), NEW n \in Nat
    PROVE  /\ Append(s, n) # <<>>
           /\ Front(Append(s, n)) = s /\ Last(Append(s, n)) = n
  <1> DEFINE m == Append(s, n)
  <1>1. m \in Seq(Nat) /\ Len(m) = Len(s) + 1 /\ m[Len(s) + 1] = n
    OBVIOUS
  <1>5. m # <<>>
    OBVIOUS
  <1>2. Len(s) \in Nat /\ Len(m) - 1 = Len(s)
    BY <1>1
  <1>3. SubSeq(m, 1, Len(s)) = s
    OBVIOUS
  <1> HIDE DEF m
  <1>4. Front(m) = s /\ Last(m) = n
    BY <1>1, <1>2, <1>3 DEF Front, Last
  <1> QED
    BY <1>4, <1>5 DEF m

LEMMA FrontAndLast ==
    ASSUME NEW s \in Seq(Nat), s # <<>>
    PROVE  /\ Front(s) \in Seq(Nat) /\ Last(s) \in Nat
           /\ s = Append(Front(s), Last(s))
  <1>1. Len(s) \in Nat /\ Len(s) > 0
    OBVIOUS
  <1>2. /\ SubSeq(s, 1, Len(s) - 1) \in Seq(Nat) /\ s[Len(s)] \in Nat
    BY <1>1
  <1>3. s = Append(SubSeq(s, 1, Len(s) - 1), s[Len(s)])
    BY <1>1
  <1> QED
    BY <1>2, <1>3 DEF Front, Last

LEMMA EwmaTypes ==
    ASSUME TypeOK, NEW r \in Rates
    PROVE  log[r] \in Seq(Nat) /\ ewma_[r] \in Int /\ initialized_[r] \in BOOLEAN
  BY DEF TypeOK

(* A step of a thread that is at no average, before and after.              *)
LEMMA ExactOutside ==
    ASSUME ExactInv, NEW t \in Threads, NEW targets, Moves(t, targets),
           UNCHANGED <<log, ewma_, initialized_>>, ~overlap' => ~overlap,
           pc[t] \notin AtEwma, pc'[t] \notin AtEwma
    PROVE  ExactInv'
  <1> SUFFICES ASSUME ~overlap' PROVE
         /\ \A u \in Threads : pc'[u] \in AtEwma => AtTick(u)'
         /\ \A r \in Rates :
              (\A u \in Threads : pc'[u] \in AtEwma => local'[u].ewma # r)
                  => Settled(r)'
    BY DEF ExactInv
  <1>0. /\ \A u \in Threads : pc[u] \in AtEwma => AtTick(u)
        /\ \A r \in Rates :
              (\A u \in Threads : pc[u] \in AtEwma => local[u].ewma # r)
                  => Settled(r)
    BY DEF ExactInv
  <1>1. ASSUME NEW u \in Threads, pc'[u] \in AtEwma PROVE AtTick(u)'
    <2>1. u # t /\ pc'[u] = pc[u] /\ local'[u] = local[u]
      BY <1>1 DEF Moves
    <2>2. AtTick(u)
      BY <1>0, <1>1, <2>1
    <2> QED
      BY <2>1, <2>2 DEF AtTick
  <1>2. ASSUME NEW r \in Rates,
               \A u \in Threads : pc'[u] \in AtEwma => local'[u].ewma # r
        PROVE  Settled(r)'
    <2>1. \A u \in Threads : pc[u] \in AtEwma => local[u].ewma # r
      BY <1>2 DEF Moves
    <2>2. Settled(r)
      BY <1>0, <2>1
    <2> QED
      BY <2>2 DEF Settled
  <1> QED
    BY <1>1, <1>2

(* A step of the thread that ticks: it need look after its own EWMA only.   *)
LEMMA ExactInside ==
    ASSUME AloneInv, ExactInv, NEW t \in Threads, NEW targets,
           Moves(t, targets), UNCHANGED overlap, pc[t] \in TickSteps,
           NEW e \in Rates, e = local[t].ewma,
           \A r \in Rates \ {e} :
               UNCHANGED <<log[r], ewma_[r], initialized_[r]>>,
           ~overlap => /\ pc'[t] \in AtEwma =>
                             AtTick(t)' /\ local'[t].ewma = e
                       /\ pc'[t] \notin AtEwma => Settled(e)'
    PROVE  ExactInv'
  <1> SUFFICES ASSUME ~overlap, ~overlap' PROVE
         /\ \A u \in Threads : pc'[u] \in AtEwma => AtTick(u)'
         /\ \A r \in Rates :
              (\A u \in Threads : pc'[u] \in AtEwma => local'[u].ewma # r)
                  => Settled(r)'
    BY DEF ExactInv
  <1>0. \A r \in Rates :
           (\A u \in Threads : pc[u] \in AtEwma => local[u].ewma # r)
               => Settled(r)
    BY DEF ExactInv
  <1>1. ASSUME NEW u \in Threads, u # t PROVE pc[u] \notin TickSteps
    BY <1>1 DEF AloneInv
  <1>2. \A u \in Threads : u # t => pc[u] \notin AtEwma /\ pc'[u] \notin AtEwma
    BY <1>1 DEF AtEwma, Moves
  <1>3. \A u \in Threads : pc'[u] \in AtEwma => AtTick(u)'
    BY <1>2
  <1>4. ASSUME NEW r \in Rates, r # e PROVE Settled(r)'
    <2>1. \A u \in Threads : pc[u] \in AtEwma => local[u].ewma # r
      BY <1>2, <1>4
    <2>2. Settled(r)
      BY <1>0, <2>1
    <2> QED
      BY <1>4, <2>2 DEF Settled
  <1>5. ASSUME \A u \in Threads :
                   pc'[u] \in AtEwma => local'[u].ewma # e
        PROVE  Settled(e)'
    <2>1. pc'[t] \notin AtEwma
      BY <1>5
    <2> QED
      BY <2>1
  <1> QED
    BY <1>3, <1>4, <1>5

LEMMA ExactStep ==
    ASSUME MeterInv, [Next]_vars
    PROVE  ExactInv'
  <1>0. TypeOK /\ LoopInv /\ ClockInv /\ AloneInv /\ ExactInv
    BY DEF MeterInv
  <1>a. local \in [Threads -> Locals]
    BY <1>0 DEF TypeOK
  <1>b. ASSUME NEW t \in Threads, ~overlap, pc[t] \in AtEwma PROVE AtTick(t)
    BY <1>0, <1>b DEF ExactInv
  <1> USE DEF AtEwma, TickSteps
  <1>1. ASSUME UNCHANGED <<pc, local, log, ewma_, initialized_, overlap>>
        PROVE  ExactInv'
    <2>1. \A t \in Threads : AtTick(t) => AtTick(t)'
      BY <1>1 DEF AtTick
    <2>2. \A r \in Rates : Settled(r) => Settled(r)'
      BY <1>1 DEF Settled
    <2> QED
      BY <1>0, <1>1, <2>1, <2>2 DEF ExactInv
  <1>2. CASE UNCHANGED vars
    BY <1>1, <1>2 DEF vars, shared, hist
  <1>3. ASSUME ClockTicks PROVE ExactInv'
    BY <1>1, <1>3 DEF ClockTicks, hist
  <1>4. ASSUME NEW t \in Threads, CallMark(t) \/ CallGetRate(t) PROVE ExactInv'
    <2>1. /\ pc[t] = "idle" /\ Moves(t, {"readTick"})
          /\ UNCHANGED <<log, ewma_, initialized_, overlap>>
      BY <1>0, <1>4, BeginEffect DEF shared, hist
    <2>2. pc[t] \notin AtEwma /\ pc'[t] \notin AtEwma
      BY <2>1 DEF Moves
    <2> QED
      BY <1>0, <2>1, <2>2, ExactOutside
  <1>5. ASSUME NEW t \in Threads, ReadLastTick(t) PROVE ExactInv'
    <2>1. /\ pc[t] = "readTick" /\ Moves(t, {"readClock"})
          /\ UNCHANGED <<log, ewma_, initialized_, overlap>>
      BY <1>0, <1>5, ReadLastTickEffect DEF shared, hist
    <2>2. pc[t] \notin AtEwma /\ pc'[t] \notin AtEwma
      BY <2>1 DEF Moves
    <2> QED
      BY <1>0, <2>1, <2>2, ExactOutside
  <1>6. ASSUME NEW t \in Threads, ReadClock(t) PROVE ExactInv'
    <2>1. /\ pc[t] = "readClock" /\ Moves(t, {"compare"})
          /\ UNCHANGED <<log, ewma_, initialized_, overlap>>
      BY <1>0, <1>6, ReadClockEffect DEF shared, hist
    <2>2. pc[t] \notin AtEwma /\ pc'[t] \notin AtEwma
      BY <2>1 DEF Moves
    <2> QED
      BY <1>0, <2>1, <2>2, ExactOutside
  <1>7. ASSUME NEW t \in Threads, GrantTicks(t) PROVE ExactInv'
    <2>1. /\ pc[t] = "compare" /\ Moves(t, {"exchange", "count", "getRate"})
          /\ UNCHANGED <<log, ewma_, initialized_>>
          /\ \/ overlap' = (overlap \/ \E u \in Threads : InTickLoop(u))
             \/ UNCHANGED overlap
      BY <1>0, <1>7, GrantTicksEffect
    <2>2. pc[t] \notin AtEwma /\ pc'[t] \notin AtEwma
      BY <2>1 DEF Moves
    <2>3. ~overlap' => ~overlap
      BY <2>1
    <2> QED
      BY <1>0, <2>1, <2>2, <2>3, ExactOutside
  <1>8. ASSUME NEW t \in Threads, TakeUncounted(t) PROVE ExactInv'
    <2>0. PICK r \in Rates : r = local[t].ewma
      BY <1>a, LocalTypes
    <2> USE <2>0
    <2> DEFINE n == uncounted_[r]
    <2>1. /\ pc[t] = "exchange" /\ Moves(t, {"isInit"})
          /\ local'[t].ewma = r /\ local'[t].count = n
          /\ UNCHANGED <<ewma_, initialized_, overlap>>
      BY <1>0, <1>8, TakeUncountedEffect DEF TakeUncounted
    <2>3. n \in Nat /\ log[r] \in Seq(Nat)
      BY <1>0 DEF TypeOK
    <2>4. log' = [log EXCEPT ![r] = Append(log[r], n)]
      BY <1>8 DEF TakeUncounted
    <2>5. log'[r] = Append(log[r], n) /\ \A q \in Rates \ {r} : log'[q] = log[q]
      <3> HIDE DEF n
      <3> QED
        BY <1>0, <2>4 DEF TypeOK
    <2>6. log'[r] # <<>> /\ Front(log'[r]) = log[r] /\ Last(log'[r]) = n
      <3> HIDE DEF n
      <3> QED
        BY <2>3, <2>5, FrontOfAppend
    <2>7. ~overlap => Settled(r)
      <3>1. ~overlap => \A u \in Threads : pc[u] \notin AtEwma
        BY <1>0, <2>1 DEF AloneInv
      <3> QED
        BY <1>0, <3>1 DEF ExactInv
    <2>8. ~overlap => AtTick(t)'
      <3> SUFFICES ASSUME ~overlap PROVE AtTick(t)'
        OBVIOUS
      <3>1. ewma_[r] = Average(log[r]) /\ (initialized_[r] <=> log[r] # <<>>)
        BY <2>7 DEF Settled
      <3>2. pc'[t] = "isInit"
        BY <2>1 DEF Moves
      <3> HIDE DEF n
      <3> QED
        BY <2>1, <2>6, <3>1, <3>2 DEF AtTick
    <2>9. pc'[t] \in AtEwma /\ pc[t] \in TickSteps
      BY <2>1 DEF Moves
    <2>10. \A q \in Rates \ {r} :
              UNCHANGED <<log[q], ewma_[q], initialized_[q]>>
      BY <2>1, <2>5
    <2> HIDE DEF n
    <2> QED
      BY <1>0, <2>1, <2>8, <2>9, <2>10, ExactInside
  <1>9. ASSUME NEW t \in Threads, TestInitialized(t) PROVE ExactInv'
    <2>0. PICK r \in Rates : r = local[t].ewma
      BY <1>a, LocalTypes
    <2> USE <2>0
    <2>1. /\ pc[t] = "isInit" /\ Moves(t, {"loadEwma", "storeEwma"})
          /\ pc'[t] = "loadEwma" <=> initialized_[local[t].ewma]
          /\ UNCHANGED <<local, log, ewma_, initialized_, overlap>>
      BY <1>0, <1>9, TestInitializedEffect DEF shared, hist
    <2>2. pc'[t] \in {"loadEwma", "storeEwma"}
      BY <2>1 DEF Moves
    <2>3. ~overlap => AtTick(t)'
      BY <1>b, <2>1, <2>2 DEF AtTick
    <2>4. /\ pc[t] \in TickSteps /\ pc'[t] \in AtEwma
          /\ local'[t].ewma = r
      BY <2>1, <2>2
    <2>5. \A q \in Rates \ {r} :
              UNCHANGED <<log[q], ewma_[q], initialized_[q]>>
      BY <2>1
    <2> QED
      BY <1>0, <2>1, <2>3, <2>4, <2>5, ExactInside
  <1>10. ASSUME NEW t \in Threads, LoadEwma(t) PROVE ExactInv'
    <2>0. PICK r \in Rates : r = local[t].ewma
      BY <1>a, LocalTypes
    <2> USE <2>0
    <2>1. /\ pc[t] = "loadEwma" /\ Moves(t, {"casEwma"})
          /\ local'[t].ewma = local[t].ewma
          /\ local'[t].count = local[t].count
          /\ local'[t].cur_ewma = ewma_[local[t].ewma]
          /\ UNCHANGED <<log, ewma_, initialized_, overlap>>
      BY <1>0, <1>10, LoadEwmaEffect DEF shared, hist
    <2>2. pc'[t] = "casEwma"
      BY <2>1 DEF Moves
    <2>3. ~overlap => AtTick(t)'
      BY <1>b, <2>1, <2>2 DEF AtTick
    <2>4. pc[t] \in TickSteps /\ pc'[t] \in AtEwma
      BY <2>1, <2>2
    <2>5. \A q \in Rates \ {r} :
              UNCHANGED <<log[q], ewma_[q], initialized_[q]>>
      BY <2>1
    <2> QED
      BY <1>0, <2>1, <2>3, <2>4, <2>5, ExactInside
  <1>11. ASSUME NEW t \in Threads, ExchangeEwma(t) PROVE ExactInv'
    <2>0. PICK r \in Rates : r = local[t].ewma
      BY <1>a, LocalTypes
    <2> USE <2>0
    <2> DEFINE n == local[t].count
               cur == local[t].cur_ewma
    <2>1. pc[t] = "casEwma" /\ local[t].left > 0
      BY <1>0, <1>11 DEF ExchangeEwma, LoopInv, Loop
    <2>2. /\ Moves(t, {"exchange", "count", "getRate"})
          /\ UNCHANGED <<log, initialized_, overlap>>
      BY <1>0, <1>11, <2>1, EndEwmaTickEffect DEF ExchangeEwma
    <2>4. /\ log[r] \in Seq(Nat) /\ ewma_[r] \in Int
          /\ initialized_[r] \in BOOLEAN
      BY <1>0, EwmaTypes
    <2>5. \/ ewma_[r] = cur /\ ewma_' = [ewma_ EXCEPT ![r] =
                                            Fold(cur, InstantRate(n))]
          \/ ewma_[r] # cur /\ UNCHANGED ewma_
      BY <1>11 DEF ExchangeEwma
    <2>6. \A q \in Rates \ {r} : ewma_'[q] = ewma_[q]
      <3> HIDE DEF n, cur
      <3> QED
        BY <1>0, <2>5 DEF TypeOK
    <2>7. ~overlap => Settled(r)'
      <3> SUFFICES ASSUME ~overlap PROVE Settled(r)'
        OBVIOUS
      <3>1. AtTick(t)
        BY <1>b, <2>1
      <3>2. /\ log[r] # <<>> /\ ewma_[r] = Average(Front(log[r]))
            /\ initialized_[r] <=> Front(log[r]) # <<>>
            /\ n = Last(log[r]) /\ cur = ewma_[r] /\ initialized_[r]
        BY <2>1, <3>1 DEF AtTick
      <3> DEFINE front == Front(log[r])
      <3>3. /\ front \in Seq(Nat) /\ n \in Nat /\ log[r] = Append(front, n)
        BY <2>4, <3>2, FrontAndLast
      <3> HIDE DEF n, cur
      <3>4. ewma_'[r] = Fold(ewma_[r], InstantRate(n))
        BY <1>0, <2>5, <3>2 DEF TypeOK
      <3>5. ewma_'[r] = Weighted(ewma_[r], n)
        BY <2>4, <3>3, <3>4, FoldIsWeighted
      <3>6. Average(log[r]) = Weighted(Average(front), n)
        <4>1. front # <<>>
          BY <3>2
        <4> HIDE DEF front
        <4> QED
          BY <3>3, <4>1, AverageOfMore
      <3>7. ewma_'[r] = Average(log'[r])
        BY <2>2, <3>2, <3>5, <3>6
      <3>8. initialized_'[r] /\ log'[r] # <<>>
        BY <2>2, <3>2
      <3>9. Settled(r)'
        <4>1. initialized_'[r] <=> log'[r] # <<>>
          BY <3>8
        <4> QED
          BY <3>7, <4>1 DEF Settled
      <3> QED
        BY <3>9
    <2>8. pc'[t] \notin AtEwma /\ pc[t] \in TickSteps
      BY <2>1, <2>2 DEF Moves
    <2>9. \A q \in Rates \ {r} :
              UNCHANGED <<log[q], ewma_[q], initialized_[q]>>
      BY <2>2, <2>6
    <2> HIDE DEF n, cur
    <2> QED
      BY <1>0, <2>2, <2>7, <2>8, <2>9, ExactInside
  <1>12. ASSUME NEW t \in Threads, StoreEwma(t) PROVE ExactInv'
    <2>0. PICK r \in Rates : r = local[t].ewma
      BY <1>a, LocalTypes
    <2> USE <2>0
    <2> DEFINE n == local[t].count
    <2>1. /\ pc[t] = "storeEwma" /\ Moves(t, {"setInit"}) /\ UNCHANGED local
          /\ UNCHANGED <<log, initialized_, overlap>>
      BY <1>0, <1>12, StoreEwmaEffect DEF StoreEwma
    <2>3. log[r] \in Seq(Nat) /\ initialized_[r] \in BOOLEAN
      BY <1>0, EwmaTypes
    <2>4. ewma_' = [ewma_ EXCEPT ![r] = InstantRate(n)]
      BY <1>12 DEF StoreEwma
    <2>5. ewma_'[r] = InstantRate(n) /\ \A q \in Rates \ {r} : ewma_'[q] = ewma_[q]
      <3> HIDE DEF n
      <3> QED
        BY <1>0, <2>4 DEF TypeOK
    <2>6. ~overlap => ewma_'[r] = Average(log[r]) /\ log[r] # <<>>
      <3> SUFFICES ASSUME ~overlap
                   PROVE  ewma_'[r] = Average(log[r]) /\ log[r] # <<>>
        OBVIOUS
      <3>1. AtTick(t)
        BY <1>b, <2>1
      <3>2. /\ log[r] # <<>> /\ (initialized_[r] <=> Front(log[r]) # <<>>)
            /\ n = Last(log[r]) /\ ~initialized_[r]
        BY <2>1, <3>1 DEF AtTick
      <3>3. Front(log[r]) = <<>>
        BY <3>2
      <3>4. n \in Nat /\ log[r] = Append(Front(log[r]), n)
        BY <2>3, <3>2, FrontAndLast
      <3>5. log[r] = Append(<<>>, n)
        BY <3>3, <3>4
      <3> HIDE DEF n
      <3> QED
        BY <2>5, <3>2, <3>4, <3>5, AverageOfOne
    <2>7. pc'[t] = "setInit" /\ local'[t].ewma = r
      BY <2>1 DEF Moves
    <2>8. ~overlap => AtTick(t)'
      <3> HIDE DEF n
      <3> QED
        BY <2>1, <2>6, <2>7 DEF AtTick
    <2>9. pc'[t] \in AtEwma /\ pc[t] \in TickSteps
      BY <2>1, <2>7
    <2>10. \A q \in Rates \ {r} :
              UNCHANGED <<log[q], ewma_[q], initialized_[q]>>
      BY <2>1, <2>5
    <2> HIDE DEF n
    <2> QED
      BY <1>0, <2>1, <2>7, <2>8, <2>9, <2>10, ExactInside
  <1>13. ASSUME NEW t \in Threads, SetInitialized(t) PROVE ExactInv'
    <2>0. PICK r \in Rates : r = local[t].ewma
      BY <1>a, LocalTypes
    <2> USE <2>0
    <2>1. pc[t] = "setInit" /\ local[t].left > 0
      BY <1>0, <1>13 DEF SetInitialized, LoopInv, Loop
    <2>2. /\ Moves(t, {"exchange", "count", "getRate"})
          /\ UNCHANGED <<log, ewma_, overlap>>
      BY <1>0, <1>13, <2>1, EndEwmaTickEffect DEF SetInitialized, hist
    <2>4. initialized_' = [initialized_ EXCEPT ![r] = TRUE]
      BY <1>13 DEF SetInitialized
    <2>5. /\ initialized_'[r]
          /\ \A q \in Rates \ {r} : initialized_'[q] = initialized_[q]
      <3> QED
        BY <1>0, <2>4 DEF TypeOK
    <2>6. ~overlap => Settled(r)'
      <3>1. ~overlap => ewma_[r] = Average(log[r]) /\ log[r] # <<>>
        BY <1>b, <2>1 DEF AtTick
      <3>2. ~overlap => /\ ewma_'[r] = Average(log'[r])
                        /\ initialized_'[r] <=> log'[r] # <<>>
        BY <2>2, <2>5, <3>1
      <3> QED
        BY <3>2 DEF Settled
    <2>7. pc'[t] \notin AtEwma /\ pc[t] \in TickSteps
      BY <2>1, <2>2 DEF Moves
    <2>8. \A q \in Rates \ {r} :
              UNCHANGED <<log[q], ewma_[q], initialized_[q]>>
      BY <2>2, <2>5
    <2> QED
      BY <1>0, <2>2, <2>6, <2>7, <2>8, ExactInside
  <1>14. ASSUME NEW t \in Threads, AddToCount(t) PROVE ExactInv'
    <2>1. /\ pc[t] = "count" /\ Moves(t, {"update"})
          /\ UNCHANGED <<log, ewma_, initialized_, overlap>>
      BY <1>0, <1>14, AddToCountEffect DEF AddToCount, hist
    <2>2. pc[t] \notin AtEwma /\ pc'[t] \notin AtEwma
      BY <2>1 DEF Moves
    <2> QED
      BY <1>0, <2>1, <2>2, ExactOutside
  <1>15. ASSUME NEW t \in Threads, UpdateEwma(t) PROVE ExactInv'
    <2>1. /\ pc[t] = "update" /\ Moves(t, {"update", "idle"})
          /\ UNCHANGED <<log, ewma_, initialized_, overlap>>
      BY <1>0, <1>15, UpdateEwmaEffect DEF UpdateEwma, hist
    <2>2. pc[t] \notin AtEwma /\ pc'[t] \notin AtEwma
      BY <2>1 DEF Moves
    <2> QED
      BY <1>0, <2>1, <2>2, ExactOutside
  <1>16. ASSUME NEW t \in Threads, GetRate(t) PROVE ExactInv'
    <2>1. /\ pc[t] = "getRate" /\ Moves(t, {"idle"})
          /\ UNCHANGED <<log, ewma_, initialized_, overlap>>
      BY <1>0, <1>16, GetRateEffect DEF shared, hist
    <2>2. pc[t] \notin AtEwma /\ pc'[t] \notin AtEwma
      BY <2>1 DEF Moves
    <2> QED
      BY <1>0, <2>1, <2>2, ExactOutside
  <1>17. CASE Next
    BY <1>17, <1>3, <1>4, <1>5, <1>6, <1>7, <1>8, <1>9, <1>10, <1>11, <1>12,
       <1>13, <1>14, <1>15, <1>16 DEF Next, Step
  <1> QED
    BY <1>2, <1>17

-----------------------------------------------------------------------------
LEMMA MeterInit == Init => MeterInv
  <1> SUFFICES ASSUME Init PROVE MeterInv
    OBVIOUS
  <1>1. StartTime \in Nat /\ MaxTime \in Nat /\ StartTime <= MaxTime
    BY MeterAssumption
  <1>2. TypeOK
    <2>1. pc \in [Threads -> Steps] /\ local \in [Threads -> Locals]
      BY NoLocalsType DEF Init, Steps
    <2>2. /\ uncounted_ \in [Rates -> Nat] /\ ewma_ \in [Rates -> Int]
          /\ folds \in [Rates -> Nat]
      BY DEF Init
    <2>3. initialized_ \in [Rates -> BOOLEAN] /\ log \in [Rates -> Seq(Nat)]
      BY DEF Init
    <2>4. /\ now \in StartTime .. MaxTime /\ last_tick_ \in Nat
          /\ count_ \in Nat /\ granted \in Nat
      BY <1>1 DEF Init
    <2>5. overlap \in BOOLEAN
      BY DEF Init
    <2> QED
      BY <2>1, <2>2, <2>3, <2>4, <2>5 DEF TypeOK
  <1>a. \A t \in Threads :
           pc[t] = "idle" /\ local[t].left = 0 /\ local[t].ewma = 1
    BY NoLocalsType DEF Init
  <1>3. LoopInv /\ ClockInv
    BY <1>a DEF LoopInv, Loop, ClockInv, TickSteps
  <1>4. TicksMatchIntervals
    BY <1>1, MeterAssumption DEF Init, TicksMatchIntervals
  <1>5. TickerInv /\ AverageInv
    BY DEF Init, TickerInv, Ticker, AverageInv
  <1>6. IsFiniteSet(Threads)
    BY MeterAssumption
  <1>7. EveryTickIsTaken
    <2>1. ASSUME NEW r \in Rates PROVE granted = Len(log[r])
                    + SumFunction([t \in Threads |-> Owed(t, r)])
      <3>1. [t \in Threads |-> Owed(t, r)] = [t \in Threads |-> 0]
        BY <1>a DEF Owed
      <3>2. granted = 0 /\ Len(log[r]) = 0
        BY DEF Init
      <3> QED
        BY <1>6, <3>1, <3>2, SumOfNothing
    <2> QED
      BY <2>1 DEF EveryTickIsTaken
  <1>8. EventsAreConserved
    <2>1. ASSUME NEW r \in Rates PROVE count_ = SumFunction(log[r])
                    + uncounted_[r]
                    + SumFunction([t \in Threads |-> ToCome(t, r)])
      <3>1. [t \in Threads |-> ToCome(t, r)] = [t \in Threads |-> 0]
        BY <1>a DEF ToCome
      <3>2. count_ = 0 /\ log[r] = <<>> /\ uncounted_[r] = 0
        BY DEF Init
      <3> QED
        BY <1>6, <3>1, <3>2, SumOfNothing, SumOfEmpty
    <2> QED
      BY <2>1 DEF EventsAreConserved
  <1>9. AloneInv
    BY <1>a DEF AloneInv, TickSteps
  <1>10. ExactInv
    <2>1. \A r \in Rates : Settled(r)
      BY DEF Init, Settled, Average
    <2> QED
      BY <1>a, <2>1 DEF ExactInv, AtEwma, TickSteps
  <1> QED
    BY <1>2, <1>3, <1>4, <1>5, <1>7, <1>8, <1>9, <1>10 DEF MeterInv

(* What holds of a meter at each moment, whoever marks, reads and ticks.    *)
THEOREM MeterInvariant == Spec => []MeterInv
  <1>1. MeterInv /\ [Next]_vars => MeterInv'
    <2> SUFFICES ASSUME MeterInv, [Next]_vars PROVE MeterInv'
      OBVIOUS
    <2>1. TypeOK' /\ LoopInv' /\ ClockInv' /\ TicksMatchIntervals'
      BY TypeStep, LoopStep, ClockStep
    <2>2. TickerInv' /\ AverageInv'
      BY AverageStep
    <2>3. EveryTickIsTaken' /\ EventsAreConserved'
      BY <2>1, TakenStep, ConservedStep
    <2>4. AloneInv' /\ ExactInv'
      BY AloneStep, ExactStep
    <2> QED
      BY <2>1, <2>2, <2>3, <2>4 DEF MeterInv
  <1> QED
    BY <1>1, MeterInit, PTL DEF Spec

(* Every variable, and every local of a call, stays in its range.           *)
THEOREM MeterTypes == Spec => []TypeOK
  <1>1. MeterInv => TypeOK
    BY DEF MeterInv
  <1> QED
    BY <1>1, MeterInvariant, PTL

(* The unsigned difference of tickIfNecessary never wraps round.            *)
THEOREM AgeIsExact == Spec => []AgeNeverWraps
  <1>1. MeterInv => AgeNeverWraps
    BY DEF MeterInv, ClockInv, AgeNeverWraps
  <1> QED
    BY <1>1, MeterInvariant, PTL

(* Ticks are neither skipped nor given twice.                               *)
THEOREM TickGridIsKept == Spec => []TicksMatchIntervals
  <1>1. MeterInv => TicksMatchIntervals
    BY DEF MeterInv
  <1> QED
    BY <1>1, MeterInvariant, PTL

(* However many tick loops overlap, an average stays within the range of    *)
(* the counts that its ticks have taken.                                    *)
THEOREM AveragesAreObserved == Spec => []RateWithinObserved
  <1>1. MeterInv => RateWithinObserved
    BY DEF MeterInv, AverageInv, Reached, RateWithinObserved
  <1> QED
    BY <1>1, MeterInvariant, PTL

(* Every tick granted is taken, by each EWMA, exactly once: what is not in  *)
(* its log is owed by a thread that is in the loop.                         *)
THEOREM TicksAreTaken == Spec => []EveryTickIsTaken
  <1>1. MeterInv => EveryTickIsTaken
    BY DEF MeterInv
  <1> QED
    BY <1>1, MeterInvariant, PTL

(* No event is lost or counted twice on its way from mark() to an EWMA.     *)
THEOREM EventsAreCounted == Spec => []EventsAreConserved
  <1>1. MeterInv => EventsAreConserved
    BY DEF MeterInv
  <1> QED
    BY <1>1, MeterInvariant, PTL

(* As long as no tick loop begins before another has ended, each average,   *)
(* when no tick is under way, is the exact one of all counts taken: marks   *)
(* and reads that run at the same time do not disturb it.                   *)
THEOREM AveragesAreExact == Spec => []AverageIsExact
  <1>1. MeterInv => AverageIsExact
    <2> SUFFICES ASSUME MeterInv, Quiescent, ~overlap, NEW r \in Rates
                 PROVE  ewma_[r] = Average(log[r])
      BY DEF AverageIsExact
    <2>1. LoopInv /\ ExactInv
      BY DEF MeterInv
    <2>2. \A t \in Threads : pc[t] \notin AtEwma
      BY <2>1 DEF Quiescent, InTickLoop, LoopInv, Loop, AtEwma
    <2>3. Settled(r)
      BY <2>1, <2>2 DEF ExactInv
    <2> QED
      BY <2>3 DEF Settled
  <1> QED
    BY <1>1, MeterInvariant, PTL
=============================================================================
