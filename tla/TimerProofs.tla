----------------------------- MODULE TimerProofs -----------------------------
(***************************************************************************)
(* Proofs about Timer for any finite set of threads, any clock and any     *)
(* number of updates: contexts do not measure a moment twice, the counts   *)
(* cover the samples, and a report that no clear disturbs is coherent.     *)
(*                                                                         *)
(* The second half is about the other thing such a report reads, the       *)
(* Snapshot of the sample: for any values, and any number of them, its     *)
(* percentiles are quantiles and its deviation is the unbiased one.        *)
(***************************************************************************)
EXTENDS Timer, Snapshot, FiniteSetTheorems, TLAPS

(* Types, and what a call knows of itself at each step.                     *)
TypeInv ==
    /\ clock \in Nat
    /\ histogram_count_ \in Nat /\ sample_ \in Nat /\ events \in Nat
    /\ stage \in [Workers -> {"idle", "sample", "mark", "clear"}]
    /\ op \in [Workers -> {"none", "update", "stop", "destroy"}]
    /\ duration \in [Workers -> Nat]
    /\ overtaken \in [Workers -> BOOLEAN]
    /\ context \in [Workers -> BOOLEAN] /\ active_ \in [Workers -> BOOLEAN]
    /\ start_time_ \in [Workers -> Nat]
    /\ report \in [step : {"snapshot", "count", "publish"}, values : Nat,
                   count : Nat, cleared : BOOLEAN]
    /\ begun \in Nat /\ taken \in Nat /\ uncounted \in Nat
    /\ timed \in [Workers -> Nat]

(* A context's time: what is recorded lies before its start, and a call     *)
(* that will record the context's time has not got more than that.          *)
ContextInv ==
    \A t \in Workers :
        /\ start_time_[t] <= clock /\ timed[t] <= clock
        /\ context[t] /\ active_[t] /\ (stage[t] = "mark" => op[t] = "update")
              => timed[t] <= start_time_[t]
        /\ stage[t] = "sample" /\ op[t] # "update" =>
              /\ context[t] /\ active_[t]
              /\ duration[t] <= clock - start_time_[t]

(* The updates between the histogram's count and its sample that the count  *)
(* still includes.                                                          *)
Counted == {t \in Workers : stage[t] = "sample" /\ ~overtaken[t]}

CountInv ==
    /\ Cardinality(Counted) <= histogram_count_
    /\ ~ClearUnderWay =>
           sample_ + Cardinality(Counted) <= histogram_count_ + uncounted

ReportInv ==
    /\ report.step = "count" /\ ~report.cleared =>
           report.values <= histogram_count_ + uncounted
    /\ report.step = "publish" /\ ~report.cleared =>
           report.values <= report.count + uncounted

Marking == {t \in Workers : stage[t] = "mark"}

TimerInv ==
    TypeInv /\ ContextInv /\ CountInv /\ ReportInv

-----------------------------------------------------------------------------
LEMMA NextCases ==
    ASSUME TimerNext, NEW P,
           ClockRuns => P, ReportStep => P,
           ASSUME NEW t \in Workers, Update(t) PROVE P,
           ASSUME NEW t \in Workers, Sample(t) PROVE P,
           ASSUME NEW t \in Workers, SampleThrows(t) PROVE P,
           ASSUME NEW t \in Workers, Mark(t) PROVE P,
           ASSUME NEW t \in Workers, Construct(t) PROVE P,
           ASSUME NEW t \in Workers, ResetContext(t) PROVE P,
           ASSUME NEW t \in Workers, Stop(t) PROVE P,
           ASSUME NEW t \in Workers, Destroy(t) PROVE P,
           ASSUME NEW t \in Workers, BeginClear(t) PROVE P,
           ASSUME NEW t \in Workers, ClearSample(t) PROVE P
    PROVE  P
  BY DEF TimerNext

(* The sets counted are finite.                                             *)
LEMMA ThreadSets ==
    /\ IsFiniteSet(Counted) /\ Cardinality(Counted) \in Nat
    /\ IsFiniteSet(Marking) /\ Cardinality(Marking) \in Nat
  <1>1. Counted \in SUBSET Workers /\ Marking \in SUBSET Workers
    BY DEF Counted, Marking
  <1>2. IsFiniteSet(Counted) /\ IsFiniteSet(Marking)
    BY <1>1, FS_Subset, TimerAssumption
  <1> QED
    BY <1>2, FS_CardinalityType

LEMMA OneMore ==
    ASSUME NEW S, NEW t, IsFiniteSet(S), t \notin S
    PROVE  Cardinality(S \cup {t}) = Cardinality(S) + 1
  BY FS_AddElement

LEMMA OneLess ==
    ASSUME NEW S, NEW t, IsFiniteSet(S), t \in S
    PROVE  Cardinality(S \ {t}) = Cardinality(S) - 1
  BY FS_RemoveElement

LEMMA TimerInvInit == TimerInit => TimerInv
  <1> SUFFICES ASSUME TimerInit PROVE TimerInv
    OBVIOUS
  <1>1. TypeInv
    BY DEF TimerInit, TypeInv, NoReport, After
  <1>2. ContextInv
    BY DEF TimerInit, ContextInv
  <1>3. Counted = {}
    BY DEF TimerInit, Counted
  <1>4. CountInv
    BY <1>3, FS_EmptySet DEF TimerInit, CountInv
  <1>5. ReportInv
    BY DEF TimerInit, ReportInv, NoReport, After
  <1> QED
    BY <1>1, <1>2, <1>4, <1>5 DEF TimerInv

LEMMA CountTypes ==
    ASSUME TypeInv, NEW t \in Workers, NEW by \in {"update", "stop", "destroy"},
           NEW d \in Int, Count(t, by, d), UNCHANGED contexts
    PROVE  TypeInv'
  <1>1. d \in Nat
    BY DEF Count
  <1>2. /\ stage' \in [Workers -> {"idle", "sample", "mark", "clear"}]
        /\ op' \in [Workers -> {"none", "update", "stop", "destroy"}]
        /\ duration' \in [Workers -> Nat]
    BY <1>1 DEF TypeInv, Count, GotoStage
  <1> QED
    BY <1>2 DEF TypeInv, Count, contexts

LEMMA ReportTypes ==
    ASSUME TypeInv, ReportStep
    PROVE  report' \in [step : {"snapshot", "count", "publish"}, values : Nat,
                        count : Nat, cleared : BOOLEAN]
  <1> USE DEF TypeInv, After
  <1>1. ClearUnderWay \in BOOLEAN
    BY DEF ClearUnderWay
  <1>2. CASE report.step = "snapshot"
    <2>1. report' = [report EXCEPT !.step = "count", !.values = sample_,
                                   !.cleared = ClearUnderWay]
      BY <1>2 DEF ReportStep
    <2> QED
      BY <1>1, <2>1
  <1>3. CASE report.step = "count"
    <2>1. report' = [report EXCEPT !.step = "publish",
                                   !.count = histogram_count_]
      BY <1>3 DEF ReportStep
    <2> QED
      BY <2>1
  <1>4. CASE report.step = "publish"
    <2>1. report' = [step |-> "snapshot", values |-> 0, count |-> 0,
                     cleared |-> FALSE]
      BY <1>4 DEF ReportStep, NoReport
    <2> QED
      BY <2>1
  <1> QED
    BY <1>2, <1>3, <1>4

LEMMA TypeInvStep == TypeInv /\ [TimerNext]_timerVars => TypeInv'
  <1> SUFFICES ASSUME TypeInv, [TimerNext]_timerVars PROVE TypeInv'
    OBVIOUS
  <1> USE DEF TypeInv, GotoStage, timer, contexts, history
  <1>1. CASE TimerNext
    <2>1. ASSUME ClockRuns PROVE TypeInv'
      BY <2>1 DEF ClockRuns
    <2>2. ASSUME ReportStep PROVE TypeInv'
      BY <2>2, ReportTypes DEF ReportStep
    <2>3. ASSUME NEW t \in Workers, Update(t) PROVE TypeInv'
      BY <2>3, CountTypes DEF Update
    <2>4. ASSUME NEW t \in Workers, Sample(t) PROVE TypeInv'
      BY <2>4 DEF Sample
    <2>5. ASSUME NEW t \in Workers, SampleThrows(t) PROVE TypeInv'
      BY <2>5 DEF SampleThrows, EndCall
    <2>6. ASSUME NEW t \in Workers, Mark(t) PROVE TypeInv'
      BY <2>6 DEF Mark, EndCall
    <2>7. ASSUME NEW t \in Workers, Construct(t) PROVE TypeInv'
      BY <2>7 DEF Construct, Reset
    <2>8. ASSUME NEW t \in Workers, ResetContext(t) PROVE TypeInv'
      BY <2>8 DEF ResetContext, Reset
    <2>9. ASSUME NEW t \in Workers, Stop(t) PROVE TypeInv'
      BY <2>9, CountTypes DEF Stop, Elapsed
    <2>10. ASSUME NEW t \in Workers, Destroy(t) PROVE TypeInv'
      <3>1. CASE Count(t, "destroy", Elapsed(t)) /\ UNCHANGED contexts
        BY <3>1, CountTypes DEF Elapsed
      <3>2. CASE ~active_[t]
        BY <2>10, <3>2 DEF Destroy
      <3> QED
        BY <2>10, <3>1, <3>2 DEF Destroy
    <2>11. ASSUME NEW t \in Workers, BeginClear(t) PROVE TypeInv'
      BY <2>11 DEF BeginClear, ReportDisturbed
    <2>12. ASSUME NEW t \in Workers, ClearSample(t) PROVE TypeInv'
      <3>1. taken' \in Nat
        BY <2>12, ThreadSets DEF ClearSample, Marking
      <3> QED
        BY <2>12, <3>1 DEF ClearSample, ReportDisturbed
    <2> QED
      BY <1>1, NextCases, <2>1, <2>2, <2>3, <2>4, <2>5, <2>6, <2>7, <2>8,
         <2>9, <2>10, <2>11, <2>12
  <1>2. CASE UNCHANGED timerVars
    BY <1>2 DEF timerVars
  <1> QED
    BY <1>1, <1>2

LEMMA ContextStep == TypeInv /\ ContextInv /\ [TimerNext]_timerVars => ContextInv'
  <1> SUFFICES ASSUME TypeInv, ContextInv, [TimerNext]_timerVars PROVE ContextInv'
    OBVIOUS
  <1> USE DEF TypeInv, ContextInv, GotoStage, timer, contexts, history
  <1>1. CASE TimerNext
    <2>1. ASSUME ClockRuns PROVE ContextInv'
      BY <2>1 DEF ClockRuns
    <2>2. ASSUME ReportStep PROVE ContextInv'
      BY <2>2 DEF ReportStep
    <2>3. ASSUME NEW t \in Workers, Update(t) PROVE ContextInv'
      BY <2>3 DEF Update, Count
    <2>4. ASSUME NEW t \in Workers, Sample(t) PROVE ContextInv'
      BY <2>4 DEF Sample
    <2>5. ASSUME NEW t \in Workers, SampleThrows(t) PROVE ContextInv'
      BY <2>5 DEF SampleThrows, EndCall
    <2>6. ASSUME NEW t \in Workers, Mark(t) PROVE ContextInv'
      BY <2>6 DEF Mark, EndCall
    <2>7. ASSUME NEW t \in Workers, Construct(t) PROVE ContextInv'
      BY <2>7 DEF Construct, Reset
    <2>8. ASSUME NEW t \in Workers, ResetContext(t) PROVE ContextInv'
      BY <2>8 DEF ResetContext, Reset
    <2>9. ASSUME NEW t \in Workers, Stop(t) PROVE ContextInv'
      BY <2>9 DEF Stop, Count, Elapsed
    <2>10. ASSUME NEW t \in Workers, Destroy(t) PROVE ContextInv'
      BY <2>10 DEF Destroy, Count, Elapsed
    <2>11. ASSUME NEW t \in Workers, BeginClear(t) PROVE ContextInv'
      BY <2>11 DEF BeginClear
    <2>12. ASSUME NEW t \in Workers, ClearSample(t) PROVE ContextInv'
      BY <2>12 DEF ClearSample
    <2> QED
      BY <1>1, NextCases, <2>1, <2>2, <2>3, <2>4, <2>5, <2>6, <2>7, <2>8,
         <2>9, <2>10, <2>11, <2>12
  <1>2. CASE UNCHANGED timerVars
    BY <1>2 DEF timerVars
  <1> QED
    BY <1>1, <1>2

-----------------------------------------------------------------------------
(* The counts: an update first counts and is then one of Counted, until its *)
(* value is in the sample, it throws, or a clear resets the count.          *)
LEMMA CountedStays ==
    ASSUME stage' = stage, overtaken' = overtaken
    PROVE  Counted' = Counted /\ (ClearUnderWay' <=> ClearUnderWay)
  BY DEF Counted, ClearUnderWay

LEMMA CountCounts ==
    ASSUME TypeInv, CountInv, NEW t \in Workers, NEW by, NEW d,
           stage[t] = "idle", Count(t, by, d)
    PROVE  CountInv'
  <1> USE DEF TypeInv, GotoStage
  <1>1. stage' = [stage EXCEPT ![t] = "sample"] /\ overtaken' = overtaken
    BY DEF Count
  <1>2. ClearUnderWay' <=> ClearUnderWay
    BY <1>1 DEF ClearUnderWay
  <1>3. Counted' \in {Counted, Counted \cup {t}} /\ t \notin Counted
    BY <1>1 DEF Counted
  <1>4. Cardinality(Counted') <= Cardinality(Counted) + 1
    BY <1>3, ThreadSets, OneMore
  <1>5. Cardinality(Counted') \in Nat
    BY <1>3, ThreadSets, OneMore
  <1> QED
    BY <1>2, <1>4, <1>5, ThreadSets DEF CountInv, Count

LEMMA SampleCounts ==
    ASSUME TypeInv, CountInv, NEW t \in Workers, Sample(t)
    PROVE  CountInv'
  <1> USE DEF TypeInv, GotoStage
  <1>1. /\ stage[t] = "sample" /\ stage' = [stage EXCEPT ![t] = "mark"]
        /\ overtaken' = overtaken
        /\ histogram_count_' = histogram_count_ /\ sample_' = sample_ + 1
        /\ uncounted' = IF overtaken[t] THEN uncounted + 1 ELSE uncounted
    BY DEF Sample
  <1>2. ClearUnderWay' <=> ClearUnderWay
    BY <1>1 DEF ClearUnderWay
  <1>3. Counted' = Counted \ {t} /\ (t \in Counted <=> ~overtaken[t])
    BY <1>1 DEF Counted
  <1>4. CASE overtaken[t]
    <2>1. Counted' = Counted
      BY <1>3, <1>4
    <2> QED
      BY <1>1, <1>2, <1>4, <2>1, ThreadSets DEF CountInv
  <1>5. CASE ~overtaken[t]
    <2>1. Cardinality(Counted') = Cardinality(Counted) - 1
      BY <1>3, <1>5, ThreadSets, OneLess
    <2> QED
      BY <1>1, <1>2, <1>5, <2>1, ThreadSets DEF CountInv
  <1> QED
    BY <1>4, <1>5

(* A thread that is not counted, or no more, while the numbers stay.        *)
LEMMA FewerCounted ==
    ASSUME TypeInv, CountInv, Counted' \subseteq Counted,
           ClearUnderWay' <=> ClearUnderWay,
           UNCHANGED <<histogram_count_, sample_, uncounted>>
    PROVE  CountInv'
  <1>1. Counted' \in SUBSET Counted
    OBVIOUS
  <1>2. /\ Cardinality(Counted') <= Cardinality(Counted)
        /\ Cardinality(Counted') \in Nat
    BY <1>1, ThreadSets, FS_Subset, FS_CardinalityType
  <1> QED
    BY <1>2, ThreadSets DEF CountInv, TypeInv

LEMMA ClearCounts ==
    ASSUME TypeInv, CountInv, NEW t \in Workers, BeginClear(t)
    PROVE  CountInv'
  <1> USE DEF TypeInv, GotoStage
  <1>1. Counted' = {}
    BY DEF BeginClear, Counted
  <1>2. ClearUnderWay'
    BY DEF BeginClear, ClearUnderWay
  <1> QED
    BY <1>1, <1>2, FS_EmptySet DEF BeginClear, CountInv

LEMMA ClearSampleCounts ==
    ASSUME TypeInv, CountInv, NEW t \in Workers, ClearSample(t)
    PROVE  CountInv'
  <1> USE DEF TypeInv, GotoStage
  <1>1. Counted' = Counted
    BY DEF ClearSample, Counted
  <1> QED
    BY <1>1, ThreadSets DEF ClearSample, CountInv

LEMMA CountStep == TypeInv /\ CountInv /\ [TimerNext]_timerVars => CountInv'
  <1> SUFFICES ASSUME TypeInv, CountInv, [TimerNext]_timerVars PROVE CountInv'
    OBVIOUS
  <1> USE DEF GotoStage, timer, contexts, history
  <1>1. CASE TimerNext
    <2>1. ASSUME ClockRuns PROVE CountInv'
      BY <2>1, CountedStays, FewerCounted DEF ClockRuns
    <2>2. ASSUME ReportStep PROVE CountInv'
      BY <2>2, CountedStays, FewerCounted DEF ReportStep
    <2>3. ASSUME NEW t \in Workers, Update(t) PROVE CountInv'
      BY <2>3, CountCounts DEF Update
    <2>4. ASSUME NEW t \in Workers, Sample(t) PROVE CountInv'
      BY <2>4, SampleCounts
    <2>5. ASSUME NEW t \in Workers, SampleThrows(t) PROVE CountInv'
      <3>1. Counted' \subseteq Counted /\ (ClearUnderWay' <=> ClearUnderWay)
        BY <2>5 DEF SampleThrows, EndCall, TypeInv, Counted, ClearUnderWay
      <3> QED
        BY <2>5, <3>1, FewerCounted DEF SampleThrows
    <2>6. ASSUME NEW t \in Workers, Mark(t) PROVE CountInv'
      <3>1. Counted' \subseteq Counted /\ (ClearUnderWay' <=> ClearUnderWay)
        BY <2>6 DEF Mark, EndCall, TypeInv, Counted, ClearUnderWay
      <3> QED
        BY <2>6, <3>1, FewerCounted DEF Mark
    <2>7. ASSUME NEW t \in Workers, Construct(t) PROVE CountInv'
      BY <2>7, CountedStays, FewerCounted DEF Construct, Reset
    <2>8. ASSUME NEW t \in Workers, ResetContext(t) PROVE CountInv'
      BY <2>8, CountedStays, FewerCounted DEF ResetContext, Reset
    <2>9. ASSUME NEW t \in Workers, Stop(t) PROVE CountInv'
      BY <2>9, CountCounts DEF Stop
    <2>10. ASSUME NEW t \in Workers, Destroy(t) PROVE CountInv'
      BY <2>10, CountCounts, CountedStays, FewerCounted DEF Destroy
    <2>11. ASSUME NEW t \in Workers, BeginClear(t) PROVE CountInv'
      BY <2>11, ClearCounts
    <2>12. ASSUME NEW t \in Workers, ClearSample(t) PROVE CountInv'
      BY <2>12, ClearSampleCounts
    <2> QED
      BY <1>1, NextCases, <2>1, <2>2, <2>3, <2>4, <2>5, <2>6, <2>7, <2>8,
         <2>9, <2>10, <2>11, <2>12
  <1>2. CASE UNCHANGED timerVars
    BY <1>2, CountedStays, FewerCounted DEF timerVars
  <1> QED
    BY <1>1, <1>2

-----------------------------------------------------------------------------
(* The report: it takes the values, then the count.                         *)
LEMMA ReportStays ==
    ASSUME TypeInv, ReportInv, report' = report,
           histogram_count_' \in Nat, histogram_count_' >= histogram_count_,
           uncounted' \in Nat, uncounted' >= uncounted
    PROVE  ReportInv'
  BY DEF ReportInv, TypeInv

LEMMA DisturbedReport ==
    ASSUME TypeInv, ReportDisturbed
    PROVE  ReportInv'
  <1>1. report.step # "snapshot" => report # NoReport
    BY DEF NoReport, After
  <1>2. report'.step = report.step
    BY DEF TypeInv, ReportDisturbed
  <1>3. report.step # "snapshot" => report'.cleared
    BY <1>1 DEF TypeInv, ReportDisturbed
  <1> QED
    BY <1>2, <1>3 DEF ReportInv

LEMMA ReportTakes ==
    ASSUME TypeInv, CountInv, ReportInv, ReportStep
    PROVE  ReportInv'
  <1> USE DEF TypeInv, After, timer, history
  <1>1. UNCHANGED <<histogram_count_, uncounted>>
    BY DEF ReportStep
  <1>2. CASE report.step = "snapshot"
    <2>1. report' = [report EXCEPT !.step = "count", !.values = sample_,
                                   !.cleared = ClearUnderWay]
      BY <1>2 DEF ReportStep
    <2>2. ~ClearUnderWay => sample_ <= histogram_count_ + uncounted
      BY ThreadSets DEF CountInv
    <2>3. report'.step = "count" /\ report'.values = sample_
              /\ report'.cleared = ClearUnderWay
      BY <2>1
    <2> QED
      BY <1>1, <2>2, <2>3 DEF ReportInv
  <1>3. CASE report.step = "count"
    <2>1. report' = [report EXCEPT !.step = "publish",
                                   !.count = histogram_count_]
      BY <1>3 DEF ReportStep
    <2> QED
      BY <1>1, <1>3, <2>1 DEF ReportInv
  <1>4. CASE report.step = "publish"
    BY <1>4 DEF ReportStep, ReportInv, NoReport
  <1> QED
    BY <1>2, <1>3, <1>4

LEMMA ReportInvStep ==
    TypeInv /\ CountInv /\ ReportInv /\ [TimerNext]_timerVars => ReportInv'
  <1> SUFFICES ASSUME TypeInv, CountInv, ReportInv, [TimerNext]_timerVars
               PROVE  ReportInv'
    OBVIOUS
  <1>0. histogram_count_ \in Nat /\ uncounted \in Nat
    BY DEF TypeInv
  <1> USE <1>0 DEF timer, contexts, history
  <1>1. CASE TimerNext
    <2>1. ASSUME ClockRuns PROVE ReportInv'
      BY <2>1, ReportStays DEF ClockRuns
    <2>2. ASSUME ReportStep PROVE ReportInv'
      BY <2>2, ReportTakes
    <2>3. ASSUME NEW t \in Workers, Update(t) PROVE ReportInv'
      BY <2>3, ReportStays DEF Update, Count
    <2>4. ASSUME NEW t \in Workers, Sample(t) PROVE ReportInv'
      BY <2>4, ReportStays DEF Sample
    <2>5. ASSUME NEW t \in Workers, SampleThrows(t) PROVE ReportInv'
      BY <2>5, ReportStays DEF SampleThrows
    <2>6. ASSUME NEW t \in Workers, Mark(t) PROVE ReportInv'
      BY <2>6, ReportStays DEF Mark
    <2>7. ASSUME NEW t \in Workers, Construct(t) PROVE ReportInv'
      BY <2>7, ReportStays DEF Construct, Reset
    <2>8. ASSUME NEW t \in Workers, ResetContext(t) PROVE ReportInv'
      BY <2>8, ReportStays DEF ResetContext, Reset
    <2>9. ASSUME NEW t \in Workers, Stop(t) PROVE ReportInv'
      BY <2>9, ReportStays DEF Stop, Count
    <2>10. ASSUME NEW t \in Workers, Destroy(t) PROVE ReportInv'
      BY <2>10, ReportStays DEF Destroy, Count
    <2>11. ASSUME NEW t \in Workers, BeginClear(t) PROVE ReportInv'
      BY <2>11, DisturbedReport DEF BeginClear
    <2>12. ASSUME NEW t \in Workers, ClearSample(t) PROVE ReportInv'
      BY <2>12, DisturbedReport DEF ClearSample
    <2> QED
      BY <1>1, NextCases, <2>1, <2>2, <2>3, <2>4, <2>5, <2>6, <2>7, <2>8,
         <2>9, <2>10, <2>11, <2>12
  <1>2. CASE UNCHANGED timerVars
    BY <1>2, ReportStays DEF timerVars
  <1> QED
    BY <1>1, <1>2

-----------------------------------------------------------------------------
(* What holds of a timer, its contexts and a report of it at each moment,   *)
(* whichever thread throws or clears.                                       *)
THEOREM TimerInvariant == TimerSpec => []TimerInv
  <1>1. TimerInv /\ [TimerNext]_timerVars => TimerInv'
    BY TypeInvStep, ContextStep, CountStep, ReportInvStep
    DEF TimerInv
  <1> QED
    BY TimerInvInit, <1>1, PTL DEF TimerSpec

(* Whatever is stopped twice, thrown out of or reset, the durations a       *)
(* thread's contexts record fit into the time gone by.                      *)
THEOREM TimesFit == TimerSpec => []TimesDoNotOverlap
  <1>1. TimerInv => TimesDoNotOverlap
    BY DEF TimerInv, TypeInv, ContextInv, TimesDoNotOverlap, Running, Elapsed
  <1> QED
    BY <1>1, TimerInvariant, PTL

(* The histogram's count covers the sample outside a clear, but for values  *)
(* that a whole clear overtook.                                             *)
THEOREM SampleIsCovered == TimerSpec => []CountCoversSample
  <1>1. TimerInv => CountCoversSample
    BY ThreadSets DEF TimerInv, TypeInv, CountInv, CountCoversSample
  <1> QED
    BY <1>1, TimerInvariant, PTL

(* A report that no clear disturbs counts the values it shows.              *)
THEOREM ReportIsCoherent == TimerSpec => []ReportCountsItsValues
  <1>1. TimerInv => ReportCountsItsValues
    BY DEF TimerInv, ReportInv, ReportCountsItsValues
  <1> QED
    BY <1>1, TimerInvariant, PTL

-----------------------------------------------------------------------------
(***************************************************************************)
(* The statistics that a report prints of a Snapshot with any values.      *)
(***************************************************************************)
Plus(x, y) == x + y
Pick(s) == CHOOSE x \in s : TRUE
Sums == INSTANCE FoldLemmas WITH Op <- Plus, Choice <- Pick

(* The first n of s are numbers, in ascending order.                        *)
NumbersTo(s, n) == \A i \in 1 .. n : s[i] \in Int
AscendingTo(s, n) == \A i, j \in 1 .. n : i <= j => s[i] <= s[j]
Ascending(s) == AscendingTo(s, Len(s))

(* The inductive invariant of Snapshot.                                     *)
SnapshotInv == values_ \in Seq(Values) /\ Ascending(values_)

-----------------------------------------------------------------------------
(* A finite set is finite for the instance too.                             *)
LEMMA FiniteInSums == ASSUME NEW S, IsFiniteSet(S) PROVE Sums!IsFiniteSet(S)
  BY DEF IsFiniteSet, Sums!IsFiniteSet

(* What holds up to a position holds at the first positions, as many as     *)
(* there are.                                                               *)
LEMMA FirstPositions ==
    ASSUME NEW n \in Nat, NEW S \in SUBSET (1 .. n),
           \A i, j \in 1 .. n : i <= j /\ j \in S => i \in S
    PROVE  Cardinality(S) \in 0 .. n /\ S = 1 .. Cardinality(S)
  <1>1. IsFiniteSet(S)
    <2>1. IsFiniteSet(1 .. n)
      BY FS_Interval
    <2> QED
      BY <2>1, FS_Subset
  <1>2. CASE S = {}
    BY <1>2, FS_EmptySet
  <1>3. CASE S # {}
    <2>1. \A x \in S : x \in Int
      OBVIOUS
    <2>2. PICK c \in S : \A y \in S : c >= y
      BY <1>1, <1>3, <2>1, FiniteInSums, Sums!GreatestExists
    <2>3. c \in 1 .. n
      BY <2>2
    <2>4. \A i \in S : i \in 1 .. c
      BY <2>1, <2>2, <2>3
    <2>5. ASSUME NEW i \in 1 .. c PROVE i \in S
      <3>1. i \in 1 .. n /\ i <= c
        BY <2>3
      <3> QED
        BY <2>2, <2>3, <3>1
    <2>6. S = 1 .. c
      BY <2>4, <2>5
    <2>7. Cardinality(1 .. c) = c
      BY <2>3, FS_Interval
    <2>8. Cardinality(S) = c
      BY <2>6, <2>7
    <2> QED
      BY <2>3, <2>6, <2>8
  <1> QED
    BY <1>2, <1>3

(* A sequence has its elements.                                             *)
LEMMA Elements ==
    ASSUME NEW S, NEW s \in Seq(S)
    PROVE  Len(s) \in Nat /\ \A i \in 1 .. Len(s) : s[i] \in S
  OBVIOUS

(* t is a and then b.                                                       *)
Joins(t, a, b) ==
    /\ Len(t) = Len(a) + Len(b)
    /\ \A i \in 1 .. Len(a) : t[i] = a[i]
    /\ \A i \in 1 .. Len(b) : t[Len(a) + i] = b[i]

LEMMA Concatenated ==
    ASSUME NEW S, NEW a \in Seq(S), NEW b \in Seq(S)
    PROVE  a \o b \in Seq(S) /\ Joins(a \o b, a, b)
  BY DEF Joins

(* What is inserted is at its place, what was there or behind it comes next.*)
InsertedAt(t, s, n, p, e) ==
    /\ t[p] = e
    /\ \A i \in 1 .. p - 1 : t[i] = s[i]
    /\ \A i \in p .. n : t[i + 1] = s[i]

Inserting(s, p, e) == SubSeq(s, 1, p - 1) \o <<e>> \o SubSeq(s, p, Len(s))

LEMMA Inserted ==
    ASSUME NEW S, NEW s \in Seq(S), NEW p \in 1 .. Len(s) + 1, NEW e \in S,
           NEW t, t = Inserting(s, p, e)
    PROVE  /\ t \in Seq(S) /\ Len(t) = Len(s) + 1
           /\ InsertedAt(t, s, Len(s), p, e)
  <1>1. PICK a : a = SubSeq(s, 1, p - 1)
    OBVIOUS
  <1>2. PICK b : b = SubSeq(s, p, Len(s))
    OBVIOUS
  <1>3. a \in Seq(S) /\ Len(a) = p - 1 /\ \A i \in 1 .. p - 1 : a[i] = s[i]
    BY <1>1
  <1>4. /\ b \in Seq(S) /\ Len(b) = Len(s) - (p - 1)
        /\ \A i \in 1 .. Len(b) : b[i] = s[i + (p - 1)]
    BY <1>2
  <1>5. PICK c : c = a \o <<e>>
    OBVIOUS
  <1>6. /\ c \in Seq(S) /\ Len(c) = p /\ c[p] = e
        /\ \A i \in 1 .. p - 1 : c[i] = s[i]
    BY <1>3, <1>5
  <1>7. t = c \o b
    BY <1>1, <1>2, <1>5 DEF Inserting
  <1>8. /\ t \in Seq(S) /\ Len(t) = Len(c) + Len(b)
        /\ \A i \in 1 .. Len(c) : t[i] = c[i]
        /\ \A i \in 1 .. Len(b) : t[Len(c) + i] = b[i]
    <2>1. b \in Seq(S) /\ c \in Seq(S)
      BY <1>4, <1>6
    <2>2. t \in Seq(S) /\ Joins(t, c, b)
      BY <1>7, <2>1, Concatenated
    <2> QED
      BY <2>2 DEF Joins
  <1>9. Len(s) \in Nat
    OBVIOUS
  <1>10. Len(t) = Len(s) + 1
    BY <1>4, <1>6, <1>8, <1>9
  <1>11. t[p] = e /\ \A i \in 1 .. p - 1 : t[i] = s[i]
    BY <1>6, <1>8, <1>9
  <1>12. ASSUME NEW i \in p .. Len(s) PROVE t[i + 1] = s[i]
    <2>1. PICK j : j = i - (p - 1)
      OBVIOUS
    <2>2. j \in 1 .. Len(b) /\ p + j = i + 1 /\ j + (p - 1) = i
      BY <1>4, <1>9, <2>1
    <2>3. b[j] = s[i] /\ t[p + j] = b[j]
      BY <1>4, <1>6, <1>8, <2>2
    <2> QED
      BY <2>2, <2>3
  <1> QED
    BY <1>8, <1>10, <1>11, <1>12 DEF InsertedAt

(* A number inserted behind those that are not above it keeps the order.    *)
LEMMA InsertionIsAscending ==
    ASSUME NEW n \in Nat, NEW p \in 1 .. n + 1, NEW e \in Int, NEW s, NEW t,
           NumbersTo(s, n), AscendingTo(s, n), InsertedAt(t, s, n, p, e),
           \A i \in 1 .. n : i < p <=> s[i] <= e
    PROVE  AscendingTo(t, n + 1)
  <1>0. /\ \A i \in 1 .. n : s[i] \in Int
        /\ \A i, j \in 1 .. n : i <= j => s[i] <= s[j]
        /\ t[p] = e
        /\ \A i \in 1 .. p - 1 : t[i] = s[i]
        /\ \A i \in p .. n : t[i + 1] = s[i]
    BY DEF NumbersTo, AscendingTo, InsertedAt
  <1>1. ASSUME NEW i \in 1 .. n + 1, i < p
        PROVE  i \in 1 .. n /\ t[i] = s[i] /\ t[i] \in Int /\ t[i] <= e
    <2>1. i \in 1 .. n /\ i \in 1 .. p - 1
      BY <1>1
    <2> QED
      BY <1>0, <1>1, <2>1
  <1>2. ASSUME NEW i \in 1 .. n + 1, i > p
        PROVE  /\ i - 1 \in 1 .. n /\ t[i] = s[i - 1]
               /\ t[i] \in Int /\ t[i] > e
    <2>1. PICK j : j = i - 1
      OBVIOUS
    <2>2. j \in p .. n /\ j \in 1 .. n /\ i = j + 1 /\ ~(j < p)
      BY <1>2, <2>1
    <2>3. t[i] = s[j] /\ s[j] \in Int /\ ~(s[j] <= e)
      BY <1>0, <2>2
    <2> QED
      BY <2>1, <2>2, <2>3
  <1> SUFFICES ASSUME NEW i \in 1 .. n + 1, NEW j \in 1 .. n + 1, i <= j
               PROVE  t[i] <= t[j]
    BY DEF AscendingTo
  <1>3. CASE j < p
    <2>1. i < p
      BY <1>3
    <2>2. i \in 1 .. n /\ j \in 1 .. n /\ t[i] = s[i] /\ t[j] = s[j]
      BY <1>1, <1>3, <2>1
    <2> QED
      BY <1>0, <2>2
  <1>4. CASE j = p
    <2>1. i < p \/ i = p
      BY <1>4
    <2> QED
      BY <1>0, <1>1, <1>4, <2>1
  <1>5. CASE j > p /\ i > p
    <2>1. /\ i - 1 \in 1 .. n /\ j - 1 \in 1 .. n
          /\ t[i] = s[i - 1] /\ t[j] = s[j - 1]
      BY <1>2, <1>5
    <2>2. i - 1 <= j - 1
      OBVIOUS
    <2> QED
      BY <1>0, <2>1, <2>2
  <1>6. CASE j > p /\ ~(i > p)
    <2>1. i < p \/ i = p
      BY <1>6
    <2>2. t[i] \in Int /\ t[i] <= e
      BY <1>0, <1>1, <2>1
    <2>3. t[j] \in Int /\ t[j] > e
      BY <1>2, <1>6
    <2> QED
      BY <2>2, <2>3
  <1>7. j < p \/ j = p \/ j > p
    OBVIOUS
  <1> QED
    BY <1>3, <1>4, <1>5, <1>6, <1>7

(* Where std::sort has one more value, as Snapshot defines it.              *)
NotAbove(s, n, e) == {i \in 1 .. n : s[i] <= e}
PlaceIn(s, e) == Cardinality(NotAbove(s, Len(s), e)) + 1

(* The places before one.                                                   *)
LEMMA PlaceSplits ==
    ASSUME NEW n \in Nat, NEW c \in 0 .. n, NEW p, p = c + 1
    PROVE  p \in 1 .. n + 1 /\ \A i \in 1 .. n : i \in 1 .. c <=> i < p
  OBVIOUS

(* What Record() does keeps the order.                                      *)
LEMMA PlacedIsAscending ==
    ASSUME NEW S, \A v \in S : v \in Int,
           NEW s \in Seq(S), Ascending(s), NEW e \in S,
           NEW p, p = PlaceIn(s, e), NEW t, t = Inserting(s, p, e)
    PROVE  t \in Seq(S) /\ Ascending(t)
  <1>0. PICK n : n = Len(s)
    OBVIOUS
  <1>1. n = Len(s) /\ n \in Nat
    BY <1>0
  <1>2. n \in Nat /\ (\A i \in 1 .. n : s[i] \in Int) /\ e \in Int
    BY <1>1, Elements
  <1>3. \A i, j \in 1 .. n : i <= j => s[i] <= s[j]
    BY <1>1 DEF Ascending, AscendingTo
  <1>4. PICK A : A = NotAbove(s, n, e)
    OBVIOUS
  <1>5. ASSUME NEW i \in 1 .. n, NEW j \in 1 .. n, i <= j, j \in A
        PROVE  i \in A
    <2>1. s[i] <= s[j] /\ s[j] <= e /\ s[i] \in Int /\ s[j] \in Int
      BY <1>2, <1>3, <1>4, <1>5 DEF NotAbove
    <2> QED
      BY <1>2, <1>4, <2>1 DEF NotAbove
  <1>6. Cardinality(A) \in 0 .. n /\ A = 1 .. Cardinality(A)
    <2>1. A \in SUBSET (1 .. n)
      BY <1>4 DEF NotAbove
    <2> QED
      BY <1>2, <1>5, <2>1, FirstPositions
  <1>7. p = Cardinality(A) + 1
    BY <1>1, <1>4 DEF PlaceIn
  <1>8. p \in 1 .. n + 1 /\ \A i \in 1 .. n : i \in A <=> i < p
    <2>1. PICK c : c = Cardinality(A)
      OBVIOUS
    <2>2. c \in 0 .. n /\ A = 1 .. c /\ p = c + 1
      BY <1>6, <1>7, <2>1, Zenon
    <2>3. c \in 0 .. n /\ p = c + 1
      BY <2>2
    <2>4. p \in 1 .. n + 1 /\ \A i \in 1 .. n : i \in 1 .. c <=> i < p
      BY <1>1, <2>3, PlaceSplits, Zenon
    <2> QED
      BY <2>2, <2>4, Zenon
  <1>9. \A i \in 1 .. n : i < p <=> s[i] <= e
    BY <1>4, <1>8 DEF NotAbove
  <1>10. t \in Seq(S) /\ Len(t) = n + 1 /\ InsertedAt(t, s, n, p, e)
    <2>1. p \in 1 .. Len(s) + 1
      BY <1>1, <1>8
    <2>2. t \in Seq(S) /\ Len(t) = Len(s) + 1 /\ InsertedAt(t, s, Len(s), p, e)
      BY <2>1, Inserted
    <2> QED
      BY <1>1, <2>2
  <1>11. NumbersTo(s, n) /\ AscendingTo(s, n)
    BY <1>2, <1>3 DEF NumbersTo, AscendingTo
  <1>12. AscendingTo(t, n + 1)
    BY <1>2, <1>8, <1>9, <1>10, <1>11, InsertionIsAscending, Zenon
  <1> QED
    BY <1>10, <1>12 DEF Ascending

-----------------------------------------------------------------------------
(* Arithmetic: division rounds down, and products keep the order.           *)
Divided(x, d, q, r) == q \in Int /\ r \in 0 .. d - 1 /\ x = d * q + r

LEMMA Division ==
    ASSUME NEW x \in Int, NEW d \in Nat \ {0}
    PROVE  Divided(x, d, x \div d, x % d)
  BY DEF Divided

LEMMA TimesMonotone ==
    ASSUME NEW c \in Nat, NEW x \in Int, NEW y \in Int, x <= y
    PROVE  c * x \in Int /\ c * y \in Int /\ c * x <= c * y
  OBVIOUS

LEMMA TimesStrict ==
    ASSUME NEW c \in Nat \ {0}, NEW x \in Int, NEW y \in Int, c * x <= c * y
    PROVE  x <= y
  OBVIOUS

(* A value and the part rest \in 0 .. den of the way to the next: between.  *)
LEMMA Interpolation ==
    ASSUME NEW den \in Nat, NEW rest \in 0 .. den,
           NEW x \in Int, NEW y \in Int, x <= y
    PROVE  /\ den * x + rest * (y - x) \in Int
           /\ den * x <= den * x + rest * (y - x)
           /\ den * x + rest * (y - x) <= den * y
  <1>1. PICK d \in Nat : y = x + d
    <2>1. y - x \in Nat /\ y = x + (y - x)
      OBVIOUS
    <2> QED
      BY <2>1
  <1>2. y - x = d
    BY <1>1
  <1>3. den * y = den * x + den * d /\ den * x \in Int /\ den * d \in Int
    BY <1>1
  <1>4. rest * d \in Nat /\ rest * d <= den * d
    OBVIOUS
  <1> QED
    BY <1>2, <1>3, <1>4

(* Where the value of a quantile lies: at position k or between it and the  *)
(* next one, so far that rest parts of den are left of num * (n + 1).       *)
Lies(s, n, num, den, value, k, rest) ==
    /\ value \in Int /\ den * s[k] <= value
    /\ num * n <= den * k /\ den * k <= num * (n + 1)
    /\ k = n => value = den * s[n]
    /\ k < n => /\ value <= den * s[k + 1]
                /\ value = den * s[k] + rest * (s[k + 1] - s[k])
                /\ num * (n + 1) = den * k + rest

Interpolated(s, n, num, den) ==
    LET pos   == num * (n + 1)
        index == pos \div den
    IN  IF pos < den THEN den * s[1]
        ELSE IF pos >= den * n THEN den * s[n]
        ELSE den * s[index] + (pos % den) * (s[index + 1] - s[index])

(* What getValue() returns lies so.                                         *)
LEMMA ValueLies ==
    ASSUME NEW n \in Nat \ {0}, NEW s, NumbersTo(s, n), AscendingTo(s, n),
           NEW num \in Nat \ {0}, NEW den, den = num + 1,
           NEW value, value = Interpolated(s, n, num, den)
    PROVE  \E k \in 1 .. n, rest \in 0 .. num :
               Lies(s, n, num, den, value, k, rest)
  <1>0. /\ \A i \in 1 .. n : s[i] \in Int
        /\ \A i, j \in 1 .. n : i <= j => s[i] <= s[j]
    BY DEF NumbersTo, AscendingTo
  <1>1. den \in Nat \ {0}
    OBVIOUS
  <1>2. PICK part : part = num * n
    OBVIOUS
  <1>3. part \in Nat /\ part >= n /\ part >= num
    BY <1>2
  <1>4. PICK pos : pos = num * (n + 1)
    OBVIOUS
  <1>5. pos = part + num /\ pos \in Nat
    BY <1>2, <1>3, <1>4
  <1>6. den * n = part + n
    BY <1>2
  <1>7. ~(pos < den)
    BY <1>3, <1>5
  <1>8. PICK k : k = pos \div den
    OBVIOUS
  <1>9. PICK rest : rest = pos % den
    OBVIOUS
  <1>10. value = IF pos >= den * n THEN den * s[n]
                 ELSE den * s[k] + rest * (s[k + 1] - s[k])
    BY <1>4, <1>7, <1>8, <1>9, Zenon DEF Interpolated
  <1>11. CASE num >= n
    <2>1. pos >= den * n
      BY <1>3, <1>5, <1>6, <1>11
    <2>2. value = den * s[n]
      BY <1>10, <2>1
    <2>3. n \in 1 .. n /\ s[n] \in Int /\ ~(n < n)
      BY <1>0
    <2>4. den * s[n] \in Int /\ den * s[n] <= value /\ value \in Int
      BY <1>1, <2>2, <2>3
    <2>5. num * n <= den * n /\ den * n <= num * (n + 1)
      BY <1>2, <1>3, <1>4, <1>5, <1>6, <1>11
    <2>6. Lies(s, n, num, den, value, n, 0)
      BY <2>2, <2>3, <2>4, <2>5 DEF Lies
    <2>7. 0 \in 0 .. num
      OBVIOUS
    <2> QED
      BY <2>3, <2>6, <2>7
  <1>12. CASE ~(num >= n)
    <2>1. ~(pos >= den * n)
      BY <1>3, <1>5, <1>6, <1>12
    <2>2. value = den * s[k] + rest * (s[k + 1] - s[k])
      BY <1>10, <2>1
    <2>3. k \in Int /\ rest \in 0 .. num /\ pos = den * k + rest
      <3>1. pos \in Int
        BY <1>5
      <3>2. k \in Int /\ rest \in 0 .. den - 1 /\ pos = den * k + rest
        BY <1>1, <1>8, <1>9, <3>1, Division DEF Divided
      <3> QED
        BY <3>2
    <2>4. PICK m : m = den * k
      OBVIOUS
    <2>5. m \in Int /\ pos = m + rest /\ part <= m /\ m <= pos /\ m > 0
      BY <1>1, <1>3, <1>5, <2>3, <2>4
    <2>6. k < n
      <3>1. den * k < den * n
        BY <1>3, <1>5, <1>6, <1>12, <2>4, <2>5
      <3> QED
        BY <1>1, <2>3, <3>1
    <2>7. k > 0
      BY <1>1, <2>3, <2>4, <2>5
    <2>8. k \in 1 .. n /\ k + 1 \in 1 .. n
      BY <2>3, <2>6, <2>7
    <2>9. s[k] \in Int /\ s[k + 1] \in Int /\ s[k] <= s[k + 1]
      BY <1>0, <2>8
    <2>10. value \in Int /\ den * s[k] <= value /\ value <= den * s[k + 1]
      <3>1. rest \in 0 .. den
        BY <2>3
      <3> QED
        BY <1>1, <2>2, <2>9, <3>1, Interpolation
    <2>11. Lies(s, n, num, den, value, k, rest)
      <3>1. num * n <= den * k /\ den * k <= num * (n + 1)
        BY <1>2, <1>4, <2>4, <2>5
      <3>2. num * (n + 1) = den * k + rest
        BY <1>4, <2>3
      <3>3. ~(k = n)
        BY <2>3, <2>6
      <3> QED
        BY <2>2, <2>10, <3>1, <3>2, <3>3 DEF Lies
    <2> QED
      BY <2>3, <2>8, <2>11
  <1> QED
    BY <1>11, <1>12

(* It lies between the least and the greatest value.                        *)
LEMMA ValueInRange ==
    ASSUME NEW n \in Nat \ {0}, NEW s, NumbersTo(s, n), AscendingTo(s, n),
           NEW num \in Nat \ {0}, NEW den, den = num + 1,
           NEW value, NEW k \in 1 .. n, NEW rest \in 0 .. num,
           Lies(s, n, num, den, value, k, rest)
    PROVE  value \in den * s[1] .. den * s[n]
  <1>1. den \in Nat
    OBVIOUS
  <1>2. /\ s[1] \in Int /\ s[k] \in Int /\ s[n] \in Int
        /\ s[1] <= s[k] /\ s[k] <= s[n]
    BY DEF NumbersTo, AscendingTo
  <1>3. value \in Int /\ den * s[k] <= value
    BY DEF Lies
  <1>4. den * s[1] \in Int /\ den * s[k] \in Int /\ den * s[1] <= den * s[k]
    BY <1>1, <1>2, TimesMonotone
  <1>5. den * s[n] \in Int /\ value <= den * s[n]
    <2>1. CASE k = n
      BY <1>1, <1>2, <1>3, <2>1 DEF Lies
    <2>2. CASE k < n
      <3>1. value <= den * s[k + 1]
        BY <2>2 DEF Lies
      <3>2. s[k + 1] \in Int /\ s[k + 1] <= s[n]
        <4>1. k + 1 \in 1 .. n /\ n \in 1 .. n /\ k + 1 <= n
          BY <2>2
        <4> QED
          BY <4>1 DEF NumbersTo, AscendingTo
      <3>3. /\ den * s[k + 1] \in Int /\ den * s[n] \in Int
            /\ den * s[k + 1] <= den * s[n]
        BY <1>1, <1>2, <3>2, TimesMonotone
      <3> QED
        BY <1>3, <3>1, <3>3
    <2> QED
      BY <2>1, <2>2
  <1> QED
    BY <1>3, <1>4, <1>5

(* The values up to position k are not above it, those below it are there.  *)
LEMMA ValueSeparates ==
    ASSUME NEW n \in Nat \ {0}, NEW s, NumbersTo(s, n), AscendingTo(s, n),
           NEW num \in Nat \ {0}, NEW den, den = num + 1,
           NEW value, NEW k \in 1 .. n, NEW rest \in 0 .. num,
           Lies(s, n, num, den, value, k, rest)
    PROVE  /\ \A i \in 1 .. k : i \in 1 .. n /\ den * s[i] <= value
           /\ \A i \in 1 .. n : den * s[i] < value => i \in 1 .. k
  <1>1. den \in Nat /\ value \in Int
    BY DEF Lies
  <1>2. /\ \A i \in 1 .. n : s[i] \in Int
        /\ \A i, j \in 1 .. n : i <= j => s[i] <= s[j]
    BY DEF NumbersTo, AscendingTo
  <1>3. ASSUME NEW i \in 1 .. k
        PROVE  i \in 1 .. n /\ den * s[i] <= value
    <2>1. i \in 1 .. n /\ i <= k
      OBVIOUS
    <2>2. s[i] \in Int /\ s[k] \in Int /\ s[i] <= s[k]
      BY <1>2, <2>1
    <2>3. /\ den * s[i] \in Int /\ den * s[k] \in Int
          /\ den * s[i] <= den * s[k]
      BY <1>1, <2>2, TimesMonotone
    <2>4. den * s[k] <= value
      BY DEF Lies
    <2> QED
      BY <1>1, <2>1, <2>3, <2>4
  <1>4. ASSUME NEW i \in 1 .. n, den * s[i] < value, ~(i \in 1 .. k)
        PROVE  FALSE
    <2>1. k < n /\ k + 1 \in 1 .. n /\ k + 1 <= i
      BY <1>4
    <2>2. s[k + 1] \in Int /\ s[i] \in Int /\ s[k + 1] <= s[i]
      BY <1>2, <2>1
    <2>3. /\ den * s[k + 1] \in Int /\ den * s[i] \in Int
          /\ den * s[k + 1] <= den * s[i]
      BY <1>1, <2>2, TimesMonotone
    <2>4. value <= den * s[k + 1]
      BY <2>1 DEF Lies
    <2> QED
      BY <1>1, <1>4, <2>3, <2>4
  <1> QED
    BY <1>3, <1>4

(* How many values are at most it, and how many below it.                   *)
AtMost(s, n, den, value) == {i \in 1 .. n : den * s[i] <= value}
Below(s, n, den, value) == {i \in 1 .. n : den * s[i] < value}

LEMMA ValueIsQuantile ==
    ASSUME NEW n \in Nat \ {0}, NEW s, NumbersTo(s, n), AscendingTo(s, n),
           NEW num \in Nat \ {0}, NEW den, den = num + 1,
           NEW value, NEW k \in 1 .. n, NEW rest \in 0 .. num,
           Lies(s, n, num, den, value, k, rest),
           NEW atMost, atMost = AtMost(s, n, den, value),
           NEW below, below = Below(s, n, den, value)
    PROVE  /\ den * Cardinality(atMost) >= num * n
           /\ den * Cardinality(below) <= num * (n + 1)
  <1>1. /\ \A i \in 1 .. k : i \in 1 .. n /\ den * s[i] <= value
        /\ \A i \in 1 .. n : den * s[i] < value => i \in 1 .. k
    BY ValueSeparates
  <1>2. atMost \subseteq 1 .. n /\ 1 .. k \subseteq atMost /\ below \subseteq 1 .. k
    BY <1>1 DEF AtMost, Below
  <1>3. IsFiniteSet(1 .. n)
    BY FS_Interval
  <1>4. IsFiniteSet(1 .. k) /\ Cardinality(1 .. k) = k
    BY FS_Interval
  <1>5. IsFiniteSet(atMost) /\ IsFiniteSet(below)
    BY <1>2, <1>3, <1>4, FS_Subset
  <1>6. k <= Cardinality(atMost) /\ Cardinality(below) <= k
    BY <1>2, <1>4, <1>5, FS_Subset
  <1>7. Cardinality(atMost) \in Nat /\ Cardinality(below) \in Nat
    BY <1>5, FS_CardinalityType
  <1>8. PICK a : a = Cardinality(atMost)
    OBVIOUS
  <1>9. PICK b : b = Cardinality(below)
    OBVIOUS
  <1>10. num * n <= den * k /\ den * k <= num * (n + 1)
    BY DEF Lies
  <1>11. a \in Nat /\ b \in Nat /\ k <= a /\ b <= k
    BY <1>6, <1>7, <1>8, <1>9
  <1>12. den * k <= den * a /\ den * b <= den * k
    <2>1. den \in Nat /\ k \in Int
      OBVIOUS
    <2> QED
      BY <1>11, <2>1, TimesMonotone
  <1>13. /\ den * a \in Int /\ den * b \in Int /\ den * k \in Int
         /\ num * n \in Int /\ num * (n + 1) \in Int
    BY <1>11
  <1>14. den * a >= num * n /\ den * b <= num * (n + 1)
    BY <1>10, <1>12, <1>13
  <1> QED
    BY <1>8, <1>9, <1>14

(* Of two quantiles the higher one has the higher denominator and does not  *)
(* lie lower.                                                               *)
LEMMA HigherLiesHigher ==
    ASSUME NEW n \in Nat \ {0}, NEW s, NumbersTo(s, n), AscendingTo(s, n),
           NEW num \in Nat \ {0}, NEW den, den = num + 1,
           NEW value, NEW k \in 1 .. n, NEW rest \in 0 .. num,
           Lies(s, n, num, den, value, k, rest),
           NEW num2 \in Nat \ {0}, NEW den2, den2 = num2 + 1,
           NEW value2, NEW k2 \in 1 .. n, NEW rest2 \in 0 .. num2,
           Lies(s, n, num2, den2, value2, k2, rest2),
           num <= num2
    PROVE  k <= k2 /\ (k = k2 /\ k < n => rest * den2 <= rest2 * den)
  <1>1. PICK pos : pos = num * (n + 1)
    OBVIOUS
  <1>2. PICK pos2 : pos2 = num2 * (n + 1)
    OBVIOUS
  <1>3. pos \in Nat /\ pos2 \in Nat /\ den \in Nat \ {0} /\ den2 \in Nat \ {0}
    BY <1>1, <1>2
  <1>4. pos * den2 <= pos2 * den
    <2>1. PICK a : a = num * num2
      OBVIOUS
    <2>2. a \in Int /\ num * den2 = a + num /\ num2 * den = a + num2
      BY <2>1
    <2>3. num * den2 <= num2 * den
      BY <2>2
    <2>4. /\ pos * den2 = (n + 1) * (num * den2)
          /\ pos2 * den = (n + 1) * (num2 * den)
      BY <1>1, <1>2
    <2>5. num * den2 \in Int /\ num2 * den \in Int /\ n + 1 \in Nat
      OBVIOUS
    <2> QED
      BY <2>3, <2>4, <2>5, TimesMonotone
  <1>5. den * k <= pos
    BY <1>1 DEF Lies
  <1>6. CASE k2 = n
    <2>1. k <= k2
      BY <1>6
    <2> QED
      BY <1>6, <2>1
  <1>7. CASE k2 < n
    <2>1. pos2 = den2 * k2 + rest2 /\ rest2 < den2
      BY <1>2, <1>7 DEF Lies
    <2>2. den2 * (den * k) <= pos * den2
      <3>1. den * k \in Int
        OBVIOUS
      <3>2. den2 * (den * k) <= den2 * pos
        BY <1>3, <1>5, <3>1, TimesMonotone
      <3> QED
        BY <1>3, <3>2
    <2>3. den2 * (den * k) = den * (den2 * k)
      BY <1>3
    <2>4. den * (den2 * k) <= den * pos2
      <3>1. /\ pos * den2 \in Int /\ pos2 * den \in Int
            /\ pos2 * den = den * pos2 /\ den2 * (den * k) \in Int
        BY <1>3
      <3> QED
        BY <1>4, <2>2, <2>3, <3>1
    <2>5. den2 * k <= pos2
      <3>1. den2 * k \in Int
        BY <1>3
      <3> QED
        BY <1>3, <2>4, <3>1, TimesStrict
    <2>6. k <= k2
      <3>1. ASSUME k2 + 1 <= k PROVE FALSE
        <4>1. den2 * (k2 + 1) <= den2 * k
          BY <1>3, <3>1, TimesMonotone
        <4>2. den2 * (k2 + 1) = den2 * k2 + den2
          BY <1>3
        <4>3. den2 * k2 \in Int /\ den2 * k \in Int
          BY <1>3
        <4> QED
          BY <1>3, <2>1, <2>5, <4>1, <4>2, <4>3
      <3> QED
        BY <3>1
    <2>7. ASSUME k = k2 PROVE rest * den2 <= rest2 * den
      <3>1. num * (n + 1) = den * k + rest
        BY <1>7, <2>7 DEF Lies
      <3>2. pos = den * k + rest /\ pos2 = den2 * k + rest2
        BY <1>1, <2>1, <2>7, <3>1
      <3>3. PICK c : c = den * (den2 * k)
        OBVIOUS
      <3>4. /\ pos * den2 = c + rest * den2
            /\ pos2 * den = c + rest2 * den
        BY <1>3, <3>2, <3>3
      <3>5. c \in Int /\ rest * den2 \in Int /\ rest2 * den \in Int
        BY <1>3, <3>3
      <3> QED
        BY <1>4, <3>4, <3>5
    <2> QED
      BY <2>6, <2>7
  <1> QED
    BY <1>6, <1>7

(* Both ways to multiply an interpolated value.                             *)
LEMMA PartsTimes ==
    ASSUME NEW a \in Int, NEW b \in Int, NEW x \in Int, NEW r \in Int,
           NEW d \in Int
    PROVE  (a * x + r * d) * b = a * (b * x) + d * (r * b)
  <1>1. (a * x + r * d) * b = (a * x) * b + (r * d) * b
    OBVIOUS
  <1> QED
    BY <1>1

(* The higher of two quantiles has no lower value.                          *)
LEMMA HigherIsNotLower ==
    ASSUME NEW n \in Nat \ {0}, NEW s, NumbersTo(s, n), AscendingTo(s, n),
           NEW num \in Nat \ {0}, NEW den, den = num + 1,
           NEW value, NEW k \in 1 .. n, NEW rest \in 0 .. num,
           Lies(s, n, num, den, value, k, rest),
           NEW num2 \in Nat \ {0}, NEW den2, den2 = num2 + 1,
           NEW value2, NEW k2 \in 1 .. n, NEW rest2 \in 0 .. num2,
           Lies(s, n, num2, den2, value2, k2, rest2),
           num <= num2
    PROVE  value * den2 <= value2 * den
  <1>1. k <= k2 /\ (k = k2 /\ k < n => rest * den2 <= rest2 * den)
    BY HigherLiesHigher
  <1>2. den \in Nat /\ den2 \in Nat /\ value \in Int /\ value2 \in Int
    BY DEF Lies
  <1>3. /\ \A i \in 1 .. n : s[i] \in Int
        /\ \A i, j \in 1 .. n : i <= j => s[i] <= s[j]
    BY DEF NumbersTo, AscendingTo
  <1>4. s[k] \in Int /\ s[k2] \in Int
    BY <1>3
  <1>5. CASE k = k2 /\ k = n
    <2>1. value = den * s[k] /\ value2 = den2 * s[k]
      BY <1>5 DEF Lies
    <2>2. value * den2 = value2 * den
      BY <1>2, <1>4, <2>1
    <2>3. value * den2 \in Int
      BY <1>2
    <2> QED
      BY <2>2, <2>3
  <1>6. CASE k = k2 /\ k < n
    <2>1. /\ value = den * s[k] + rest * (s[k + 1] - s[k])
          /\ value2 = den2 * s[k] + rest2 * (s[k + 1] - s[k])
      BY <1>6 DEF Lies
    <2>2. PICK d : d = s[k + 1] - s[k]
      OBVIOUS
    <2>3. d \in Nat
      <3>1. k + 1 \in 1 .. n /\ k <= k + 1
        BY <1>6
      <3>2. s[k + 1] \in Int /\ s[k] <= s[k + 1]
        BY <1>3, <3>1
      <3> QED
        BY <1>4, <2>2, <3>2
    <2>4. d * (rest * den2) <= d * (rest2 * den)
      <3>1. rest * den2 \in Int /\ rest2 * den \in Int
        BY <1>2
      <3> QED
        BY <1>1, <1>6, <2>3, <3>1, TimesMonotone
    <2>5. PICK c : c = den * (den2 * s[k])
      OBVIOUS
    <2>6. value = den * s[k] + rest * d /\ value2 = den2 * s[k] + rest2 * d
      BY <2>1, <2>2
    <2>7. value * den2 = c + d * (rest * den2)
      BY <1>2, <1>4, <2>3, <2>5, <2>6, PartsTimes
    <2>8. value2 * den = c + d * (rest2 * den)
      <3>1. value2 * den = den2 * (den * s[k]) + d * (rest2 * den)
        <4>1. den \in Int /\ den2 \in Int /\ rest2 \in Int /\ d \in Int
          BY <1>2, <2>3
        <4>2. (den2 * s[k] + rest2 * d) * den
                 = den2 * (den * s[k]) + d * (rest2 * den)
          BY <1>4, <4>1, PartsTimes
        <4> QED
          BY <2>6, <4>2
      <3>2. den2 * (den * s[k]) = c
        BY <1>2, <1>4, <2>5
      <3> QED
        BY <3>1, <3>2
    <2>9. /\ c \in Int /\ d * (rest * den2) \in Int
          /\ d * (rest2 * den) \in Int
      BY <1>2, <1>4, <2>3, <2>5
    <2> QED
      BY <2>4, <2>7, <2>8, <2>9
  <1>7. CASE k < k2
    <2>1. value <= den * s[k + 1]
      BY <1>7 DEF Lies
    <2>2. k + 1 \in 1 .. n /\ k + 1 <= k2
      BY <1>7
    <2>3. s[k + 1] \in Int /\ s[k + 1] <= s[k2]
      BY <1>3, <2>2
    <2>4. /\ den * s[k + 1] \in Int /\ den * s[k2] \in Int
          /\ den * s[k + 1] <= den * s[k2]
      BY <1>2, <1>4, <2>3, TimesMonotone
    <2>5. value <= den * s[k2]
      BY <1>2, <2>1, <2>4
    <2>6. den2 * s[k2] <= value2 /\ den2 * s[k2] \in Int
      BY <1>2, <1>4 DEF Lies
    <2>7. den2 * value <= den2 * (den * s[k2])
      BY <1>2, <2>4, <2>5, TimesMonotone
    <2>8. den * (den2 * s[k2]) <= den * value2
      BY <1>2, <2>6, TimesMonotone
    <2>9. den2 * (den * s[k2]) = den * (den2 * s[k2])
      BY <1>2, <1>4
    <2>10. /\ den2 * value \in Int /\ den * value2 \in Int
           /\ den * (den2 * s[k2]) \in Int
           /\ den2 * value = value * den2 /\ den * value2 = value2 * den
      BY <1>2, <1>4
    <2> QED
      BY <2>7, <2>8, <2>9, <2>10
  <1>8. k = k2 \/ k < k2
    BY <1>1
  <1> QED
    BY <1>5, <1>6, <1>7, <1>8

-----------------------------------------------------------------------------
(* Every snapshot has recorded numbers only, in ascending order: what       *)
(* Snapshot's constructor sorts, wherever the next value is placed.         *)
THEOREM SnapshotsAreAscending == SnapshotSpec => []SnapshotInv
  <1>1. \A v \in Values : v \in Int
    BY SnapshotAssumption
  <1>2. SnapshotInit => SnapshotInv
    BY DEF SnapshotInit, SnapshotInv, Ascending, AscendingTo
  <1>3. ASSUME SnapshotInv, [SnapshotNext]_values_ PROVE SnapshotInv'
    <2>1. CASE UNCHANGED values_
      BY <1>3, <2>1 DEF SnapshotInv, Ascending, AscendingTo
    <2>2. CASE Clear
      BY <2>2 DEF SnapshotInv, Ascending, AscendingTo, Clear
    <2>3. ASSUME NEW v \in Values, Record(v) PROVE SnapshotInv'
      <3>1. PICK t : t = values_'
        OBVIOUS
      <3>2. PICK n : n = PlaceIn(values_, v)
        OBVIOUS
      <3>3. n = Place(v)
        BY <3>2 DEF Place, size, PlaceIn, NotAbove
      <3>4. t = Inserting(values_, n, v)
        BY <2>3, <3>1, <3>3 DEF Record, InsertAt, Inserting
      <3>5. values_ \in Seq(Values) /\ Ascending(values_)
        BY <1>3 DEF SnapshotInv
      <3>6. t \in Seq(Values) /\ Ascending(t)
        BY <1>1, <3>2, <3>4, <3>5, PlacedIsAscending
      <3> QED
        BY <3>1, <3>6 DEF SnapshotInv, Ascending, AscendingTo
    <2> QED
      BY <1>3, <2>1, <2>2, <2>3 DEF SnapshotNext
  <1> QED
    BY <1>2, <1>3, PTL DEF SnapshotSpec

-----------------------------------------------------------------------------
(* The median and the percentiles are all of the form num / (num + 1), ...  *)
LEMMA QuantilesAreProper ==
    ASSUME NEW q \in Quantiles
    PROVE  q.num \in Nat \ {0} /\ q.den = q.num + 1
  <1>1. \/ q = [num |-> 1, den |-> 2]
        \/ q = [num |-> 3, den |-> 4]
        \/ q = [num |-> 19, den |-> 20]
        \/ q = [num |-> 49, den |-> 50]
        \/ q = [num |-> 99, den |-> 100]
        \/ q = [num |-> 999, den |-> 1000]
    BY DEF Quantiles, Fraction
  <1> QED
    BY <1>1

(* ... a snapshot that is not empty has interpolated values of them, ...    *)
LEMMA GetValueInterpolates ==
    ASSUME NEW q, NEW n, n = Len(values_), n # 0
    PROVE  getValue(q) = Interpolated(values_, n, q.num, q.den)
  BY DEF getValue, Position, size, Interpolated

(* ... and they are in the order of their numerators.                       *)
LEMMA InOrderOfNumerators ==
    ASSUME NEW a \in Nat, NEW b \in Nat, a * (b + 1) <= b * (a + 1)
    PROVE  a <= b
  <1>1. PICK c : c = a * b
    OBVIOUS
  <1>2. c \in Int /\ a * (b + 1) = c + a /\ b * (a + 1) = c + b
    BY <1>1
  <1> QED
    BY <1>2

(* For a snapshot of any length and any values, getMedian() and the         *)
(* percentiles of Snapshot have their share of the values at or below them  *)
(* and no more below them than their quantile gives, lie between getMin()   *)
(* and getMax(), and are in the order of their quantiles.                   *)
THEOREM PercentilesHold == SnapshotSpec => []PercentilesAreQuantiles
  <1>1. SnapshotInv => PercentilesAreQuantiles
    <2>1. SUFFICES ASSUME SnapshotInv, Len(values_) > 0
                   PROVE  PercentilesAreQuantiles
      BY DEF PercentilesAreQuantiles, size
    <2>2. PICK n : n = Len(values_)
      OBVIOUS
    <2>3. PICK s : s = values_
      OBVIOUS
    <2>4. s \in Seq(Values) /\ Ascending(s)
      BY <2>1, <2>3 DEF SnapshotInv
    <2>5. n \in Nat \ {0}
      BY <2>1, <2>2, <2>3, <2>4
    <2>6. NumbersTo(s, n) /\ AscendingTo(s, n)
      <3>1. \A i \in 1 .. n : s[i] \in Values
        BY <2>2, <2>3, <2>4, Elements
      <3>2. \A i \in 1 .. n : s[i] \in Int
        BY <3>1, SnapshotAssumption
      <3> QED
        BY <2>2, <2>3, <2>4, <3>2 DEF NumbersTo, Ascending
    <2>7. ASSUME NEW q \in Quantiles
          PROVE  \E k \in 1 .. n, rest \in 0 .. q.num :
                     Lies(s, n, q.num, q.den, getValue(q), k, rest)
      <3>1. q.num \in Nat \ {0} /\ q.den = q.num + 1
        BY QuantilesAreProper
      <3>2. getValue(q) = Interpolated(s, n, q.num, q.den)
        BY <2>2, <2>3, <2>5, GetValueInterpolates
      <3> QED
        BY <2>5, <2>6, <3>1, <3>2, ValueLies
    <2>8. ASSUME NEW q \in Quantiles,
                 NEW value, value = getValue(q),
                 NEW atMost, atMost = AtMost(s, n, q.den, value),
                 NEW below, below = Below(s, n, q.den, value)
          PROVE  /\ q.den * Cardinality(atMost) >= q.num * n
                 /\ q.den * Cardinality(below) <= q.num * (n + 1)
                 /\ value \in q.den * s[1] .. q.den * s[n]
      <3>1. q.num \in Nat \ {0} /\ q.den = q.num + 1
        BY QuantilesAreProper
      <3>2. PICK k \in 1 .. n, rest \in 0 .. q.num :
                Lies(s, n, q.num, q.den, value, k, rest)
        BY <2>7, <2>8
      <3>3. /\ q.den * Cardinality(atMost) >= q.num * n
            /\ q.den * Cardinality(below) <= q.num * (n + 1)
        BY <2>5, <2>6, <2>8, <3>1, <3>2, ValueIsQuantile
      <3>4. value \in q.den * s[1] .. q.den * s[n]
        BY <2>5, <2>6, <3>1, <3>2, ValueInRange
      <3> QED
        BY <3>3, <3>4
    <2>9. ASSUME NEW q \in Quantiles, NEW r \in Quantiles,
                 q.num * r.den <= r.num * q.den
          PROVE  getValue(q) * r.den <= getValue(r) * q.den
      <3>1. /\ q.num \in Nat \ {0} /\ q.den = q.num + 1
            /\ r.num \in Nat \ {0} /\ r.den = r.num + 1
        BY QuantilesAreProper
      <3>2. q.num <= r.num
        BY <2>9, <3>1, InOrderOfNumerators
      <3>3. PICK k \in 1 .. n, rest \in 0 .. q.num :
                Lies(s, n, q.num, q.den, getValue(q), k, rest)
        BY <2>7
      <3>4. PICK k2 \in 1 .. n, rest2 \in 0 .. r.num :
                Lies(s, n, r.num, r.den, getValue(r), k2, rest2)
        BY <2>7
      <3> QED
        BY <2>5, <2>6, <3>1, <3>2, <3>3, <3>4, HigherIsNotLower
    <2>10. /\ size = n
           /\ getMin = s[1] /\ getMax = s[n]
      BY <2>2, <2>3, <2>5
         DEF size, getMin, getMax
    <2> QED
      BY <2>3, <2>8, <2>9, <2>10
         DEF PercentilesAreQuantiles, AtMost, Below
  <1> QED
    BY <1>1, SnapshotsAreAscending, PTL

-----------------------------------------------------------------------------
(* The sum of f over S; f has numbers there.                                *)
Total(f, S) == Sums!Folded(0, f, S)
NumbersOn(f, S) == \A x \in S : f[x] \in Int

(* A total is a number, and that of the other elements without any one.     *)
LEMMA TotalOfNone == ASSUME NEW f PROVE Total(f, {}) = 0
  BY Sums!FoldOfNone DEF Total

LEMMA TotalIsInt ==
    ASSUME NEW f, NEW S, IsFiniteSet(S), NumbersOn(f, S)
    PROVE  Total(f, S) \in Int
  <1>1. Sums!Chooses(S)
    BY DEF Sums!Chooses, Pick
  <1>2. Sums!Closed(0, f, S, Int)
    BY DEF Sums!Closed, Plus, NumbersOn
  <1> QED
    BY <1>1, <1>2, FiniteInSums, Sums!FoldType DEF Total

LEMMA TotalWithout ==
    ASSUME NEW f, NEW S, IsFiniteSet(S), NumbersOn(f, S), NEW x \in S
    PROVE  /\ f[x] \in Int /\ Total(f, S \ {x}) \in Int
           /\ Total(f, S) = f[x] + Total(f, S \ {x})
  <1>1. Sums!Chooses(S)
    BY DEF Sums!Chooses, Pick
  <1>2. Sums!Closed(0, f, S, Int)
    BY DEF Sums!Closed, Plus, NumbersOn
  <1>3. Sums!Commutes(f, S, Int)
    BY DEF Sums!Commutes, Plus, NumbersOn
  <1>4. Sums!Folded(0, f, S) = Plus(f[x], Sums!Folded(0, f, S \ {x}))
    BY <1>1, <1>2, <1>3, FiniteInSums, Sums!FoldWithout
  <1>5. IsFiniteSet(S \ {x}) /\ NumbersOn(f, S \ {x}) /\ f[x] \in Int
    BY FS_Subset DEF NumbersOn
  <1> QED
    BY <1>4, <1>5, TotalIsInt DEF Plus, Total

LEMMA TotalOfEqual ==
    ASSUME NEW f, NEW g, NEW S, IsFiniteSet(S), \A x \in S : f[x] = g[x]
    PROVE  Total(f, S) = Total(g, S)
  <1>1. Sums!Chooses(S)
    BY DEF Sums!Chooses, Pick
  <1> QED
    BY <1>1, FiniteInSums, Sums!FoldOfEqual DEF Total

(* One element more in a combination of two totals.                         *)
LEMMA LinearStep ==
    ASSUME NEW a \in Int, NEW b \in Int, NEW c \in Int,
           NEW x \in Int, NEW y \in Int, NEW X \in Int, NEW Y \in Int,
           NEW n \in Int
    PROVE  (a * x + b * y + c) + (a * X + b * Y + c * n)
             = a * (x + X) + b * (y + Y) + c * (n + 1)
  OBVIOUS

(* The total of a combination is the combination of the totals.             *)
Combined(h, f, g, a, b, c, S) ==
    \A x \in S : h[x] = a * f[x] + b * g[x] + c

LEMMA TotalIsLinear ==
    ASSUME NEW S, IsFiniteSet(S), NEW f, NEW g, NEW h,
           NumbersOn(f, S), NumbersOn(g, S),
           NEW a \in Int, NEW b \in Int, NEW c \in Int,
           Combined(h, f, g, a, b, c, S)
    PROVE  Total(h, S) = a * Total(f, S) + b * Total(g, S) + c * Cardinality(S)
  <1> DEFINE Ok(T) == Total(h, T) = a * Total(f, T) + b * Total(g, T)
                                       + c * Cardinality(T)
             Bad == {T \in SUBSET S : ~Ok(T)}
  <1>1. ASSUME Bad # {} PROVE FALSE
    <2>1. PICK T \in Bad : \A y \in Bad : y \subseteq T => y = T
      <3>1. Bad \in SUBSET SUBSET S
        OBVIOUS
      <3> HIDE DEF Bad
      <3> QED
        BY <1>1, <3>1, FiniteInSums, Sums!MinimalSubset
    <2>2. T \in SUBSET S /\ ~Ok(T)
      BY <2>1
    <2>3. T # {}
      <3>1. ASSUME T = {} PROVE Ok(T)
        <4>1. Total(h, T) = 0 /\ Total(f, T) = 0 /\ Total(g, T) = 0
          BY <3>1, TotalOfNone
        <4>2. Cardinality(T) = 0
          BY <3>1, FS_EmptySet
        <4> QED
          BY <4>1, <4>2
      <3> QED
        BY <2>2, <3>1
    <2>4. PICK p \in T : TRUE
      BY <2>3
    <2>5. PICK U : U = T \ {p}
      OBVIOUS
    <2>6. U \in SUBSET S /\ U \subseteq T /\ U # T
      BY <2>2, <2>4, <2>5
    <2>7. Ok(U)
      BY <2>1, <2>6
    <2>8. IsFiniteSet(T) /\ IsFiniteSet(U)
      BY <2>2, <2>6, FS_Subset
    <2>9. /\ NumbersOn(f, T) /\ NumbersOn(g, T) /\ NumbersOn(h, T)
          /\ h[p] = a * f[p] + b * g[p] + c
      <3>1. \A x \in T : /\ f[x] \in Int /\ g[x] \in Int
                         /\ h[x] = a * f[x] + b * g[x] + c
        BY <2>2 DEF NumbersOn, Combined
      <3>2. \A x \in T : h[x] \in Int
        BY <3>1
      <3> QED
        BY <2>4, <3>1, <3>2 DEF NumbersOn
    <2>10. /\ f[p] \in Int /\ Total(f, U) \in Int
           /\ Total(f, T) = f[p] + Total(f, U)
      BY <2>4, <2>5, <2>8, <2>9, TotalWithout
    <2>11. /\ g[p] \in Int /\ Total(g, U) \in Int
           /\ Total(g, T) = g[p] + Total(g, U)
      BY <2>4, <2>5, <2>8, <2>9, TotalWithout
    <2>12. /\ h[p] \in Int /\ Total(h, U) \in Int
           /\ Total(h, T) = h[p] + Total(h, U)
      BY <2>4, <2>5, <2>8, <2>9, TotalWithout
    <2>13. Cardinality(T) = Cardinality(U) + 1 /\ Cardinality(U) \in Nat
      <3>1. U \cup {p} = T /\ p \notin U
        BY <2>4, <2>5
      <3> QED
        BY <2>8, <3>1, FS_AddElement, FS_CardinalityType
    <2>14. Ok(T)
      <3>1. PICK m : m = Cardinality(U)
        OBVIOUS
      <3>2. PICK X : X = Total(f, U)
        OBVIOUS
      <3>3. PICK Y : Y = Total(g, U)
        OBVIOUS
      <3>4. Total(h, U) = a * X + b * Y + c * m
        BY <2>7, <3>1, <3>2, <3>3
      <3>5. m \in Int /\ X \in Int /\ Y \in Int
        BY <2>10, <2>11, <2>13, <3>1, <3>2, <3>3
      <3>6. (a * f[p] + b * g[p] + c) + (a * X + b * Y + c * m)
              = a * (f[p] + X) + b * (g[p] + Y) + c * (m + 1)
        BY <2>10, <2>11, <3>5, LinearStep
      <3> QED
        BY <2>9, <2>10, <2>11, <2>12, <2>13, <3>1, <3>2, <3>3, <3>4, <3>6
    <2> QED
      BY <2>2, <2>14
  <1>2. Ok(S)
    BY <1>1
  <1> QED
    BY <1>2

(* Functions that differ at one element only.                               *)
LEMMA TotalChanges ==
    ASSUME NEW S, IsFiniteSet(S), NEW f, NEW g, NumbersOn(f, S),
           NumbersOn(g, S), NEW x \in S, \A y \in S \ {x} : g[y] = f[y]
    PROVE  Total(g, S) - g[x] = Total(f, S) - f[x]
  <1>1. PICK U : U = S \ {x}
    OBVIOUS
  <1>2. IsFiniteSet(U)
    BY <1>1, FS_Subset
  <1>3. /\ f[x] \in Int /\ Total(f, U) \in Int
        /\ Total(f, S) = f[x] + Total(f, U)
    BY <1>1, TotalWithout
  <1>4. /\ g[x] \in Int /\ Total(g, U) \in Int
        /\ Total(g, S) = g[x] + Total(g, U)
    BY <1>1, TotalWithout
  <1>5. Total(f, U) = Total(g, U)
    BY <1>1, <1>2, TotalOfEqual
  <1> QED
    BY <1>3, <1>4, <1>5

(* Counting values and summing over positions.                              *)
At(s, T, v) == {i \in T : s[i] = v}
Weighted(s, T, V, g) == [v \in V |-> Cardinality(At(s, T, v)) * g[v]]
Along(s, T, g) == [i \in T |-> g[s[i]]]

LEMMA TotalByValue ==
    ASSUME NEW S, IsFiniteSet(S), NEW V, IsFiniteSet(V), NEW s, NEW g,
           \A i \in S : s[i] \in V, NumbersOn(g, V)
    PROVE  Total(Weighted(s, S, V, g), V) = Total(Along(s, S, g), S)
  <1> DEFINE Ok(T) == Total(Weighted(s, T, V, g), V) = Total(Along(s, T, g), T)
             Bad == {T \in SUBSET S : ~Ok(T)}
  <1>0. ASSUME NEW T \in SUBSET S
        PROVE  /\ IsFiniteSet(T)
               /\ NumbersOn(Weighted(s, T, V, g), V)
               /\ NumbersOn(Along(s, T, g), T)
    <2>1. IsFiniteSet(T)
      BY FS_Subset
    <2>2. ASSUME NEW v \in V PROVE Weighted(s, T, V, g)[v] \in Int
      <3>1. Weighted(s, T, V, g)[v] = Cardinality(At(s, T, v)) * g[v]
        BY DEF Weighted
      <3>2. IsFiniteSet(At(s, T, v))
        BY <2>1, FS_Subset DEF At
      <3>3. Cardinality(At(s, T, v)) \in Nat /\ g[v] \in Int
        BY <3>2, FS_CardinalityType DEF NumbersOn
      <3> QED
        BY <3>1, <3>3
    <2>3. ASSUME NEW i \in T PROVE Along(s, T, g)[i] \in Int
      BY DEF Along, NumbersOn
    <2> QED
      BY <2>1, <2>2, <2>3 DEF NumbersOn
  <1>1. ASSUME Bad # {} PROVE FALSE
    <2>1. PICK T \in Bad : \A y \in Bad : y \subseteq T => y = T
      <3>1. Bad \in SUBSET SUBSET S
        OBVIOUS
      <3> HIDE DEF Bad
      <3> QED
        BY <1>1, <3>1, FiniteInSums, Sums!MinimalSubset
    <2>2. T \in SUBSET S /\ ~Ok(T)
      BY <2>1
    <2>3. T # {}
      <3>1. ASSUME T = {} PROVE Ok(T)
        <4>1. Total(Along(s, T, g), T) = 0
          BY <3>1, TotalOfNone
        <4>2. PICK w : w = Weighted(s, T, V, g)
          OBVIOUS
        <4>3. NumbersOn(g, V) /\ NumbersOn(w, V)
          BY <1>0, <2>2, <4>2
        <4>4. \A v \in V : w[v] = 0
          <5>1. \A v \in V : At(s, T, v) = {}
            BY <3>1 DEF At
          <5>2. \A v \in V : Cardinality(At(s, T, v)) = 0
            BY <5>1, FS_EmptySet
          <5>3. \A v \in V : w[v] = 0 * g[v]
            BY <4>2, <5>2 DEF Weighted
          <5> QED
            BY <4>3, <5>3 DEF NumbersOn
        <4>5. Combined(w, g, g, 0, 0, 0, V)
          BY <4>3, <4>4 DEF Combined, NumbersOn
        <4>6. Total(w, V) = 0 * Total(g, V) + 0 * Total(g, V)
                              + 0 * Cardinality(V)
          BY <4>3, <4>5, TotalIsLinear
        <4>7. Total(g, V) \in Int /\ Cardinality(V) \in Nat
          BY TotalIsInt, FS_CardinalityType
        <4>8. Total(w, V) = 0
          BY <4>6, <4>7
        <4> QED
          BY <4>1, <4>2, <4>8
      <3> QED
        BY <2>2, <3>1
    <2>4. PICK p \in T : TRUE
      BY <2>3
    <2>5. PICK U : U = T \ {p}
      OBVIOUS
    <2>6. U \in SUBSET S /\ U \subseteq T /\ U # T
      BY <2>2, <2>4, <2>5
    <2>7. Ok(U)
      BY <2>1, <2>6
    <2>8. PICK wT : wT = Weighted(s, T, V, g)
      OBVIOUS
    <2>9. PICK wU : wU = Weighted(s, U, V, g)
      OBVIOUS
    <2>10. PICK x : x = s[p]
      OBVIOUS
    <2>11. x \in V /\ g[x] \in Int
      BY <2>2, <2>4, <2>10 DEF NumbersOn
    <2>12. \A y \in V \ {x} : wU[y] = wT[y]
      <3>1. \A y \in V \ {x} : At(s, U, y) = At(s, T, y)
        BY <2>5, <2>10 DEF At
      <3> QED
        BY <2>8, <2>9, <3>1 DEF Weighted
    <2>13. wT[x] = wU[x] + g[x]
      <3>1. PICK A : A = At(s, U, x)
        OBVIOUS
      <3>2. p \notin A /\ At(s, T, x) = A \cup {p}
        BY <2>4, <2>5, <2>10, <3>1 DEF At
      <3>3. IsFiniteSet(A)
        <4>1. IsFiniteSet(U)
          BY <1>0, <2>6
        <4> QED
          BY <3>1, <4>1, FS_Subset DEF At
      <3>4. PICK m : m = Cardinality(A)
        OBVIOUS
      <3>5. m \in Nat /\ Cardinality(At(s, T, x)) = m + 1
        BY <3>2, <3>3, <3>4, FS_AddElement, FS_CardinalityType
      <3>6. wT[x] = (m + 1) * g[x] /\ wU[x] = m * g[x]
        BY <2>8, <2>9, <2>11, <3>1, <3>4, <3>5 DEF Weighted
      <3> QED
        BY <2>11, <3>5, <3>6
    <2>14. NumbersOn(wT, V) /\ NumbersOn(wU, V)
      BY <1>0, <2>2, <2>6, <2>8, <2>9
    <2>15. Total(wT, V) = Total(wU, V) + g[x]
      <3>1. Total(wU, V) - wU[x] = Total(wT, V) - wT[x]
        BY <2>11, <2>12, <2>14, TotalChanges
      <3>2. Total(wU, V) \in Int /\ Total(wT, V) \in Int
        BY <2>14, TotalIsInt
      <3>3. wU[x] \in Int
        BY <2>11, <2>14 DEF NumbersOn
      <3> QED
        BY <2>11, <2>13, <3>1, <3>2, <3>3
    <2>16. Total(Along(s, T, g), T) = g[x] + Total(Along(s, U, g), U)
      <3>1. PICK f : f = Along(s, T, g)
        OBVIOUS
      <3>2. IsFiniteSet(T) /\ NumbersOn(f, T) /\ IsFiniteSet(U)
        BY <1>0, <2>2, <2>6, <3>1
      <3>3. Total(f, T) = f[p] + Total(f, U)
        BY <2>4, <2>5, <3>2, TotalWithout
      <3>4. f[p] = g[x]
        BY <2>4, <2>10, <3>1 DEF Along
      <3>5. Total(f, U) = Total(Along(s, U, g), U)
        <4>1. \A y \in U : f[y] = Along(s, U, g)[y]
          BY <2>6, <3>1 DEF Along
        <4> QED
          BY <3>2, <4>1, TotalOfEqual
      <3> QED
        BY <3>1, <3>3, <3>4, <3>5
    <2>17. Total(wU, V) \in Int
      BY <2>14, TotalIsInt
    <2>18. Total(wT, V) = Total(Along(s, T, g), T)
      BY <2>7, <2>9, <2>11, <2>15, <2>16, <2>17
    <2> QED
      BY <2>2, <2>8, <2>18
  <1>2. Ok(S)
    BY <1>1
  <1> QED
    BY <1>2

-----------------------------------------------------------------------------
(* The square of a difference, as a combination.                            *)
LEMMA SquareOf ==
    ASSUME NEW x \in Int, NEW y \in Int
    PROVE  (x - y) * (x - y) = 1 * (y * y) + (-2 * x) * y + x * x
  <1>1. (x - y) * (x - y) = x * x - (2 * x) * y + y * y
    OBVIOUS
  <1> QED
    BY <1>1

Squares(s, P) == [i \in P |-> s[i] * s[i]]

LEMMA SquaresAreNumbers ==
    ASSUME NEW P, NEW s, NumbersOn(s, P)
    PROVE  /\ NumbersOn(Squares(s, P), P)
           /\ \A i \in P : s[i] \in Int /\ Squares(s, P)[i] = s[i] * s[i]
  BY DEF NumbersOn, Squares

(* The squared differences of all values from one, ...                      *)
LEMMA DifferencesFromOne ==
    ASSUME NEW P, IsFiniteSet(P), NEW s, NumbersOn(s, P), NEW v \in Int, NEW h,
           \A i \in P : h[i] = (v - s[i]) * (v - s[i])
    PROVE  Total(h, P) = 1 * Total(Squares(s, P), P)
                           + (-2 * v) * Total(s, P) + (v * v) * Cardinality(P)
  <1>1. PICK sq : sq = Squares(s, P)
    OBVIOUS
  <1>2. /\ NumbersOn(sq, P)
        /\ \A i \in P : s[i] \in Int /\ sq[i] = s[i] * s[i]
    BY <1>1, SquaresAreNumbers
  <1>3. ASSUME NEW i \in P
        PROVE  h[i] = 1 * sq[i] + (-2 * v) * s[i] + v * v
    BY <1>2, SquareOf
  <1>4. Combined(h, sq, s, 1, -2 * v, v * v, P)
    BY <1>3 DEF Combined
  <1>5. 1 \in Int /\ -2 * v \in Int /\ v * v \in Int
    OBVIOUS
  <1> QED
    BY <1>1, <1>2, <1>4, <1>5, TotalIsLinear

(* ... from the mean, n times as large, ...                                 *)
SquaredFromMean(h, s, n, m, P) ==
    \A i \in P : h[i] = (n * s[i] - m) * (n * s[i] - m)

LEMMA DifferencesFromMean ==
    ASSUME NEW P, IsFiniteSet(P), NEW s, NumbersOn(s, P), NEW n \in Int,
           NEW m \in Int, NEW h, SquaredFromMean(h, s, n, m, P)
    PROVE  Total(h, P) = (n * n) * Total(Squares(s, P), P)
                           + (-2 * (n * m)) * Total(s, P)
                           + (m * m) * Cardinality(P)
  <1>1. PICK sq : sq = Squares(s, P)
    OBVIOUS
  <1>2. /\ NumbersOn(sq, P)
        /\ \A i \in P : s[i] \in Int /\ sq[i] = s[i] * s[i]
    BY <1>1, SquaresAreNumbers
  <1>3. ASSUME NEW i \in P
        PROVE  h[i] = (n * n) * sq[i] + (-2 * (n * m)) * s[i] + m * m
    <2>1. PICK x : x = s[i]
      OBVIOUS
    <2>2. x \in Int /\ sq[i] = x * x /\ h[i] = (n * x - m) * (n * x - m)
      BY <1>2, <2>1 DEF SquaredFromMean
    <2>3. (n * x - m) * (n * x - m)
             = (n * n) * (x * x) + (-2 * (n * m)) * x + m * m
      <3>1. PICK y : y = n * x
        OBVIOUS
      <3>2. y \in Int /\ y * y = (n * n) * (x * x) /\ m * y = (n * m) * x
        BY <2>2, <3>1
      <3>3. (y - m) * (y - m) = y * y - 2 * (m * y) + m * m
        BY <3>2
      <3>4. (-2 * (n * m)) * x = -2 * (m * y)
        BY <2>2, <3>2
      <3>5. y * y \in Int /\ m * y \in Int /\ m * m \in Int
        BY <3>2
      <3> QED
        BY <3>1, <3>2, <3>3, <3>4, <3>5
    <2> QED
      BY <2>1, <2>2, <2>3
  <1>4. Combined(h, sq, s, n * n, -2 * (n * m), m * m, P)
    BY <1>3 DEF Combined
  <1>5. n * n \in Int /\ -2 * (n * m) \in Int /\ m * m \in Int
    OBVIOUS
  <1> QED
    BY <1>1, <1>2, <1>4, <1>5, TotalIsLinear

(* ... and of all pairs, grouped by their values.                           *)
Occurring(s, P, v) == Cardinality(At(s, P, v))
Pairs(s, P, V) ==
    [v \in V |->
        Total([w \in V |-> Occurring(s, P, v) * Occurring(s, P, w)
                             * ((v - w) * (v - w))], V)]

LEMMA DifferencesOfPairs ==
    ASSUME NEW P, IsFiniteSet(P), NEW V, IsFiniteSet(V), \A v \in V : v \in Int,
           NEW s, \A i \in P : s[i] \in V
    PROVE  Total(Pairs(s, P, V), V)
             = Cardinality(P) * Total(Squares(s, P), P)
                 + (-2 * Total(s, P)) * Total(s, P)
                 + Total(Squares(s, P), P) * Cardinality(P)
  <1>1. PICK sq : sq = Squares(s, P)
    OBVIOUS
  <1>2. PICK S1 : S1 = Total(s, P)
    OBVIOUS
  <1>3. PICK S2 : S2 = Total(sq, P)
    OBVIOUS
  <1>4. PICK n : n = Cardinality(P)
    OBVIOUS
  <1>5. NumbersOn(s, P)
    BY DEF NumbersOn
  <1>6. /\ NumbersOn(sq, P)
        /\ \A i \in P : s[i] \in Int /\ sq[i] = s[i] * s[i]
    BY <1>1, <1>5, SquaresAreNumbers
  <1>7. S1 \in Int /\ S2 \in Int /\ n \in Int
    BY <1>2, <1>3, <1>4, <1>5, <1>6, TotalIsInt, FS_CardinalityType
  <1>8. PICK G : G = [v \in V |-> 1 * S2 + (-2 * v) * S1 + (v * v) * n]
    OBVIOUS
  <1>9. NumbersOn(G, V)
    <2>1. \A v \in V : 1 * S2 + (-2 * v) * S1 + (v * v) * n \in Int
      BY <1>7
    <2> QED
      BY <1>8, <2>1 DEF NumbersOn
  <1>10. ASSUME NEW v \in V
         PROVE  Pairs(s, P, V)[v] = Weighted(s, P, V, G)[v]
    <2>1. PICK o : o = Occurring(s, P, v)
      OBVIOUS
    <2>2. o \in Int
      <3>1. IsFiniteSet(At(s, P, v))
        BY FS_Subset DEF At
      <3> QED
        BY <2>1, <3>1, FS_CardinalityType DEF Occurring
    <2>3. PICK g : g = [w \in V |-> (v - w) * (v - w)]
      OBVIOUS
    <2>4. NumbersOn(g, V)
      BY <2>3 DEF NumbersOn
    <2>5. PICK h : h = [w \in V |-> o * Occurring(s, P, w)
                                      * ((v - w) * (v - w))]
      OBVIOUS
    <2>6. PICK k : k = Weighted(s, P, V, g)
      OBVIOUS
    <2>7. \A w \in V : k[w] \in Int /\ h[w] = o * k[w]
      <3>1. SUFFICES ASSUME NEW w \in V
                     PROVE  k[w] \in Int /\ h[w] = o * k[w]
        OBVIOUS
      <3>2. PICK a : a = Occurring(s, P, w)
        OBVIOUS
      <3>3. a \in Int
        <4>1. IsFiniteSet(At(s, P, w))
          BY FS_Subset DEF At
        <4> QED
          BY <3>2, <4>1, FS_CardinalityType DEF Occurring
      <3>4. PICK d : d = (v - w) * (v - w)
        OBVIOUS
      <3>5. d \in Int
        BY <3>4
      <3>6. k[w] = a * d /\ h[w] = o * a * d
        BY <2>3, <2>5, <2>6, <3>2, <3>4 DEF Weighted, Occurring
      <3> QED
        BY <2>2, <3>3, <3>5, <3>6
    <2>8. NumbersOn(k, V) /\ Combined(h, k, k, o, 0, 0, V)
      BY <2>2, <2>7 DEF NumbersOn, Combined
    <2>9. Total(h, V) = o * Total(k, V) + 0 * Total(k, V) + 0 * Cardinality(V)
      BY <2>2, <2>8, TotalIsLinear
    <2>10. Total(k, V) \in Int /\ Cardinality(V) \in Int
      BY <2>8, TotalIsInt, FS_CardinalityType
    <2>11. Total(h, V) = o * Total(k, V)
      BY <2>2, <2>9, <2>10
    <2>12. Total(k, V) = Total(Along(s, P, g), P)
      BY <2>4, <2>6, TotalByValue
    <2>13. Total(Along(s, P, g), P) = 1 * S2 + (-2 * v) * S1 + (v * v) * n
      <3>1. PICK f : f = Along(s, P, g)
        OBVIOUS
      <3>2. \A i \in P : f[i] = (v - s[i]) * (v - s[i])
        BY <2>3, <3>1 DEF Along
      <3>3. v \in Int
        OBVIOUS
      <3> QED
        BY <1>1, <1>2, <1>3, <1>4, <1>5, <3>1, <3>2, <3>3, DifferencesFromOne
    <2>14. Total(k, V) = G[v]
      BY <1>8, <2>12, <2>13
    <2>15. Pairs(s, P, V)[v] = Total(h, V)
      BY <2>1, <2>5 DEF Pairs
    <2>16. Weighted(s, P, V, G)[v] = o * G[v]
      BY <2>1 DEF Weighted, Occurring
    <2> QED
      BY <2>11, <2>14, <2>15, <2>16
  <1>11. Total(Pairs(s, P, V), V) = Total(Along(s, P, G), P)
    <2>1. Total(Pairs(s, P, V), V) = Total(Weighted(s, P, V, G), V)
      BY <1>10, TotalOfEqual
    <2>2. Total(Weighted(s, P, V, G), V) = Total(Along(s, P, G), P)
      BY <1>9, TotalByValue
    <2> QED
      BY <2>1, <2>2
  <1>12. PICK f : f = Along(s, P, G)
    OBVIOUS
  <1>13. ASSUME NEW i \in P
         PROVE  f[i] = n * sq[i] + (-2 * S1) * s[i] + S2
    <2>1. f[i] = 1 * S2 + (-2 * s[i]) * S1 + (s[i] * s[i]) * n
      BY <1>8, <1>12 DEF Along
    <2>2. PICK x : x = s[i]
      OBVIOUS
    <2>3. x \in Int /\ sq[i] = x * x
      BY <1>6, <2>2
    <2>4. 1 * S2 + (-2 * x) * S1 + (x * x) * n
             = n * (x * x) + (-2 * S1) * x + S2
      BY <1>7, <2>3
    <2> QED
      BY <2>1, <2>2, <2>3, <2>4
  <1>14. Combined(f, sq, s, n, -2 * S1, S2, P)
    BY <1>13 DEF Combined
  <1>15. -2 * S1 \in Int
    BY <1>7
  <1>16. Total(f, P) = n * Total(sq, P) + (-2 * S1) * Total(s, P)
                         + S2 * Cardinality(P)
    BY <1>5, <1>6, <1>7, <1>14, <1>15, TotalIsLinear
  <1> QED
    BY <1>1, <1>2, <1>3, <1>4, <1>11, <1>12, <1>16

-----------------------------------------------------------------------------
(* The sums of Snapshot are totals.                                         *)
LEMMA SumIsTotal ==
    ASSUME NEW f PROVE SumFunction(f) = Total(f, DOMAIN f)
  BY DEF SumFunction, SumFunctionOnSet,
         FoldFunctionOnSet, MapThenFoldSet, Total,
         Sums!Folded, Sums!FoldFrom, Sums!IsFold, Plus, Pick

(* Both sides of SpreadIsPairwise, of the mean, n, the sum and the sum of   *)
(* squares.                                                                 *)
LEMMA SpreadsAgree ==
    ASSUME NEW n \in Int, NEW x \in Int, NEW y \in Int
    PROVE  2 * n * (n - 1) * ((n * n) * y + (-2 * (n * x)) * x + (x * x) * n)
             = (n * n * (n - 1)) * (n * y + (-2 * x) * x + y * n)
  <1>1. PICK e : e = n * y - x * x
    OBVIOUS
  <1>2. PICK z : z = x * x
    OBVIOUS
  <1>3. z \in Int /\ e \in Int /\ e = n * y - z
    BY <1>1, <1>2
  <1>4. n * y + (-2 * x) * x + y * n = 2 * e
    <2>1. (-2 * x) * x = -2 * z /\ y * n = n * y /\ n * y \in Int
      BY <1>2
    <2> QED
      BY <1>3, <2>1
  <1>5. (n * n) * y + (-2 * (n * x)) * x + (x * x) * n = n * e
    <2>1. /\ (-2 * (n * x)) * x = -2 * (n * z) /\ (x * x) * n = n * z
          /\ (n * n) * y = n * (n * y)
      BY <1>2
    <2>2. n * (n * y - z) = n * (n * y) - n * z
      BY <1>3
    <2>3. n * (n * y) \in Int /\ n * z \in Int
      BY <1>3
    <2> QED
      BY <1>3, <2>1, <2>2, <2>3
  <1>6. PICK c : c = n * (n - 1)
    OBVIOUS
  <1>7. c \in Int /\ 2 * n * (n - 1) = 2 * c /\ n * n * (n - 1) = n * c
    BY <1>6
  <1>8. (2 * c) * (n * e) = (n * c) * (2 * e)
    BY <1>3, <1>7
  <1> QED
    BY <1>4, <1>5, <1>7, <1>8

(* The square of getStdDev() is half the mean squared difference of two     *)
(* different values of the snapshot, for any values and any mean, whole or  *)
(* not: the variance is the unbiased one.                                   *)
THEOREM SpreadHolds == SnapshotSpec => []SpreadIsPairwise
  <1>1. SnapshotInv => SpreadIsPairwise
    <2>1. SUFFICES ASSUME SnapshotInv, Len(values_) > 1
                   PROVE  SpreadIsPairwise
      BY DEF SpreadIsPairwise, size
    <2>2. PICK n : n = Len(values_)
      OBVIOUS
    <2>3. PICK s : s = values_
      OBVIOUS
    <2>4. PICK P : P = 1 .. n
      OBVIOUS
    <2>5. s \in Seq(Values)
      BY <2>1, <2>3 DEF SnapshotInv
    <2>6. n \in Nat /\ n > 1 /\ (\A i \in P : s[i] \in Values) /\ DOMAIN s = P
      BY <2>1, <2>2, <2>3, <2>4, <2>5
    <2>7. IsFiniteSet(Values) /\ \A v \in Values : v \in Int
      BY SnapshotAssumption
    <2>8. IsFiniteSet(P) /\ Cardinality(P) = n
      BY <2>4, <2>6, FS_Interval
    <2>9. NumbersOn(s, P)
      BY <2>6, <2>7 DEF NumbersOn
    <2>10. PICK m : m = Total(s, P)
      OBVIOUS
    <2>11. PICK y : y = Total(Squares(s, P), P)
      OBVIOUS
    <2>12. m \in Int /\ y \in Int
      BY <2>8, <2>9, <2>10, <2>11, SquaresAreNumbers, TotalIsInt
    <2>13. getMean = [num |-> m, den |-> n]
      <3>1. sum = m
        BY <2>3, <2>6, <2>10, SumIsTotal DEF sum
      <3> QED
        BY <2>2, <2>6, <3>1 DEF getMean, size, Fraction
    <2>14. PICK h : h = [i \in P |-> (n * s[i] - m) * (n * s[i] - m)]
      OBVIOUS
    <2>15. Variance = [num |-> Total(h, P), den |-> n * n * (n - 1)]
      <3>1. SumFunction(h) = Total(h, P)
        BY <2>14, SumIsTotal
      <3>2. ~(n <= 1)
        BY <2>6
      <3> QED
        BY <2>2, <2>3, <2>4, <2>13, <2>14, <3>1, <3>2
           DEF Variance, size, Fraction
    <2>16. Total(h, P) = (n * n) * y + (-2 * (n * m)) * m + (m * m) * n
      <3>1. SquaredFromMean(h, s, n, m, P)
        BY <2>14 DEF SquaredFromMean
      <3>2. n \in Int
        BY <2>6
      <3>3. Total(h, P) = (n * n) * Total(Squares(s, P), P)
                            + (-2 * (n * m)) * Total(s, P)
                            + (m * m) * Cardinality(P)
        BY <2>8, <2>9, <2>12, <3>1, <3>2, DifferencesFromMean
      <3> QED
        BY <2>8, <2>10, <2>11, <3>3
    <2>17. Total(Pairs(s, P, Values), Values) = n * y + (-2 * m) * m + y * n
      BY <2>6, <2>7, <2>8, <2>10, <2>11, DifferencesOfPairs
    <2>18. 2 * n * (n - 1) * Total(h, P)
             = (n * n * (n - 1)) * Total(Pairs(s, P, Values), Values)
      <3>1. n \in Int
        BY <2>6
      <3> QED
        BY <2>12, <2>16, <2>17, <3>1, SpreadsAgree
    <2>19. ASSUME NEW v \in Values
           PROVE  Cardinality({i \in 1 .. size : values_[i] = v})
                    = Occurring(s, P, v)
      BY <2>2, <2>3, <2>4 DEF Occurring, At, size
    <2> DEFINE Difference(v, w) ==
                   Occurring(s, P, v) * Occurring(s, P, w)
                     * ((v - w) * (v - w))
               Row(v) == [w \in Values |-> Difference(v, w)]
               Sum(v) == SumFunction(Row(v))
    <2>20. Pairs(s, P, Values) = [v \in Values |-> Sum(v)]
      <3>1. \A v \in Values : Sum(v) = Total(Row(v), Values)
        BY SumIsTotal
      <3> QED
        BY <3>1 DEF Pairs
    <2>21. SumFunction([v \in Values |-> Sum(v)])
             = Total(Pairs(s, P, Values), Values)
      <3>1. DOMAIN Pairs(s, P, Values) = Values
        BY DEF Pairs
      <3> QED
        BY <2>20, <3>1, SumIsTotal
    <2> QED
      BY <2>2, <2>15, <2>18, <2>19, <2>21 DEF SpreadIsPairwise, size
  <1> QED
    BY <1>1, SnapshotsAreAscending, PTL
=============================================================================
