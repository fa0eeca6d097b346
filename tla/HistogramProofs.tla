--------------------------- MODULE HistogramProofs ---------------------------
(***************************************************************************)
(* Proofs about Histogram and its UniformSample for any finite set of      *)
(* threads, any values and any size of the reservoir: until the reservoir  *)
(* is full nothing recorded is lost, free places are claimed, and the two  *)
(* counts agree.                                                           *)
(***************************************************************************)
EXTENDS Histogram, FiniteSetTheorems, TLAPS

Locals == [value : Values \cup {0}, count : Nat, i : Nat,
           size : 0 .. reservoir_size_, copy : Seq(Nat)]

TypeInv ==
    /\ values_ \in [Places -> Values \cup {0}]
    /\ count_ \in Nat /\ histogram_count_ \in Nat
    /\ mutex_ \in Threads \cup {None}
    /\ pc \in [Threads -> {"idle", "take", "store", "clear", "lock", "copy"}]
    /\ local \in [Threads -> Locals]
    /\ alone \in [Threads -> BOOLEAN] /\ tainted \in BOOLEAN
    /\ recorded \in [Values -> Nat]
    /\ \A t \in Threads :
          /\ Updating(t) => local[t].value \in Values
          /\ Clearing(t) => local[t].i >= 1

(* A clear() that is alone meets nobody: what it has cleared stays so.      *)
AloneInv ==
    \A t \in Threads : Clearing(t) /\ alone[t] =>
        /\ \A u \in Threads \ {t} : ~Updating(u) /\ ~Clearing(u)
        /\ histogram_count_ = 0
        /\ \A i \in Places : i < local[t].i => values_[i] = 0

Taking == {t \in Threads : pc[t] = "take"}
Storing(t) == pc[t] = "store"
PlacesOf(v) == {i \in Places : values_[i] = v}

(* The places taken are apart and counted.                                  *)
PlacesAreApart ==
    /\ \A t \in Threads : Storing(t) => local[t].count \in 1 .. count_
    /\ \A t, u \in Threads :
          Storing(t) /\ Storing(u) /\ local[t].count = local[u].count => t = u

(* A place that is free is claimed by a store under way ...                 *)
FreeAreClaimed ==
    \A i \in Places : i <= count_ /\ values_[i] = 0 =>
        \E t \in Threads : Storing(t) /\ local[t].count = i

(* ... and as long as the reservoir is not full the other way round: what   *)
(* a store under way claims is free.                                        *)
ClaimedAreFree ==
    /\ \A t \in Threads : Storing(t) => values_[local[t].count] = 0
    /\ \A i \in Places : i > count_ => values_[i] = 0
    /\ \A v \in Values : recorded[v] = Cardinality(PlacesOf(v))

SettledInv ==
    Settled =>
        /\ PlacesAreApart
        /\ FreeAreClaimed
        /\ count_ <= reservoir_size_ => ClaimedAreFree
        /\ histogram_count_ = count_ + Cardinality(Taking)

HistogramInv == TypeInv /\ AloneInv /\ SettledInv

-----------------------------------------------------------------------------
LEMMA NextCases ==
    ASSUME Next, NEW P,
           ASSUME NEW t \in Threads, Update(t) PROVE P,
           ASSUME NEW t \in Threads, Clear(t) PROVE P,
           ASSUME NEW t \in Threads, GetSnapshot(t) PROVE P,
           ASSUME NEW t \in Threads, TakePlace(t),
                  UNCHANGED histogram_count_ PROVE P,
           ASSUME NEW t \in Threads, Store(t),
                  UNCHANGED histogram_count_ PROVE P,
           ASSUME NEW t \in Threads, ClearPlace(t),
                  UNCHANGED histogram_count_ PROVE P,
           ASSUME NEW t \in Threads, ClearCount(t),
                  UNCHANGED histogram_count_ PROVE P,
           ASSUME NEW t \in Threads, LockAndSize(t),
                  UNCHANGED histogram_count_ PROVE P,
           ASSUME NEW t \in Threads, CopyValue(t),
                  UNCHANGED histogram_count_ PROVE P,
           ASSUME NEW t \in Threads, EndSnapshot(t),
                  UNCHANGED histogram_count_ PROVE P
    PROVE  P
  BY DEF Next, SampleStep

LEMMA ConstantFacts ==
    /\ reservoir_size_ \in Nat \ {0} /\ Values \subseteq Nat /\ 0 \notin Values
    /\ Places \subseteq Nat \ {0} /\ IsFiniteSet(Places)
    /\ None \notin Threads /\ IsFiniteSet(Threads)
  <1>1. IsFiniteSet(Places)
    BY SampleAssumption, FS_Interval DEF Places
  <1> QED
    BY <1>1, SampleAssumption DEF Places

LEMMA NoLocalsType ==
    /\ NoLocals \in Locals
    /\ \A v \in Values : /\ [NoLocals EXCEPT !.value = v] \in Locals
                         /\ [NoLocals EXCEPT !.value = v].value = v
    /\ [NoLocals EXCEPT !.i = 1] \in Locals
    /\ [NoLocals EXCEPT !.i = 1].i = 1
  <1>1. <<>> \in Seq(Nat) /\ 0 \in 0 .. reservoir_size_
    BY ConstantFacts
  <1>2. NoLocals \in Locals
    BY <1>1 DEF NoLocals, Locals
  <1>3. ASSUME NEW v \in Values
        PROVE  /\ [NoLocals EXCEPT !.value = v] \in Locals
               /\ [NoLocals EXCEPT !.value = v].value = v
    BY <1>2 DEF Locals
  <1>4. [NoLocals EXCEPT !.i = 1] \in Locals /\ [NoLocals EXCEPT !.i = 1].i = 1
    BY <1>2 DEF Locals
  <1> QED
    BY <1>2, <1>3, <1>4

(* One field changed to a value of its set.                                 *)
LEMMA CountField ==
    ASSUME NEW r \in Locals, NEW n \in Nat
    PROVE  /\ [r EXCEPT !.count = n] \in Locals
           /\ [r EXCEPT !.count = n].value = r.value
           /\ [r EXCEPT !.count = n].count = n
  BY DEF Locals

LEMMA PlaceField ==
    ASSUME NEW r \in Locals, NEW n \in Nat
    PROVE  [r EXCEPT !.i = n] \in Locals /\ [r EXCEPT !.i = n].i = n
  BY DEF Locals

LEMMA SizeField ==
    ASSUME NEW r \in Locals, NEW n \in 0 .. reservoir_size_
    PROVE  [r EXCEPT !.size = n] \in Locals
  BY DEF Locals

LEMMA CopyField ==
    ASSUME NEW r \in Locals, NEW c \in Seq(Nat)
    PROVE  [r EXCEPT !.copy = c] \in Locals
  BY DEF Locals

(* Sets of threads and of places are finite.                                *)
LEMMA TakingIsFinite == IsFiniteSet(Taking) /\ Cardinality(Taking) \in Nat
  <1>1. Taking \in SUBSET Threads
    BY DEF Taking
  <1> QED
    BY <1>1, ConstantFacts, FS_Subset, FS_CardinalityType

LEMMA PlacesOfIsFinite ==
    ASSUME NEW v
    PROVE  IsFiniteSet(PlacesOf(v)) /\ Cardinality(PlacesOf(v)) \in Nat
  <1>1. PlacesOf(v) \in SUBSET Places
    BY DEF PlacesOf
  <1> QED
    BY <1>1, ConstantFacts, FS_Subset, FS_CardinalityType

LEMMA OneMore ==
    ASSUME NEW S, NEW e, IsFiniteSet(S), e \notin S
    PROVE  Cardinality(S \cup {e}) = Cardinality(S) + 1
  BY FS_AddElement

LEMMA OneLess ==
    ASSUME NEW S, NEW e, IsFiniteSet(S), e \in S
    PROVE  Cardinality(S \ {e}) = Cardinality(S) - 1
  BY FS_RemoveElement

(* An empty reservoir that nobody is filling.                               *)
NothingHeld ==
    /\ count_ = 0 /\ histogram_count_ = 0
    /\ \A i \in Places : values_[i] = 0
    /\ \A t \in Threads : ~Updating(t)
    /\ \A v \in Values : recorded[v] = 0

LEMMA EmptyIsSettled == NothingHeld => SettledInv
  <1> SUFFICES ASSUME NothingHeld PROVE SettledInv
    OBVIOUS
  <1> USE DEF NothingHeld
  <1>1. Taking = {} /\ \A v \in Values : PlacesOf(v) = {}
    BY ConstantFacts DEF Taking, Updating, PlacesOf
  <1>2. Cardinality(Taking) = 0
        /\ \A v \in Values : Cardinality(PlacesOf(v)) = 0
    BY <1>1, FS_EmptySet
  <1>3. ClaimedAreFree
    BY <1>2 DEF ClaimedAreFree, Updating, Storing
  <1> QED
    BY <1>2, <1>3, ConstantFacts
    DEF SettledInv, PlacesAreApart, FreeAreClaimed, Updating, Storing

LEMMA HistogramInit == Init => HistogramInv
  <1> SUFFICES ASSUME Init PROVE HistogramInv
    OBVIOUS
  <1> USE ConstantFacts, NoLocalsType DEF Init, SampleInit
  <1>1. TypeInv
    BY DEF TypeInv, Updating, Clearing
  <1>2. AloneInv
    BY DEF AloneInv, Clearing
  <1>3. SettledInv
    BY EmptyIsSettled DEF Updating, NothingHeld
  <1> QED
    BY <1>1, <1>2, <1>3 DEF HistogramInv

-----------------------------------------------------------------------------
(* The locals of one call changed.                                          *)
LEMMA LocalsStep ==
    ASSUME TypeInv, NEW t \in Threads, NEW r \in Locals,
           local' = [local EXCEPT ![t] = r]
    PROVE  /\ local' \in [Threads -> Locals] /\ local'[t] = r
           /\ \A u \in Threads \ {t} : local'[u] = local[u]
  BY DEF TypeInv

LEMMA TypeInvStep == TypeInv /\ [Next]_vars => TypeInv'
  <1> SUFFICES ASSUME TypeInv, [Next]_vars PROVE TypeInv'
    OBVIOUS
  <1> USE ConstantFacts, NoLocalsType
  <1> USE DEF TypeInv, Goto, Leave, Updating, Clearing
  <1>1. CASE Next
    <2>1. ASSUME NEW t \in Threads, Update(t) PROVE TypeInv'
      BY <2>1 DEF Update, EnterUpdate, Enter
    <2>2. ASSUME NEW t \in Threads, Clear(t) PROVE TypeInv'
      BY <2>2 DEF Clear, EnterClear, Enter
    <2>3. ASSUME NEW t \in Threads, GetSnapshot(t) PROVE TypeInv'
      BY <2>3 DEF GetSnapshot, EnterSnapshot, Enter
    <2>4. ASSUME NEW t \in Threads, TakePlace(t),
                 UNCHANGED histogram_count_ PROVE TypeInv'
      <3>1. [local[t] EXCEPT !.count = count_ + 1] \in Locals
            /\ [local[t] EXCEPT !.count = count_ + 1].value = local[t].value
        BY CountField
      <3>2. local' = [local EXCEPT ![t] = [@ EXCEPT !.count = count_ + 1]]
        BY <2>4 DEF TakePlace
      <3>3. /\ local' \in [Threads -> Locals]
            /\ local'[t].value = local[t].value
            /\ \A u \in Threads \ {t} : local'[u] = local[u]
        BY <3>1, <3>2, LocalsStep
      <3> QED
        BY <2>4, <3>3 DEF TakePlace
    <2>5. ASSUME NEW t \in Threads, Store(t),
                 UNCHANGED histogram_count_ PROVE TypeInv'
      BY <2>5 DEF Store, Put, Places
    <2>6. ASSUME NEW t \in Threads, ClearPlace(t),
                 UNCHANGED histogram_count_ PROVE TypeInv'
      <3>1. local[t].i \in Nat
        BY DEF Locals
      <3>2. [local[t] EXCEPT !.i = local[t].i + 1] \in Locals
            /\ [local[t] EXCEPT !.i = local[t].i + 1].i = local[t].i + 1
        BY <3>1, PlaceField
      <3>3. local' = [local EXCEPT ![t] = [@ EXCEPT !.i = local[t].i + 1]]
        BY <2>6 DEF ClearPlace
      <3>4. /\ local' \in [Threads -> Locals]
            /\ local'[t].i = local[t].i + 1
            /\ \A u \in Threads \ {t} : local'[u] = local[u]
        BY <3>2, <3>3, LocalsStep
      <3> QED
        BY <2>6, <3>1, <3>4 DEF ClearPlace
    <2>7. ASSUME NEW t \in Threads, ClearCount(t),
                 UNCHANGED histogram_count_ PROVE TypeInv'
      BY <2>7 DEF ClearCount
    <2>8. ASSUME NEW t \in Threads, LockAndSize(t),
                 UNCHANGED histogram_count_ PROVE TypeInv'
      <3>1. Size \in 0 .. reservoir_size_
        BY DEF Size
      <3>2. [local[t] EXCEPT !.size = Size] \in Locals
        BY <3>1, SizeField
      <3>3. local' = [local EXCEPT ![t] = [@ EXCEPT !.size = Size]]
        BY <2>8 DEF LockAndSize
      <3>4. /\ local' \in [Threads -> Locals]
            /\ \A u \in Threads \ {t} : local'[u] = local[u]
        BY <3>2, <3>3, LocalsStep
      <3> QED
        BY <2>8, <3>4 DEF LockAndSize
    <2>9. ASSUME NEW t \in Threads, CopyValue(t),
                 UNCHANGED histogram_count_ PROVE TypeInv'
      <3> DEFINE next == Append(local[t].copy, values_[Copied(t) + 1])
      <3>1. local[t].copy \in Seq(Nat) /\ local[t].size \in 0 .. reservoir_size_
        BY DEF Locals
      <3>2. Copied(t) + 1 \in Places
        BY <2>9, <3>1 DEF CopyValue, Copied, Places
      <3>3. next \in Seq(Nat)
        BY <3>1, <3>2
      <3>4. [local[t] EXCEPT !.copy = next] \in Locals
        BY <3>3, CopyField
      <3>5. local' = [local EXCEPT ![t] = [local[t] EXCEPT !.copy = next]]
        BY <2>9 DEF CopyValue
      <3> HIDE DEF next
      <3>6. /\ local' \in [Threads -> Locals]
            /\ \A u \in Threads \ {t} : local'[u] = local[u]
        BY <3>4, <3>5, LocalsStep
      <3> QED
        BY <2>9, <3>6 DEF CopyValue
    <2>10. ASSUME NEW t \in Threads, EndSnapshot(t),
                  UNCHANGED histogram_count_ PROVE TypeInv'
      BY <2>10 DEF EndSnapshot
    <2> QED
      BY <1>1, NextCases, <2>1, <2>2, <2>3, <2>4, <2>5, <2>6, <2>7, <2>8,
         <2>9, <2>10
  <1>2. CASE UNCHANGED vars
    BY <1>2 DEF vars, sampleVars
  <1> QED
    BY <1>1, <1>2

-----------------------------------------------------------------------------
(* What the steps of a snapshot leave, and what no step of theirs changes.  *)
LEMMA SnapshotStep ==
    ASSUME TypeInv, AloneInv, SettledInv, NEW t \in Threads,
           pc[t] \in {"idle", "lock", "copy"},
           pc' \in [Threads -> {"idle", "take", "store", "clear", "lock", "copy"}],
           pc'[t] \in {"idle", "lock", "copy"},
           \A u \in Threads \ {t} : pc'[u] = pc[u] /\ local'[u] = local[u],
           UNCHANGED <<values_, count_, alone, tainted, recorded,
                       histogram_count_>>
    PROVE  AloneInv' /\ SettledInv'
  <1>1. \A u \in Threads :
            /\ Updating(u)' = Updating(u) /\ Clearing(u)' = Clearing(u)
            /\ Storing(u)' = Storing(u)
            /\ (pc'[u] = "take") = (pc[u] = "take")
    BY DEF Updating, Clearing, Storing, TypeInv
  <1>2. \A u \in Threads : Storing(u) \/ Clearing(u) => local'[u] = local[u]
    BY DEF Storing, Clearing
  <1>3. AloneInv'
    BY <1>1, <1>2 DEF AloneInv
  <1>4. Taking' = Taking
    BY <1>1 DEF Taking
  <1>5. PlacesAreApart => PlacesAreApart'
    BY <1>1, <1>2 DEF PlacesAreApart
  <1>6. FreeAreClaimed => FreeAreClaimed'
    BY <1>1, <1>2 DEF FreeAreClaimed
  <1>7. ClaimedAreFree => ClaimedAreFree'
    BY <1>1, <1>2 DEF ClaimedAreFree, PlacesOf
  <1>8. Settled' = Settled
    BY <1>1 DEF Settled
  <1> QED
    BY <1>3, <1>4, <1>5, <1>6, <1>7, <1>8 DEF SettledInv

LEMMA AloneStep == TypeInv /\ AloneInv /\ [Next]_vars => AloneInv'
  <1> SUFFICES ASSUME TypeInv, AloneInv, [Next]_vars PROVE AloneInv'
    OBVIOUS
  <1> USE ConstantFacts, NoLocalsType
  <1> USE DEF TypeInv, Goto, Leave, Updating, Clearing
  <1>1. CASE Next
    <2>1. ASSUME NEW t \in Threads, Update(t) PROVE AloneInv'
      BY <2>1 DEF Update, EnterUpdate, Enter, AloneInv
    <2>2. ASSUME NEW t \in Threads, Clear(t) PROVE AloneInv'
      <3> SUFFICES ASSUME NEW u \in Threads, pc'[u] = "clear", alone'[u]
                   PROVE  /\ \A w \in Threads \ {u} :
                                 ~Updating(w)' /\ ~Clearing(w)'
                          /\ histogram_count_' = 0
                          /\ \A i \in Places : i < local'[u].i => values_'[i] = 0
        BY DEF AloneInv
      <3>1. u = t /\ \A w \in Threads : ~Updating(w) /\ ~Clearing(w)
        BY <2>2 DEF Clear, EnterClear
      <3>2. pc' = [pc EXCEPT ![t] = "clear"] /\ local'[t].i = 1
            /\ histogram_count_' = 0
        BY <2>2 DEF Clear, EnterClear, Enter
      <3> QED
        BY <3>1, <3>2
    <2>3. ASSUME NEW t \in Threads, GetSnapshot(t) PROVE AloneInv'
      BY <2>3 DEF GetSnapshot, EnterSnapshot, Enter, AloneInv
    <2>4. ASSUME NEW t \in Threads, TakePlace(t),
                 UNCHANGED histogram_count_ PROVE AloneInv'
      BY <2>4 DEF TakePlace, AloneInv
    <2>5. ASSUME NEW t \in Threads, Store(t),
                 UNCHANGED histogram_count_ PROVE AloneInv'
      BY <2>5 DEF Store, AloneInv
    <2>6. ASSUME NEW t \in Threads, ClearPlace(t),
                 UNCHANGED histogram_count_ PROVE AloneInv'
      <3>1. local' = [local EXCEPT ![t] = [@ EXCEPT !.i = local[t].i + 1]]
            /\ local[t].i \in Places
            /\ values_' = [values_ EXCEPT ![local[t].i] = 0]
            /\ pc[t] = "clear" /\ pc' = pc /\ alone' = alone
        BY <2>6 DEF ClearPlace
      <3> local[t] \in Locals /\ local[t].i + 1 \in Nat
        BY <3>1
      <3>2. [local[t] EXCEPT !.i = local[t].i + 1] \in Locals
            /\ [local[t] EXCEPT !.i = local[t].i + 1].i = local[t].i + 1
        BY <3>1, PlaceField
      <3>3. /\ local'[t].i = local[t].i + 1
            /\ \A u \in Threads \ {t} : local'[u] = local[u]
        BY <3>1, <3>2, LocalsStep
      <3> QED
        BY <2>6, <3>1, <3>3 DEF AloneInv
    <2>7. ASSUME NEW t \in Threads, ClearCount(t),
                 UNCHANGED histogram_count_ PROVE AloneInv'
      BY <2>7 DEF ClearCount, AloneInv
    <2>8. ASSUME NEW t \in Threads, LockAndSize(t),
                 UNCHANGED histogram_count_ PROVE AloneInv'
      BY <2>8 DEF LockAndSize, AloneInv
    <2>9. ASSUME NEW t \in Threads, CopyValue(t),
                 UNCHANGED histogram_count_ PROVE AloneInv'
      BY <2>9 DEF CopyValue, AloneInv
    <2>10. ASSUME NEW t \in Threads, EndSnapshot(t),
                  UNCHANGED histogram_count_ PROVE AloneInv'
      BY <2>10 DEF EndSnapshot, AloneInv
    <2> QED
      BY <1>1, NextCases, <2>1, <2>2, <2>3, <2>4, <2>5, <2>6, <2>7, <2>8,
         <2>9, <2>10
  <1>2. CASE UNCHANGED vars
    BY <1>2 DEF vars, sampleVars, AloneInv
  <1> QED
    BY <1>1, <1>2

-----------------------------------------------------------------------------
(* update() is called: one more is on its way, and the histogram has        *)
(* counted it.                                                              *)
LEMMA UpdateSettled ==
    ASSUME TypeInv, SettledInv, NEW t \in Threads, Update(t)
    PROVE  SettledInv'
  <1> USE ConstantFacts DEF TypeInv
  <1>1. /\ pc[t] = "idle" /\ pc' = [pc EXCEPT ![t] = "take"]
        /\ \A u \in Threads \ {t} : local'[u] = local[u]
        /\ UNCHANGED <<values_, count_, tainted, recorded>>
        /\ histogram_count_' = histogram_count_ + 1
    BY DEF Update, EnterUpdate, Enter, Goto
  <1>2. Taking' = Taking \cup {t} /\ t \notin Taking
    BY <1>1 DEF Taking
  <1>3. Cardinality(Taking') = Cardinality(Taking) + 1
    BY <1>2, OneMore, TakingIsFinite
  <1>4. \A u \in Threads :
            /\ Storing(u)' = Storing(u) /\ Clearing(u)' = Clearing(u)
            /\ Storing(u) => local'[u] = local[u]
    BY <1>1 DEF Storing, Clearing
  <1>5. Settled' = Settled
    BY <1>1, <1>4 DEF Settled
  <1>6. PlacesAreApart => PlacesAreApart'
    BY <1>1, <1>4 DEF PlacesAreApart
  <1>7. FreeAreClaimed => FreeAreClaimed'
    BY <1>1, <1>4 DEF FreeAreClaimed
  <1>8. ClaimedAreFree => ClaimedAreFree'
    BY <1>1, <1>4 DEF ClaimedAreFree, PlacesOf
  <1>9. histogram_count_ = count_ + Cardinality(Taking)
        => histogram_count_' = count_' + Cardinality(Taking')
    BY <1>1, <1>3, TakingIsFinite
  <1> QED
    BY <1>1, <1>5, <1>6, <1>7, <1>8, <1>9 DEF SettledInv

(* ++count_: the new place is the caller's, nobody else's, and free as      *)
(* every place beyond the count is.                                         *)
LEMMA TakePlaceSettled ==
    ASSUME TypeInv, SettledInv, NEW t \in Threads, TakePlace(t),
           UNCHANGED histogram_count_
    PROVE  SettledInv'
  <1> USE ConstantFacts DEF TypeInv
  <1>1. /\ pc[t] = "take" /\ pc' = [pc EXCEPT ![t] = "store"]
        /\ count_' = count_ + 1 /\ count_ + 1 \in Nat
        /\ local' = [local EXCEPT ![t] = [@ EXCEPT !.count = count_ + 1]]
        /\ UNCHANGED <<values_, tainted, recorded, histogram_count_>>
    BY DEF TakePlace, Goto
  <1>2. [local[t] EXCEPT !.count = count_ + 1] \in Locals
        /\ [local[t] EXCEPT !.count = count_ + 1].count = count_ + 1
    BY <1>1, CountField
  <1>3. /\ local'[t].count = count_ + 1
        /\ \A u \in Threads \ {t} : local'[u] = local[u]
    BY <1>1, <1>2, LocalsStep
  <1>4. Taking' = Taking \ {t} /\ t \in Taking
    BY <1>1 DEF Taking
  <1>5. Cardinality(Taking') = Cardinality(Taking) - 1
    BY <1>4, OneLess, TakingIsFinite
  <1>6. /\ Storing(t)' /\ ~Storing(t)
        /\ \A u \in Threads \ {t} :
              Storing(u)' = Storing(u) /\ local'[u].count = local[u].count
    BY <1>1, <1>3 DEF Storing
  <1>7. Settled' = Settled
    BY <1>1 DEF Settled, Clearing
  <1>8. PlacesAreApart => PlacesAreApart'
    BY <1>1, <1>3, <1>6 DEF PlacesAreApart
  <1>9. ASSUME FreeAreClaimed PROVE FreeAreClaimed'
    <2> SUFFICES ASSUME NEW i \in Places, i <= count_', values_'[i] = 0
                 PROVE  \E u \in Threads : Storing(u)' /\ local'[u].count = i
      BY DEF FreeAreClaimed
    <2>1. CASE i = count_ + 1
      BY <2>1, <1>3, <1>6
    <2>2. CASE i # count_ + 1
      <3>1. PICK u \in Threads : Storing(u) /\ local[u].count = i
        BY <2>2, <1>1, <1>9 DEF FreeAreClaimed
      <3> QED
        BY <3>1, <1>6
    <2> QED
      BY <2>1, <2>2
  <1>10. ASSUME ClaimedAreFree, count_ + 1 <= reservoir_size_
         PROVE  ClaimedAreFree'
    <2>1. values_[count_ + 1] = 0
      BY <1>1, <1>10 DEF ClaimedAreFree, Places
    <2>2. \A u \in Threads : Storing(u)' => values_'[local'[u].count] = 0
      BY <2>1, <1>1, <1>3, <1>6, <1>10 DEF ClaimedAreFree
    <2>3. \A i \in Places : i > count_' => values_'[i] = 0
      BY <1>1, <1>10 DEF ClaimedAreFree
    <2>4. \A v \in Values : recorded'[v] = Cardinality(PlacesOf(v)')
      BY <1>1, <1>10 DEF ClaimedAreFree, PlacesOf
    <2> QED
      BY <2>2, <2>3, <2>4 DEF ClaimedAreFree
  <1>11. histogram_count_ = count_ + Cardinality(Taking)
         => histogram_count_' = count_' + Cardinality(Taking')
    BY <1>1, <1>5, TakingIsFinite
  <1> QED
    BY <1>1, <1>7, <1>8, <1>9, <1>10, <1>11 DEF SettledInv

(* The store fills a place.  While the reservoir is not full it is the one  *)
(* the caller took, which was free and nobody else's.                       *)
LEMMA StoreSettled ==
    ASSUME TypeInv, SettledInv, NEW t \in Threads, Store(t),
           UNCHANGED histogram_count_
    PROVE  SettledInv'
  <1> USE ConstantFacts DEF TypeInv
  <1> DEFINE v == local[t].value
             place == local[t].count
  <1>1. /\ pc[t] = "store" /\ pc' = [pc EXCEPT ![t] = "idle"]
        /\ \A u \in Threads \ {t} : local'[u] = local[u]
        /\ recorded' = [recorded EXCEPT ![v] = @ + 1]
        /\ UNCHANGED <<count_, tainted, histogram_count_>>
    BY DEF Store, Leave, Goto
  <1>2. v \in Values /\ v # 0 /\ place \in Nat
    BY <1>1 DEF Updating, Locals
  <1>3. Taking' = Taking
    BY <1>1 DEF Taking
  <1>4. /\ Storing(t) /\ ~Storing(t)'
        /\ \A u \in Threads \ {t} :
              Storing(u)' = Storing(u) /\ local'[u].count = local[u].count
    BY <1>1 DEF Storing
  <1>5. Settled' = Settled
    BY <1>1 DEF Settled, Clearing
  <1>6. PlacesAreApart => PlacesAreApart'
    BY <1>1, <1>4 DEF PlacesAreApart
  <1>7. ASSUME PlacesAreApart
        PROVE  \/ values_' = values_ /\ place > reservoir_size_
               \/ \E i \in Places :
                     /\ values_' = [values_ EXCEPT ![i] = v]
                     /\ place <= reservoir_size_ => i = place
    <2>1. place >= 1
      BY <1>4, <1>7 DEF PlacesAreApart
    <2>2. CASE place <= reservoir_size_
      <3>1. place \in Places /\ values_' = [values_ EXCEPT ![place] = v]
        BY <1>2, <2>1, <2>2 DEF Store, Put, Places
      <3> QED
        BY <3>1
    <2>3. CASE place > reservoir_size_
      <3>1. PICK rand \in 1 .. place :
               IF rand <= reservoir_size_ THEN Put(t, rand)
                                          ELSE UNCHANGED values_
        BY <1>2, <2>3 DEF Store
      <3> QED
        BY <1>2, <2>3, <3>1 DEF Put, Places
    <2> QED
      BY <1>2, <2>2, <2>3
  <1>8. ASSUME FreeAreClaimed, PlacesAreApart PROVE FreeAreClaimed'
    <2> SUFFICES ASSUME NEW i \in Places, i <= count_, values_'[i] = 0
                 PROVE  \E u \in Threads : Storing(u)' /\ local'[u].count = i
      BY <1>1 DEF FreeAreClaimed
    <2>1. values_[i] = 0 /\ place # i
      BY <1>2, <1>7, <1>8 DEF Places
    <2>2. PICK u \in Threads : Storing(u) /\ local[u].count = i
      BY <2>1, <1>8 DEF FreeAreClaimed
    <2> QED
      BY <2>1, <2>2, <1>4
  <1>9. ASSUME ClaimedAreFree, PlacesAreApart, count_ <= reservoir_size_
        PROVE  ClaimedAreFree'
    <2>1. place \in 1 .. count_ /\ place \in Places /\ values_[place] = 0
      BY <1>4, <1>9 DEF PlacesAreApart, ClaimedAreFree, Places
    <2>2. values_' = [values_ EXCEPT ![place] = v]
      BY <2>1, <1>7, <1>9 DEF Places
    <2>3. \A u \in Threads : Storing(u)' => values_'[local'[u].count] = 0
      <3> SUFFICES ASSUME NEW u \in Threads, Storing(u)'
                   PROVE  values_'[local'[u].count] = 0
        OBVIOUS
      <3>1. u # t /\ Storing(u) /\ local'[u].count = local[u].count
        BY <1>4
      <3>2. local[u].count # place /\ values_[local[u].count] = 0
            /\ local[u].count \in Places
        BY <3>1, <1>4, <1>9 DEF PlacesAreApart, ClaimedAreFree, Places
      <3> QED
        BY <3>1, <3>2, <2>2
    <2>4. \A i \in Places : i > count_' => values_'[i] = 0
      BY <2>1, <2>2, <1>1, <1>9 DEF ClaimedAreFree
    <2>5. ASSUME NEW w \in Values
          PROVE  recorded'[w] = Cardinality(PlacesOf(w)')
      <3>1. recorded[w] = Cardinality(PlacesOf(w))
        BY <1>9 DEF ClaimedAreFree
      <3>2. CASE w = v
        <4>1. PlacesOf(w)' = PlacesOf(w) \cup {place} /\ place \notin PlacesOf(w)
          BY <3>2, <2>1, <2>2, <1>2 DEF PlacesOf
        <4>2. Cardinality(PlacesOf(w)') = Cardinality(PlacesOf(w)) + 1
          BY <4>1, OneMore, PlacesOfIsFinite
        <4> QED
          BY <4>2, <3>1, <3>2, <1>1, <1>2
      <3>3. CASE w # v
        <4>1. PlacesOf(w)' = PlacesOf(w)
          BY <3>3, <2>1, <2>2 DEF PlacesOf
        <4> QED
          BY <4>1, <3>1, <3>3, <1>1, <1>2
      <3> QED
        BY <3>2, <3>3
    <2> QED
      BY <2>3, <2>4, <2>5 DEF ClaimedAreFree
  <1> QED
    BY <1>1, <1>3, <1>5, <1>6, <1>8, <1>9 DEF SettledInv

(* The end of a clear(): either it was alone, and the reservoir is empty    *)
(* and nobody fills it, or the sample is tainted.                           *)
LEMMA ClearCountSettled ==
    ASSUME TypeInv, AloneInv, NEW t \in Threads, ClearCount(t),
           UNCHANGED histogram_count_
    PROVE  SettledInv'
  <1> USE ConstantFacts DEF TypeInv
  <1>1. /\ pc[t] = "clear" /\ local[t].i \notin Places
        /\ pc' = [pc EXCEPT ![t] = "idle"]
        /\ count_' = 0 /\ tainted' = ~alone[t]
        /\ recorded' = [v \in Values |-> 0]
        /\ UNCHANGED <<values_, histogram_count_>>
    BY DEF ClearCount, Leave, Goto
  <1>2. CASE ~alone[t]
    BY <1>1, <1>2 DEF SettledInv, Settled
  <1>3. CASE alone[t]
    <2>1. local[t].i \in Nat /\ local[t].i >= 1
      BY <1>1 DEF Clearing, Locals
    <2>2. \A i \in Places : i < local[t].i
      BY <2>1, <1>1 DEF Places
    <2>3. /\ \A u \in Threads \ {t} : ~Updating(u)
          /\ histogram_count_ = 0
          /\ \A i \in Places : values_[i] = 0
      BY <1>1, <1>3, <2>2 DEF AloneInv, Clearing
    <2>4. NothingHeld'
      BY <2>3, <1>1 DEF NothingHeld, Updating
    <2> QED
      BY <2>4, EmptyIsSettled, PTL
  <1> QED
    BY <1>2, <1>3

LEMMA SettledStep ==
    TypeInv /\ TypeInv' /\ AloneInv /\ SettledInv /\ [Next]_vars => SettledInv'
  <1> SUFFICES ASSUME TypeInv, TypeInv', AloneInv, SettledInv, [Next]_vars
               PROVE  SettledInv'
    OBVIOUS
  <1>1. CASE Next
    <2>1. ASSUME NEW t \in Threads, Clear(t) PROVE SettledInv'
      <3>1. Clearing(t)'
        BY <2>1 DEF Clear, EnterClear, Enter, Goto, Clearing, TypeInv
      <3> QED
        BY <3>1 DEF SettledInv, Settled
    <2>2. ASSUME NEW t \in Threads, GetSnapshot(t) PROVE SettledInv'
      <3>1. /\ pc[t] = "idle" /\ pc'[t] = "lock"
            /\ \A u \in Threads \ {t} : pc'[u] = pc[u] /\ local'[u] = local[u]
            /\ UNCHANGED <<values_, count_, alone, tainted, recorded,
                           histogram_count_>>
        BY <2>2 DEF GetSnapshot, EnterSnapshot, Enter, Goto, TypeInv
      <3> QED
        BY <3>1, SnapshotStep DEF TypeInv
    <2>3. ASSUME NEW t \in Threads, ClearPlace(t),
                 UNCHANGED histogram_count_ PROVE SettledInv'
      <3>1. Clearing(t)'
        BY <2>3 DEF ClearPlace, Clearing
      <3> QED
        BY <3>1 DEF SettledInv, Settled
    <2>4. ASSUME NEW t \in Threads, LockAndSize(t),
                 UNCHANGED histogram_count_ PROVE SettledInv'
      <3>1. /\ pc[t] = "lock" /\ pc'[t] = "copy"
            /\ \A u \in Threads \ {t} : pc'[u] = pc[u] /\ local'[u] = local[u]
            /\ UNCHANGED <<values_, count_, alone, tainted, recorded,
                           histogram_count_>>
        BY <2>4 DEF LockAndSize, Goto, TypeInv
      <3> QED
        BY <3>1, SnapshotStep DEF TypeInv
    <2>5. ASSUME NEW t \in Threads, CopyValue(t),
                 UNCHANGED histogram_count_ PROVE SettledInv'
      <3>1. /\ pc[t] = "copy" /\ pc'[t] = "copy"
            /\ \A u \in Threads \ {t} : pc'[u] = pc[u] /\ local'[u] = local[u]
            /\ UNCHANGED <<values_, count_, alone, tainted, recorded,
                           histogram_count_>>
        BY <2>5 DEF CopyValue, TypeInv
      <3> QED
        BY <3>1, SnapshotStep DEF TypeInv
    <2>6. ASSUME NEW t \in Threads, EndSnapshot(t),
                 UNCHANGED histogram_count_ PROVE SettledInv'
      <3>1. /\ pc[t] = "copy" /\ pc'[t] = "idle"
            /\ \A u \in Threads \ {t} : pc'[u] = pc[u] /\ local'[u] = local[u]
            /\ UNCHANGED <<values_, count_, alone, tainted, recorded,
                           histogram_count_>>
        BY <2>6 DEF EndSnapshot, Leave, Goto, TypeInv
      <3> QED
        BY <3>1, SnapshotStep DEF TypeInv
    <2> QED
      BY <1>1, NextCases, UpdateSettled, TakePlaceSettled, StoreSettled,
         ClearCountSettled, <2>1, <2>2, <2>3, <2>4, <2>5, <2>6
  <1>2. CASE UNCHANGED vars
    BY <1>2 DEF vars, sampleVars, SettledInv, Settled, Clearing, PlacesAreApart,
                FreeAreClaimed, ClaimedAreFree, PlacesOf, Storing, Taking
  <1> QED
    BY <1>1, <1>2

-----------------------------------------------------------------------------
(* The inductive invariant of every run of updates, clears and snapshots    *)
(* of Histogram and UniformSample.                                          *)
THEOREM HistogramInvariant == Spec => []HistogramInv
  <1>1. HistogramInv /\ [Next]_vars => HistogramInv'
    BY TypeInvStep, AloneStep, SettledStep DEF HistogramInv
  <1> QED
    BY HistogramInit, <1>1, PTL DEF Spec

(* Until the reservoir is full UniformSample loses nothing recorded: each   *)
(* value is held as often as update() has stored it, whatever the updates   *)
(* under way.                                                               *)
THEOREM NothingIsLost == Spec => []EveryValueIsKept
  <1>1. HistogramInv => EveryValueIsKept
    BY DEF HistogramInv, SettledInv, ClaimedAreFree, PlacesOf, EveryValueIsKept
  <1> QED
    BY <1>1, HistogramInvariant, PTL

(* A place that getSnapshot() copies without a value in it is one that an   *)
(* update has taken and is about to fill.                                   *)
THEOREM FreePlacesAreTaken == Spec => []FreePlacesAreClaimed
  <1>1. ASSUME HistogramInv PROVE FreePlacesAreClaimed
    <2> SUFFICES ASSUME Settled, NEW i \in 1 .. Size, values_[i] = 0
                 PROVE  \E t \in Threads : pc[t] = "store" /\ local[t].count = i
      BY DEF FreePlacesAreClaimed
    <2>1. i \in Places /\ i <= count_
      BY <1>1, ConstantFacts DEF Size, Places, HistogramInv, TypeInv
    <2> QED
      BY <1>1, <2>1 DEF HistogramInv, SettledInv, FreeAreClaimed, Storing
  <1> QED
    BY <1>1, HistogramInvariant, PTL

(* The histogram's count and the sample's differ by the updates on their    *)
(* way from one to the other.                                               *)
THEOREM HistogramCountsTheSample == Spec => []CountsAgree
  <1>1. HistogramInv => CountsAgree
    BY DEF HistogramInv, SettledInv, Taking, CountsAgree
  <1> QED
    BY <1>1, HistogramInvariant, PTL
=============================================================================
