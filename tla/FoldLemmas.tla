------------------------------ MODULE FoldLemmas ------------------------------
(***************************************************************************)
(* Facts about the folds of the community modules.  A fold over a finite   *)
(* set is a recursion over its subsets: base for the empty set, and else   *)
(* op of the value at a chosen element and the fold over the others.  It   *)
(* is shown to be well defined and, for an op that does not care, not to   *)
(* depend on what is chosen.  Induction is by a minimal counterexample     *)
(* among the subsets of a finite set.                                      *)
(*                                                                         *)
(* The module is meant to be instantiated with the op and the choice of a  *)
(* fold: sums are one instance, the average of a meter is another.         *)
(***************************************************************************)
EXTENDS Integers, FiniteSets, FiniteSetTheorems, WellFoundedInduction, TLAPS

CONSTANTS Op(_, _), Choice(_)

(* g[s] is the fold of f over s, for the subsets s of S.                    *)
IsFold(base, f, g, S) ==
    g = [s \in SUBSET S |->
            IF s = {} THEN base ELSE Op(f[Choice(s)], g[s \ {Choice(s)}])]

FoldFrom(base, f, S) == CHOOSE g : IsFold(base, f, g, S)
Folded(base, f, S) == FoldFrom(base, f, S)[S]

(* Choice takes an element, whatever of S is left.                          *)
Chooses(S) == \A s \in SUBSET S : s # {} => Choice(s) \in s

(* A set of subsets of a finite set has a minimal member.                   *)
LEMMA MinimalSubset ==
    ASSUME NEW S, IsFiniteSet(S), NEW T \in SUBSET SUBSET S, T # {}
    PROVE  \E x \in T : \A y \in T : y \subseteq x => y = x
  <1>1. \E x \in T : \A y \in T : ~(<<y, x>> \in StrictSubsetOrdering(S))
    BY WFMin, FS_StrictSubsetOrderingWellFounded, FS_FiniteSubsetsOfFinite
  <1> QED
    BY <1>1 DEF StrictSubsetOrdering

(* A finite set of numbers has a greatest.                                  *)
LEMMA GreatestExists ==
    ASSUME NEW S, IsFiniteSet(S), S # {}, \A x \in S : x \in Int
    PROVE  \E x \in S : \A y \in S : x >= y
  <1> DEFINE T == {{y \in S : y > x} : x \in S}
  <1>1. \E U \in T : \A V \in T : V \subseteq U => V = U
    <2>1. T \in SUBSET SUBSET S /\ T # {}
      OBVIOUS
    <2> HIDE DEF T
    <2> QED
      BY <2>1, MinimalSubset
  <1>2. PICK x \in S : \A V \in T : V \subseteq {y \in S : y > x}
                                        => V = {y \in S : y > x}
    BY <1>1
  <1>3. ASSUME NEW y \in S, y > x PROVE FALSE
    <2>1. /\ {z \in S : z > y} \in T
          /\ {z \in S : z > y} \subseteq {z \in S : z > x}
      BY <1>3
    <2>2. y \in {z \in S : z > x} /\ y \notin {z \in S : z > y}
      BY <1>3
    <2> QED
      BY <1>2, <2>1, <2>2
  <1> QED
    BY <1>3

LEMMA FoldStep ==
    ASSUME NEW base, NEW f, NEW g, NEW S, IsFold(base, f, g, S),
           NEW s \in SUBSET S
    PROVE  /\ s = {} => g[s] = base
           /\ s # {} => g[s] = Op(f[Choice(s)], g[s \ {Choice(s)}])
  <1> DEFINE h == [u \in SUBSET S |->
                      IF u = {} THEN base
                      ELSE Op(f[Choice(u)], g[u \ {Choice(u)}])]
  <1>1. g = h
    BY DEF IsFold
  <1>2. h[s] = IF s = {} THEN base ELSE Op(f[Choice(s)], g[s \ {Choice(s)}])
    OBVIOUS
  <1> QED
    BY <1>1, <1>2

(* Two such recursions agree where both are defined.                        *)
LEMMA FoldsAgree ==
    ASSUME NEW base, NEW f, NEW g, NEW h, NEW S, NEW T \in SUBSET S,
           IsFiniteSet(S), Chooses(S),
           IsFold(base, f, g, S), IsFold(base, f, h, T)
    PROVE  \A s \in SUBSET T : g[s] = h[s]
  <1> DEFINE Bad == {s \in SUBSET T : g[s] # h[s]}
  <1> SUFFICES ASSUME Bad # {} PROVE FALSE
    OBVIOUS
  <1>1. IsFiniteSet(T)
    BY FS_Subset
  <1>2. PICK s \in Bad : \A y \in Bad : y \subseteq s => y = s
    <2>1. Bad \in SUBSET SUBSET T /\ Bad # {}
      OBVIOUS
    <2> HIDE DEF Bad
    <2> QED
      BY <1>1, <2>1, MinimalSubset
  <1>3. s \in SUBSET T /\ s \in SUBSET S
    BY <1>2
  <1>4. s # {}
    BY <1>2, <1>3, FoldStep
  <1> DEFINE u == s \ {Choice(s)}
  <1>5. u \in SUBSET T /\ u \subseteq s /\ u # s
    BY <1>3, <1>4 DEF Chooses
  <1>6. g[u] = h[u]
    BY <1>2, <1>5
  <1>7. g[s] = Op(f[Choice(s)], g[u]) /\ h[s] = Op(f[Choice(s)], h[u])
    BY <1>3, <1>4, FoldStep
  <1> QED
    BY <1>2, <1>6, <1>7

LEMMA FoldExists ==
    ASSUME NEW base, NEW f, NEW S, IsFiniteSet(S), Chooses(S)
    PROVE  IsFold(base, f, FoldFrom(base, f, S), S)
  <1> DEFINE Bad == {T \in SUBSET S :
                        ~IsFold(base, f, FoldFrom(base, f, T), T)}
  <1>1. ASSUME Bad # {} PROVE FALSE
    <2>1. PICK T \in Bad : \A y \in Bad : y \subseteq T => y = T
      <3>1. Bad \in SUBSET SUBSET S
        OBVIOUS
      <3> HIDE DEF Bad
      <3> QED
        BY <1>1, <3>1, MinimalSubset
    <2>2. T \in SUBSET S
      BY <2>1
    <2>3. \A u \in SUBSET T : u # T => IsFold(base, f, FoldFrom(base, f, u), u)
      BY <2>1
    <2>4. \A u \in SUBSET T : IsFiniteSet(u) /\ Chooses(u)
      BY <2>2, FS_Subset DEF Chooses
    <2> DEFINE g == [s \in SUBSET T |->
                        IF s = {} THEN base
                        ELSE Op(f[Choice(s)],
                                Folded(base, f, s \ {Choice(s)}))]
    <2>5. ASSUME NEW s \in SUBSET T, s # T PROVE g[s] = Folded(base, f, s)
      <3>1. IsFold(base, f, FoldFrom(base, f, s), s)
        BY <2>3, <2>5
      <3>2. CASE s = {}
        <4>1. FoldFrom(base, f, s)[s] = base
          BY <3>1, <3>2, FoldStep
        <4> QED
          BY <3>2, <4>1 DEF Folded
      <3>3. CASE s # {}
        <4> DEFINE u == s \ {Choice(s)}
        <4>1. u \in SUBSET s /\ u \in SUBSET T /\ u # T
          BY <2>5, <3>3, <2>4 DEF Chooses
        <4>2. IsFold(base, f, FoldFrom(base, f, u), u)
          BY <2>3, <4>1
        <4>3. FoldFrom(base, f, s)[u] = FoldFrom(base, f, u)[u]
          BY <2>4, <3>1, <4>1, <4>2, FoldsAgree
        <4>4. FoldFrom(base, f, s)[s]
                = Op(f[Choice(s)], FoldFrom(base, f, s)[u])
          BY <3>1, <3>3, FoldStep
        <4>5. g[s] = Op(f[Choice(s)], Folded(base, f, u))
          BY <3>3
        <4> QED
          BY <4>3, <4>4, <4>5 DEF Folded
      <3> QED
        BY <3>2, <3>3
    <2>6. ASSUME NEW s \in SUBSET T, s # {}
          PROVE  g[s \ {Choice(s)}] = Folded(base, f, s \ {Choice(s)})
      <3>1. s \ {Choice(s)} \in SUBSET T /\ s \ {Choice(s)} # T
        BY <2>4, <2>6 DEF Chooses
      <3> QED
        BY <2>5, <3>1
    <2>7. g = [s \in SUBSET T |->
                  IF s = {} THEN base
                  ELSE Op(f[Choice(s)], g[s \ {Choice(s)}])]
      BY <2>6
    <2> HIDE DEF g
    <2>8. IsFold(base, f, FoldFrom(base, f, T), T)
      <3>1. IsFold(base, f, g, T)
        BY <2>7 DEF IsFold
      <3> QED
        BY <3>1 DEF FoldFrom
    <2> QED
      BY <2>1, <2>8
  <1> QED
    BY <1>1

-----------------------------------------------------------------------------
(* The recursion of a fold.                                                 *)
LEMMA FoldOfNone ==
    ASSUME NEW base, NEW f
    PROVE  Folded(base, f, {}) = base
  <1>1. IsFiniteSet({}) /\ Chooses({})
    BY FS_EmptySet DEF Chooses
  <1>2. IsFold(base, f, FoldFrom(base, f, {}), {})
    BY <1>1, FoldExists
  <1>3. FoldFrom(base, f, {})[{}] = base
    BY <1>2, FoldStep
  <1> QED
    BY <1>3 DEF Folded

LEMMA FoldOfSome ==
    ASSUME NEW base, NEW f, NEW S, IsFiniteSet(S), Chooses(S), S # {}
    PROVE  Folded(base, f, S)
             = Op(f[Choice(S)], Folded(base, f, S \ {Choice(S)}))
  <1> DEFINE U == S \ {Choice(S)}
  <1>1. U \in SUBSET S /\ IsFiniteSet(U) /\ Chooses(U)
    BY FS_Subset DEF Chooses
  <1>2. /\ IsFold(base, f, FoldFrom(base, f, S), S)
        /\ IsFold(base, f, FoldFrom(base, f, U), U)
    BY <1>1, FoldExists
  <1>3. FoldFrom(base, f, S)[U] = FoldFrom(base, f, U)[U]
    BY <1>1, <1>2, FoldsAgree
  <1>4. FoldFrom(base, f, S)[S] = Op(f[Choice(S)], FoldFrom(base, f, S)[U])
    BY <1>2, FoldStep
  <1> QED
    BY <1>3, <1>4 DEF Folded

(* A fold depends on the values of the set only.                            *)
LEMMA FoldOfEqual ==
    ASSUME NEW base, NEW f, NEW g, NEW S, IsFiniteSet(S), Chooses(S),
           \A x \in S : f[x] = g[x]
    PROVE  Folded(base, f, S) = Folded(base, g, S)
  <1> DEFINE Bad == {T \in SUBSET S : Folded(base, f, T) # Folded(base, g, T)}
  <1>1. ASSUME Bad # {} PROVE FALSE
    <2>1. PICK T \in Bad : \A y \in Bad : y \subseteq T => y = T
      <3>1. Bad \in SUBSET SUBSET S
        OBVIOUS
      <3> HIDE DEF Bad
      <3> QED
        BY <1>1, <3>1, MinimalSubset
    <2>2. T \in SUBSET S /\ Folded(base, f, T) # Folded(base, g, T)
      BY <2>1
    <2>3. T # {}
      BY <2>2, FoldOfNone
    <2>4. Choice(T) \in T /\ IsFiniteSet(T) /\ Chooses(T)
      BY <2>2, <2>3, FS_Subset DEF Chooses
    <2>5. Folded(base, f, T \ {Choice(T)}) = Folded(base, g, T \ {Choice(T)})
      BY <2>1, <2>2, <2>4
    <2>6. f[Choice(T)] = g[Choice(T)]
      BY <2>2, <2>4
    <2>7. /\ Folded(base, f, T)
                = Op(f[Choice(T)], Folded(base, f, T \ {Choice(T)}))
          /\ Folded(base, g, T)
                = Op(g[Choice(T)], Folded(base, g, T \ {Choice(T)}))
      BY <2>3, <2>4, FoldOfSome
    <2> QED
      BY <2>2, <2>5, <2>6, <2>7
  <1> QED
    BY <1>1

(* Op stays within V when one argument is a value of f over S.              *)
Closed(base, f, S, V) ==
    /\ base \in V
    /\ \A x \in S, v \in V : Op(f[x], v) \in V

(* ... and does not care which of two values of f comes first.              *)
Commutes(f, S, V) ==
    \A x, y \in S, v \in V : Op(f[x], Op(f[y], v)) = Op(f[y], Op(f[x], v))

LEMMA FoldType ==
    ASSUME NEW base, NEW f, NEW S, NEW V, IsFiniteSet(S), Chooses(S),
           Closed(base, f, S, V)
    PROVE  \A T \in SUBSET S : Folded(base, f, T) \in V
  <1> DEFINE Bad == {T \in SUBSET S : Folded(base, f, T) \notin V}
  <1>1. ASSUME Bad # {} PROVE FALSE
    <2>1. PICK T \in Bad : \A y \in Bad : y \subseteq T => y = T
      <3>1. Bad \in SUBSET SUBSET S
        OBVIOUS
      <3> HIDE DEF Bad
      <3> QED
        BY <1>1, <3>1, MinimalSubset
    <2>2. T \in SUBSET S /\ Folded(base, f, T) \notin V
      BY <2>1
    <2>3. T # {}
      BY <2>2, FoldOfNone DEF Closed
    <2>4. Choice(T) \in T /\ IsFiniteSet(T) /\ Chooses(T)
      BY <2>2, <2>3, FS_Subset DEF Chooses
    <2>5. Folded(base, f, T \ {Choice(T)}) \in V
      BY <2>1, <2>2, <2>4
    <2>6. Folded(base, f, T)
            = Op(f[Choice(T)], Folded(base, f, T \ {Choice(T)}))
      BY <2>3, <2>4, FoldOfSome
    <2> QED
      BY <2>2, <2>4, <2>5, <2>6 DEF Closed
  <1> QED
    BY <1>1

(* Any element may be taken first.                                          *)
LEMMA FoldWithout ==
    ASSUME NEW base, NEW f, NEW S, NEW V, IsFiniteSet(S), Chooses(S),
           Closed(base, f, S, V), Commutes(f, S, V)
    PROVE  \A x \in S : Folded(base, f, S) = Op(f[x], Folded(base, f, S \ {x}))
  <1> DEFINE Bad == {T \in SUBSET S :
                        \E x \in T : Folded(base, f, T)
                                       # Op(f[x], Folded(base, f, T \ {x}))}
  <1>1. ASSUME Bad # {} PROVE FALSE
    <2>1. PICK T \in Bad : \A y \in Bad : y \subseteq T => y = T
      <3>1. Bad \in SUBSET SUBSET S
        OBVIOUS
      <3> HIDE DEF Bad
      <3> QED
        BY <1>1, <3>1, MinimalSubset
    <2>2. T \in SUBSET S
      BY <2>1
    <2>3. PICK x \in T :
              Folded(base, f, T) # Op(f[x], Folded(base, f, T \ {x}))
      BY <2>1
    <2> DEFINE p == Choice(T)
    <2>4. p \in T /\ IsFiniteSet(T) /\ Chooses(T)
      BY <2>2, <2>3, FS_Subset DEF Chooses
    <2>5. Folded(base, f, T) = Op(f[p], Folded(base, f, T \ {p}))
      BY <2>3, <2>4, FoldOfSome
    <2>6. p # x
      BY <2>3, <2>5
    <2>7. ASSUME NEW U \in SUBSET T, U # T, NEW z \in U
          PROVE  Folded(base, f, U) = Op(f[z], Folded(base, f, U \ {z}))
      BY <2>1, <2>2, <2>7
    <2>8. Folded(base, f, T \ {p}) = Op(f[x], Folded(base, f, (T \ {p}) \ {x}))
      BY <2>3, <2>4, <2>6, <2>7
    <2>9. Folded(base, f, T \ {x}) = Op(f[p], Folded(base, f, (T \ {x}) \ {p}))
      BY <2>3, <2>4, <2>6, <2>7
    <2>10. (T \ {p}) \ {x} = (T \ {x}) \ {p}
      OBVIOUS
    <2>11. Folded(base, f, (T \ {x}) \ {p}) \in V
      BY <2>2, FoldType
    <2>12. x \in S /\ p \in S
      BY <2>2, <2>3, <2>4
    <2> QED
      BY <2>3, <2>5, <2>8, <2>9, <2>10, <2>11, <2>12 DEF Commutes
  <1> QED
    BY <1>1
=============================================================================
