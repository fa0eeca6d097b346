------------------------ MODULE MetricRegistryProofs ------------------------
(***************************************************************************)
(* Proofs about MetricRegistry for any sets of names, threads and objects  *)
(* and any number of metric types: its invariants, and that it implements  *)
(* NameTable.                                                              *)
(***************************************************************************)
EXTENDS MetricRegistry, FiniteSetTheorems, TLAPS

(* What the arguments of a call are at each step: the control of the code.  *)
StepsOf(op) ==
    CASE op = "getOrAdd"     -> {"lock", "find", "build", "addName", "insert",
                                 "unlock"}
      [] op = "addGauge"     -> {"lock", "addName", "insert", "unlock"}
      [] op = "removeMetric" -> {"lock", "eraseEntry", "eraseName", "unlock"}
      [] op = "getMetrics"   -> {"lock", "copy", "unlock"}
      [] op = "count"        -> {"lock", "size", "unlock"}
      [] op = "none"         -> {"idle"}

ArgumentsOK(t) ==
    LET c == call[t]
    IN /\ pc[t] \in StepsOf(c.op)
       /\ c.op = "getOrAdd" =>
             /\ c.type # GaugeType /\ c.name \in Names
             /\ pc[t] \in {"addName", "insert"} => c.metric \in Metrics
             /\ Returning(t) /\ ret[t].status = "ok" => ret[t].metric \in Metrics
       /\ c.op = "addGauge" =>
             c.type = GaugeType /\ c.name \in Names /\ c.metric \in Gauges
       /\ c.op = "removeMetric" => c.name \in Names

TypeInv == TypeOK /\ \A t \in Threads : ArgumentsOK(t)

LEMMA GaugeTypeIsAType == GaugeType \in Types
  BY RegistryAssumption, SMT DEF GaugeType, Types

LEMMA NoneIsApart ==
    None \notin Names /\ None \notin Threads /\ None \notin Objects
  BY RegistryAssumption DEF Objects

LEMMA ClassesAreMetrics ==
    /\ \A type \in Types \ {GaugeType} : ObjectsOf(type) \subseteq Metrics
    /\ ObjectsOf(GaugeType) = Gauges
  BY DEF ObjectsOf

LEMMA AnswerTypes ==
    /\ NoResult \in Results
    /\ \A status \in {"ok", "false", "invalid_argument", "bad_alloc"} :
          /\ Result(status) \in Results
          /\ Result(status).status = status
    /\ \A m \in Objects \cup {None} :
          /\ [Result("ok") EXCEPT !.metric = m] \in Results
          /\ [Result("ok") EXCEPT !.metric = m].metric = m
    /\ \A k \in Nat : [Result("ok") EXCEPT !.size = k] \in Results
    /\ \A r \in Results : [r EXCEPT !.status = "ok"] \in Results
    /\ \A r \in Results, n \in Names, m \in Objects \cup {None} :
          [r EXCEPT !.map[n] = m] \in Results
  BY DEF Result, NoResult, Results, Maps, EmptyMap, Statuses

LEMMA TypeInvInit == Init => TypeInv
  <1> SUFFICES ASSUME Init PROVE TypeInv
    OBVIOUS
  <1>1. TypeOK
    BY GaugeTypeIsAType, AnswerTypes
    DEF Init, TypeOK, Maps, EmptyMap, Steps, Calls, NoCall, NoHandle, Handles,
        Statuses
  <1>2. ASSUME NEW t \in Threads PROVE ArgumentsOK(t)
    BY DEF Init, ArgumentsOK, StepsOf, NoCall, Returning
  <1> QED
    BY <1>1, <1>2 DEF TypeInv

(* What a step finds in the arguments and locals of its call.               *)
LEMMA ControlFacts ==
    ASSUME TypeInv, NEW t \in Threads
    PROVE  /\ pc[t] \in {"find", "build"} =>
                 /\ call[t].op = "getOrAdd" /\ call[t].name \in Names
                 /\ call[t].type \in Types \ {GaugeType}
           /\ pc[t] \in {"addName", "insert"} =>
                 /\ call[t].op \in {"getOrAdd", "addGauge"}
                 /\ call[t].name \in Names /\ call[t].type \in Types
                 /\ call[t].metric \in KindOf(call[t].type)
                 /\ call[t].op = "getOrAdd" => call[t].metric \in Metrics
           /\ pc[t] \in {"eraseEntry", "eraseName"} =>
                 call[t].op = "removeMetric" /\ call[t].name \in Names
           /\ pc[t] = "copy" =>
                 call[t].op = "getMetrics" /\ call[t].type \in Types
           /\ pc[t] = "size" => call[t].op = "count"
  BY DEF TypeInv, TypeOK, ArgumentsOK, StepsOf, Calls, UniqueOps, SharedOps,
         KindOf

(* An object is built of the class that was asked for, if memory lasts.     *)
LEMMA BuildFacts ==
    ASSUME TypeInv, NEW t \in Threads, BuildMetric(t)
    PROVE  \/ Throws(t, "metric")
           \/ \E m \in Metrics \ InUse :
                 /\ m \in ObjectsOf(call[t].type)
                 /\ call' = [call EXCEPT ![t].metric = m]
                 /\ Goto(t, "addName")
                 /\ UNCHANGED <<regVars, todo, ret, held, current>>
  <1>1. call[t].type \in Types \ {GaugeType}
    BY ControlFacts DEF BuildMetric
  <1> QED
    BY <1>1, ClassesAreMetrics DEF BuildMetric

LEMMA SetMetricType ==
    ASSUME TypeOK, NEW type \in Types, NEW n \in Names,
           NEW m \in KindOf(type) \cup {None},
           metric_set_' = [metric_set_ EXCEPT ![type][n] = m]
    PROVE  /\ metric_set_' \in [Types -> Maps]
           /\ \A ty \in Types, nm \in Names :
                 metric_set_'[ty][nm] \in KindOf(ty) \cup {None}
  <1>1. m \in Objects \cup {None}
    BY DEF KindOf, Objects
  <1>2. metric_set_[type] \in Maps
    BY DEF TypeOK
  <1>3. [metric_set_[type] EXCEPT ![n] = m] \in Maps
    BY <1>1, <1>2 DEF Maps
  <1>4. metric_set_' = [metric_set_ EXCEPT
                           ![type] = [metric_set_[type] EXCEPT ![n] = m]]
    OBVIOUS
  <1>5. metric_set_' \in [Types -> Maps]
    BY <1>3, <1>4 DEF TypeOK
  <1>6. ASSUME NEW ty \in Types, NEW nm \in Names
        PROVE  metric_set_'[ty][nm] \in KindOf(ty) \cup {None}
    <2>1. CASE ty # type
      BY <1>4, <2>1 DEF TypeOK
    <2>2. CASE ty = type
      BY <1>2, <1>4, <2>2 DEF TypeOK, Maps
    <2> QED
      BY <2>1, <2>2
  <1> QED
    BY <1>5, <1>6

LEMMA SameArguments ==
    ASSUME NEW u \in Threads, TypeInv,
           pc'[u] = pc[u], call'[u] = call[u], ret'[u] = ret[u]
    PROVE  ArgumentsOK(u)'
  BY DEF TypeInv, ArgumentsOK, Returning

LEMMA EntryTypes ==
    ASSUME TypeOK, NEW type \in Types, NEW n \in Names
    PROVE  /\ metric_set_[type][n] \in Objects \cup {None}
           /\ type # GaugeType => metric_set_[type][n] \in Metrics \cup {None}
  BY DEF TypeOK, Maps, KindOf, Objects

(* Every action keeps the types and the control of the calls.               *)
LEMMA TypeInvStep == TypeInv /\ [Next]_vars => TypeInv'
  <1> SUFFICES ASSUME TypeInv, [Next]_vars PROVE TypeInv'
    OBVIOUS
  <1> USE GaugeTypeIsAType, NoneIsApart
  <1>1. ASSUME NEW t \in Threads, NEW op \in UniqueOps \cup SharedOps,
               NEW type \in Types, NEW n \in Names \cup {None},
               NEW m \in Objects \cup {None},
               Call(t, op, type, n, m),
               op = "getOrAdd" => type # GaugeType /\ n \in Names,
               op = "addGauge" => type = GaugeType /\ n \in Names
                                     /\ m \in Gauges,
               op = "removeMetric" => n \in Names
        PROVE  TypeInv'
    <2>1. TypeOK'
      BY <1>1 DEF TypeInv, TypeOK, Call, Goto, regVars, Steps, Calls, NoHandle,
                  Handles
    <2>2. ASSUME NEW u \in Threads PROVE ArgumentsOK(u)'
      BY <1>1, <2>2 DEF TypeInv, TypeOK, ArgumentsOK, StepsOf, Call, Goto,
                        UniqueOps, SharedOps, Returning
    <2> QED
      BY <2>1, <2>2 DEF TypeInv
  <1>2. ASSUME NEW t \in Threads, AcquireUnique(t) PROVE TypeInv'
    <2>1. TypeOK'
      BY <1>2
      DEF TypeInv, TypeOK, AcquireUnique, Goto, regVars, FirstUniqueStep,
          UniqueOps, Steps
    <2>2. ASSUME NEW u \in Threads PROVE ArgumentsOK(u)'
      BY <1>2, <2>2
      DEF TypeInv, TypeOK, ArgumentsOK, StepsOf, AcquireUnique, Goto, regVars,
          Calls, Returning, FirstUniqueStep, UniqueOps
    <2> QED
      BY <2>1, <2>2 DEF TypeInv
  <1>3. ASSUME NEW t \in Threads, AcquireShared(t) PROVE TypeInv'
    <2>1. TypeOK'
      BY <1>3, AnswerTypes
      DEF TypeInv, TypeOK, AcquireShared, Goto, regVars, SharedOps, Steps
    <2>2. ASSUME NEW u \in Threads PROVE ArgumentsOK(u)'
      BY <1>3, <2>2
      DEF TypeInv, TypeOK, ArgumentsOK, StepsOf, AcquireShared, Goto, regVars,
          Calls, Returning, SharedOps, UniqueOps
    <2> QED
      BY <2>1, <2>2 DEF TypeInv
  <1>4. ASSUME NEW t \in Threads, Find(t) PROVE TypeInv'
    <2>1. TypeOK'
      <3>1. metric_set_[call[t].type][call[t].name] \in Metrics \cup {None}
        BY <1>4, ControlFacts, EntryTypes
        DEF TypeInv, Find
      <3>2. ret' \in [Threads -> Results]
        BY <1>4, <3>1, AnswerTypes
        DEF TypeInv, TypeOK, Find, Finish, Objects
      <3>3. pc' \in [Threads -> Steps]
        BY <1>4
        DEF TypeInv, TypeOK, Find, Finish, Goto, Steps
      <3>4. current' \in [Threads -> BOOLEAN]
        BY <1>4
        DEF TypeInv, TypeOK, Find
      <3> QED
        BY <1>4, <3>1, <3>2, <3>3, <3>4
        DEF TypeInv, TypeOK, regVars, Find
    <2>2. ASSUME NEW u \in Threads PROVE ArgumentsOK(u)'
      <3>1. CASE u # t
        BY <1>4, <3>1, SameArguments
        DEF TypeInv, TypeOK, Find, Goto, regVars, Finish, Objects
      <3>2. CASE u = t
        <4>1. /\ pc[t] = "find" /\ call' = call
              /\ metric_set_[call[t].type][call[t].name] \in Metrics \cup {None}
          BY <1>4, ControlFacts, EntryTypes DEF TypeInv, Find
        <4>2. CASE metric_set_[call[t].type][call[t].name] # None
          <5>1. pc'[t] = "unlock" /\ ret'[t].metric \in Metrics
            BY <1>4, <4>1, <4>2, AnswerTypes
            DEF TypeInv, TypeOK, Find, Finish, Goto, Objects
          <5> QED
            BY <3>2, <4>1, <5>1, ControlFacts
            DEF TypeInv, ArgumentsOK, StepsOf, Returning
        <4>3. CASE metric_set_[call[t].type][call[t].name] = None
          <5>1. pc'[t] = "build"
            BY <1>4, <4>3 DEF TypeInv, TypeOK, Find, Finish, Goto
          <5> QED
            BY <3>2, <4>1, <5>1, ControlFacts
            DEF TypeInv, ArgumentsOK, StepsOf, Returning
        <4> QED
          BY <4>2, <4>3
      <3> QED
        BY <3>1, <3>2
    <2> QED
      BY <2>1, <2>2 DEF TypeInv
  <1>5. ASSUME NEW t \in Threads, BuildMetric(t) PROVE TypeInv'
    <2>1. TypeOK'
      <3>1. ret' \in [Threads -> Results]
        BY <1>5, AnswerTypes
        DEF TypeInv, TypeOK, BuildMetric, Throws, Finish
      <3>2. pc' \in [Threads -> Steps]
        BY <1>5
        DEF TypeInv, TypeOK, BuildMetric, Throws, Finish, Goto, Steps
      <3>3. call' \in [Threads -> Calls]
        <4>1. ASSUME NEW m \in Metrics,
                     call' = [call EXCEPT ![t].metric = m]
              PROVE  call' \in [Threads -> Calls]
          <5>1. call[t] \in Calls
            BY DEF TypeInv, TypeOK
          <5>2. [call[t] EXCEPT !.metric = m] \in Calls
            BY <5>1 DEF Calls, Objects
          <5> QED
            BY <4>1, <5>2 DEF TypeInv, TypeOK
        <4>2. CASE UNCHANGED call
          BY <4>2 DEF TypeInv, TypeOK
        <4> QED
          BY <1>5, <4>1, <4>2, BuildFacts DEF Throws
      <3>4. UNCHANGED <<regVars, todo, held, current>>
        BY <1>5
        DEF BuildMetric, Throws
      <3> QED
        BY <1>5, <3>1, <3>2, <3>3, <3>4
        DEF TypeInv, TypeOK, regVars
    <2>2. ASSUME NEW u \in Threads PROVE ArgumentsOK(u)'
      <3>1. CASE u # t
        BY <1>5, <3>1, SameArguments
        DEF TypeInv, TypeOK, BuildMetric, Goto, regVars, Finish, Throws,
            Objects
      <3>2. CASE u = t
        <4>1. pc[t] = "build"
          BY <1>5 DEF BuildMetric
        <4>2. CASE Throws(t, "metric")
          <5>1. call' = call /\ pc'[t] = "unlock" /\ ret'[t].status # "ok"
            BY <4>2, AnswerTypes DEF TypeInv, TypeOK, Throws, Finish, Goto
          <5> QED
            BY <3>2, <4>1, <5>1, ControlFacts
            DEF TypeInv, ArgumentsOK, StepsOf, Returning
        <4>3. ASSUME NEW m \in Metrics,
                     call' = [call EXCEPT ![t].metric = m], Goto(t, "addName")
              PROVE  ArgumentsOK(u)'
          <5>1. /\ pc'[t] = "addName"
                /\ call'[t] = [call[t] EXCEPT !.metric = m]
                /\ call[t] \in Calls
            BY <4>3 DEF TypeInv, TypeOK, Goto
          <5>2. /\ call'[t].op = call[t].op /\ call'[t].type = call[t].type
                /\ call'[t].name = call[t].name /\ call'[t].metric = m
            BY <5>1 DEF Calls
          <5> QED
            BY <3>2, <4>1, <5>1, <5>2, ControlFacts
            DEF ArgumentsOK, StepsOf, Returning
        <4> QED
          BY <1>5, <4>2, <4>3, BuildFacts
      <3> QED
        BY <3>1, <3>2
    <2> QED
      BY <2>1, <2>2 DEF TypeInv
  <1>6. ASSUME NEW t \in Threads, AddName(t) PROVE TypeInv'
    <2>1. TypeOK'
      <3>1. ret' \in [Threads -> Results]
        BY <1>6, AnswerTypes
        DEF TypeInv, TypeOK, AddName, Throws, Finish, regVars
      <3>2. pc' \in [Threads -> Steps]
        BY <1>6
        DEF TypeInv, TypeOK, AddName, Throws, Finish, Goto, Steps
      <3>3. metric_names_' \subseteq Names
        BY <1>6, ControlFacts
        DEF TypeInv, TypeOK, AddName, Throws, regVars
      <3>4. UNCHANGED <<metric_set_, orphaned, writer, readers, call, todo,
                       held, current>>
        BY <1>6
        DEF AddName, Throws, regVars
      <3> QED
        BY <1>6, <3>1, <3>2, <3>3, <3>4
        DEF TypeInv, TypeOK, regVars
    <2>2. ASSUME NEW u \in Threads PROVE ArgumentsOK(u)'
      <3>1. CASE u # t
        BY <1>6, <3>1, SameArguments
        DEF TypeInv, TypeOK, AddName, Goto, regVars, Finish, Throws
      <3>2. CASE u = t
        <4>1. pc[t] = "addName" /\ call' = call
          BY <1>6 DEF AddName, Throws, regVars
        <4>2. \/ pc'[t] = "insert"
              \/ pc'[t] = "unlock" /\ ret'[t].status # "ok"
          BY <1>6, AnswerTypes
          DEF TypeInv, TypeOK, AddName, Throws, Finish, Goto
        <4>3. ArgumentsOK(t)
          BY DEF TypeInv
        <4> QED
          BY <3>2, <4>1, <4>2, <4>3, ControlFacts
          DEF ArgumentsOK, StepsOf, Returning
      <3> QED
        BY <3>1, <3>2
    <2> QED
      BY <2>1, <2>2 DEF TypeInv
  <1>7. ASSUME NEW t \in Threads, InsertMetric(t) PROVE TypeInv'
    <2>1. TypeOK'
      <3>1. ret' \in [Threads -> Results]
        BY <1>7, ControlFacts, AnswerTypes
        DEF TypeInv, TypeOK, InsertMetric, InsertThrows, Finish, Objects
      <3>2. pc' \in [Threads -> Steps]
        BY <1>7
        DEF TypeInv, TypeOK, InsertMetric, InsertThrows, Finish, Goto, Steps
      <3>3. /\ metric_set_' \in [Types -> Maps]
            /\ \A type \in Types, n \in Names :
                  metric_set_'[type][n] \in KindOf(type) \cup {None}
        <4>1. CASE metric_set_' = [metric_set_ EXCEPT
                      ![call[t].type][call[t].name] = call[t].metric]
          BY <1>7, <4>1, ControlFacts, SetMetricType DEF TypeInv, InsertMetric
        <4>2. CASE UNCHANGED metric_set_
          BY <4>2 DEF TypeInv, TypeOK
        <4> QED
          BY <1>7, <4>1, <4>2 DEF InsertMetric, InsertThrows, regVars
      <3>4. current' \in [Threads -> BOOLEAN]
        BY <1>7
        DEF TypeInv, TypeOK, InsertMetric, InsertThrows
      <3>5. UNCHANGED <<metric_names_, writer, readers, call, todo, held>>
        BY <1>7
        DEF InsertMetric, InsertThrows, regVars
      <3>6. orphaned' \subseteq Names
        BY <1>7, ControlFacts
        DEF TypeInv, TypeOK, InsertMetric, InsertThrows
      <3> QED
        BY <1>7, <3>1, <3>2, <3>3, <3>4, <3>5, <3>6
        DEF TypeInv, TypeOK, regVars
    <2>2. ASSUME NEW u \in Threads PROVE ArgumentsOK(u)'
      <3>1. CASE u # t
        BY <1>7, <3>1, SameArguments
        DEF TypeInv, TypeOK, InsertMetric, InsertThrows, Goto, regVars, Finish,
            Objects
      <3>2. CASE u = t
        <4>1. /\ pc[t] = "insert" /\ call' = call /\ pc'[t] = "unlock"
          BY <1>7
          DEF TypeInv, TypeOK, InsertMetric, InsertThrows, Finish, Goto
        <4>2. call[t].op = "getOrAdd" /\ ret'[t].status = "ok" =>
                  ret'[t].metric \in Metrics
          <5>1. CASE InsertThrows(t)
            BY <5>1, AnswerTypes DEF TypeInv, TypeOK, InsertThrows, Finish
          <5>2. CASE ~InsertThrows(t)
            <6>1. call[t].op = "getOrAdd" => ret'[t] =
                      [Result("ok") EXCEPT !.metric = call[t].metric]
              BY <1>7, <5>2 DEF TypeInv, TypeOK, InsertMetric, Finish
            <6>2. [Result("ok") EXCEPT !.metric = call[t].metric].metric
                      = call[t].metric
              BY DEF Result, NoResult
            <6>3. call[t].op = "getOrAdd" => call[t].metric \in Metrics
              BY <4>1, ControlFacts
            <6> QED
              BY <6>1, <6>2, <6>3
          <5> QED
            BY <5>1, <5>2
        <4> QED
          BY <3>2, <4>1, <4>2, ControlFacts
          DEF TypeInv, ArgumentsOK, StepsOf, Returning
      <3> QED
        BY <3>1, <3>2
    <2> QED
      BY <2>1, <2>2 DEF TypeInv
  <1>8. ASSUME NEW t \in Threads, EraseEntry(t) PROVE TypeInv'
    <2>1. TypeOK'
      <3>1. ret' \in [Threads -> Results]
        BY <1>8, AnswerTypes
        DEF TypeInv, TypeOK, EraseEntry, Finish
      <3>2. pc' \in [Threads -> Steps]
        BY <1>8
        DEF TypeInv, TypeOK, EraseEntry, Finish, Goto, Steps
      <3>3. /\ metric_set_' \in [Types -> Maps]
            /\ \A type \in Types, n \in Names :
                  metric_set_'[type][n] \in KindOf(type) \cup {None}
        <4>1. ASSUME NEW type \in Types,
                     metric_set_' = [metric_set_ EXCEPT
                                        ![type][call[t].name] = None]
              PROVE  /\ metric_set_' \in [Types -> Maps]
                     /\ \A ty \in Types, n \in Names :
                           metric_set_'[ty][n] \in KindOf(ty) \cup {None}
          BY <1>8, <4>1, ControlFacts, SetMetricType DEF TypeInv, EraseEntry
        <4>2. CASE UNCHANGED metric_set_
          BY <4>2 DEF TypeInv, TypeOK
        <4> QED
          BY <1>8, <4>1, <4>2 DEF EraseEntry, TypesHolding
      <3>4. current' \in [Threads -> BOOLEAN]
        BY <1>8
        DEF TypeInv, TypeOK, EraseEntry, Expire
      <3>5. UNCHANGED <<metric_names_, writer, readers, call, todo, held>>
        BY <1>8
        DEF EraseEntry
      <3>6. orphaned' \subseteq Names
        BY <1>8, ControlFacts
        DEF TypeInv, TypeOK, EraseEntry
      <3> QED
        BY <1>8, <3>1, <3>2, <3>3, <3>4, <3>5, <3>6
        DEF TypeInv, TypeOK, regVars
    <2>2. ASSUME NEW u \in Threads PROVE ArgumentsOK(u)'
      <3>1. CASE u # t
        BY <1>8, <3>1, SameArguments
        DEF TypeInv, TypeOK, EraseEntry, Goto, regVars, Finish
      <3>2. CASE u = t
        BY <1>8, <3>2, ControlFacts
        DEF TypeInv, TypeOK, ArgumentsOK, StepsOf, EraseEntry, Goto, regVars,
            Calls, Returning, Finish
      <3> QED
        BY <3>1, <3>2
    <2> QED
      BY <2>1, <2>2 DEF TypeInv
  <1>9. ASSUME NEW t \in Threads, EraseName(t) PROVE TypeInv'
    <2>1. TypeOK'
      BY <1>9, AnswerTypes
      DEF TypeInv, TypeOK, EraseName, Goto, regVars, Finish, Steps
    <2>2. ASSUME NEW u \in Threads PROVE ArgumentsOK(u)'
      <3>1. CASE u # t
        BY <1>9, <3>1, SameArguments
        DEF TypeInv, TypeOK, EraseName, Goto, regVars, Finish
      <3>2. CASE u = t
        BY <1>9, <3>2, ControlFacts
        DEF TypeInv, TypeOK, ArgumentsOK, StepsOf, EraseName, Goto, regVars,
            Calls, Returning, Finish
      <3> QED
        BY <3>1, <3>2
    <2> QED
      BY <2>1, <2>2 DEF TypeInv
  <1>10. ASSUME NEW t \in Threads, CopyEntry(t) PROVE TypeInv'
    <2>1. TypeOK'
      BY <1>10, AnswerTypes
      DEF TypeInv, TypeOK, CopyEntry, Goto, regVars, Maps, Calls
    <2>2. ASSUME NEW u \in Threads PROVE ArgumentsOK(u)'
      BY <1>10, <2>2
      DEF TypeInv, TypeOK, ArgumentsOK, StepsOf, CopyEntry, Goto, regVars,
          Calls, Returning
    <2> QED
      BY <2>1, <2>2 DEF TypeInv
  <1>11. ASSUME NEW t \in Threads, EndCopy(t) PROVE TypeInv'
    <2>1. TypeOK'
      BY <1>11, AnswerTypes
      DEF TypeInv, TypeOK, EndCopy, Goto, regVars, Finish, Steps
    <2>2. ASSUME NEW u \in Threads PROVE ArgumentsOK(u)'
      <3>1. CASE u # t
        BY <1>11, <3>1, SameArguments
        DEF TypeInv, TypeOK, EndCopy, Goto, regVars, Finish
      <3>2. CASE u = t
        BY <1>11, <3>2, ControlFacts
        DEF TypeInv, TypeOK, ArgumentsOK, StepsOf, EndCopy, Goto, regVars,
            Calls, Returning, Finish
      <3> QED
        BY <3>1, <3>2
    <2> QED
      BY <2>1, <2>2 DEF TypeInv
  <1>12. ASSUME NEW t \in Threads, Count(t) PROVE TypeInv'
    <2>1. TypeOK'
      BY <1>12, AnswerTypes, FS_CardinalityType, FS_Subset, RegistryAssumption
      DEF TypeInv, TypeOK, Count, Goto, regVars, Finish, Steps
    <2>2. ASSUME NEW u \in Threads PROVE ArgumentsOK(u)'
      <3>1. CASE u # t
        BY <1>12, <3>1, SameArguments
        DEF TypeInv, TypeOK, Count, Goto, regVars, Finish
      <3>2. CASE u = t
        BY <1>12, <3>2, ControlFacts
        DEF TypeInv, TypeOK, ArgumentsOK, StepsOf, Count, Goto, regVars, Calls,
            Returning, Finish
      <3> QED
        BY <3>1, <3>2
    <2> QED
      BY <2>1, <2>2 DEF TypeInv
  <1>13. ASSUME NEW t \in Threads, Return(t) PROVE TypeInv'
    <2>1. TypeOK'
      <3>1. ret' \in [Threads -> Results]
        BY <1>13, AnswerTypes
        DEF TypeInv, TypeOK, Return
      <3>2. pc' \in [Threads -> Steps]
        BY <1>13
        DEF TypeInv, TypeOK, Return, Goto, Steps
      <3>3. call' \in [Threads -> Calls]
        BY <1>13
        DEF TypeInv, TypeOK, Return, Calls, NoCall
      <3>4. held' \in [Threads -> Handles]
        BY <1>13
        DEF TypeInv, TypeOK, Return, Returning, Handles, ArgumentsOK, StepsOf,
            Calls
      <3>5. writer' \in Threads \cup {None} /\ readers' \subseteq Threads
        BY <1>13
        DEF TypeInv, TypeOK, Return
      <3>6. UNCHANGED <<metric_names_, metric_set_, orphaned, todo, current>>
        BY <1>13
        DEF Return
      <3> QED
        BY <1>13, <3>1, <3>2, <3>3, <3>4, <3>5, <3>6
        DEF TypeInv, TypeOK, regVars
    <2>2. ASSUME NEW u \in Threads PROVE ArgumentsOK(u)'
      <3>1. CASE u # t
        BY <1>13, <3>1, SameArguments
        DEF TypeInv, TypeOK, Return, Goto, regVars, NoCall
      <3>2. CASE u = t
        BY <1>13, <3>2, ControlFacts
        DEF TypeInv, TypeOK, ArgumentsOK, StepsOf, Return, Goto, regVars,
            Calls, Returning, NoCall
      <3> QED
        BY <3>1, <3>2
    <2> QED
      BY <2>1, <2>2 DEF TypeInv
  <1>14. CASE UNCHANGED vars
    BY <1>14 DEF TypeInv, TypeOK, ArgumentsOK, Returning, vars, regVars, thrVars
  <1>15. ASSUME NEW t \in Threads,
                ClientCall(t) \/ CallGetMetrics(t) \/ CallCount(t)
         PROVE  TypeInv'
    BY <1>1, <1>15
    DEF ClientCall, CallGetOrAdd, CallAddGauge, CallRemoveMetric,
        CallGetMetrics, CallCount, UniqueOps, SharedOps, Objects
  <1> QED
    BY <1>2, <1>3, <1>4, <1>5, <1>6, <1>7, <1>8,
       <1>9, <1>10, <1>11, <1>12, <1>13, <1>14, <1>15
    DEF Next, Run, Acquire, GetOrAddStep, AddMetricStep, RemoveMetricStep,
        GetMetricsStep

-----------------------------------------------------------------------------
(* The lock. *)

WriterSteps == {"find", "build", "addName", "insert", "eraseEntry", "eraseName"}
ReaderSteps == {"copy", "size"}

(* The steps between the acquisition of the lock and its release.           *)
InnerStep(t) ==
    \/ Find(t) \/ BuildMetric(t) \/ AddName(t) \/ InsertMetric(t)
    \/ EraseEntry(t) \/ EraseName(t) \/ CopyEntry(t) \/ EndCopy(t) \/ Count(t)

LEMMA InnerStepKeepsLock ==
    ASSUME TypeInv, NEW t \in Threads, InnerStep(t)
    PROVE  /\ writer' = writer /\ readers' = readers
           /\ pc[t] \in WriterSteps \cup ReaderSteps
           /\ pc'[t] \in (WriterSteps \cup ReaderSteps \cup {"unlock"})
           /\ \A u \in Threads \ {t} : pc'[u] = pc[u]
           /\ \A u \in Threads : call'[u].op = call[u].op
  <1> USE DEF TypeInv, TypeOK, WriterSteps, ReaderSteps, Goto, regVars
  <1>1. CASE Find(t)
    BY <1>1 DEF Find, Finish
  <1>2. CASE BuildMetric(t)
    <2>1. CASE Throws(t, "metric")
      BY <1>2, <2>1 DEF BuildMetric, Throws, Finish
    <2>2. ASSUME NEW m \in Metrics, call' = [call EXCEPT ![t].metric = m]
          PROVE  \A u \in Threads : call'[u].op = call[u].op
      <3>1. call'[t].op = call[t].op
        BY <2>2 DEF Calls
      <3> QED
        BY <2>2, <3>1
    <2>3. writer' = writer /\ readers' = readers /\ pc[t] = "build"
      BY <1>2 DEF BuildMetric, Throws
    <2> QED
      BY <1>2, <2>1, <2>2, <2>3, BuildFacts
  <1>3. CASE AddName(t)
    BY <1>3 DEF AddName, Throws, Finish
  <1>4. CASE InsertMetric(t)
    BY <1>4 DEF InsertMetric, InsertThrows, Finish
  <1>5. CASE EraseEntry(t) \/ EraseName(t)
    BY <1>5 DEF EraseEntry, EraseName, Finish
  <1>6. CASE CopyEntry(t) \/ EndCopy(t) \/ Count(t)
    BY <1>6 DEF CopyEntry, EndCopy, Count, Finish
  <1> QED
    BY <1>1, <1>2, <1>3, <1>4, <1>5, <1>6 DEF InnerStep

LEMMA LockInit == Init => LockDiscipline
  BY NoneIsApart DEF Init, LockDiscipline, InCall

(* The lock discipline holds from step to step.                             *)
LEMMA LockStep == TypeInv /\ LockDiscipline /\ [Next]_vars => LockDiscipline'
  <1> SUFFICES ASSUME TypeInv, LockDiscipline, [Next]_vars
               PROVE  LockDiscipline'
    OBVIOUS
  <1> USE NoneIsApart
  <1>1. ASSUME NEW t \in Threads, InnerStep(t) PROVE LockDiscipline'
    BY <1>1, InnerStepKeepsLock
    DEF LockDiscipline, InCall, WriterSteps, ReaderSteps
  <1>2. ASSUME NEW t \in Threads, NEW op, NEW type, NEW n, NEW m,
               Call(t, op, type, n, m)
        PROVE  LockDiscipline'
    BY <1>2 DEF TypeInv, TypeOK, LockDiscipline, InCall, Call, Goto, regVars
  <1>3. ASSUME NEW t \in Threads, AcquireUnique(t) PROVE LockDiscipline'
    BY <1>3
    DEF TypeInv, TypeOK, LockDiscipline, InCall, AcquireUnique, Goto,
        UniqueLockIsFree, FirstUniqueStep, UniqueOps, SharedOps
  <1>4. ASSUME NEW t \in Threads, AcquireShared(t) PROVE LockDiscipline'
    BY <1>4
    DEF TypeInv, TypeOK, LockDiscipline, InCall, AcquireShared, Goto,
        SharedLockIsFree, UniqueOps, SharedOps
  <1>5. ASSUME NEW t \in Threads, Return(t) PROVE LockDiscipline'
    BY <1>5
    DEF TypeInv, TypeOK, LockDiscipline, InCall, Return, Goto, NoCall,
        UniqueOps, SharedOps
  <1>6. CASE UNCHANGED vars
    BY <1>6 DEF LockDiscipline, InCall, vars, regVars, thrVars
  <1> QED
    BY <1>1, <1>2, <1>3, <1>4, <1>5, <1>6
    DEF Next, Run, Acquire, GetOrAddStep, AddMetricStep, RemoveMetricStep,
        GetMetricsStep, InnerStep, ClientCall, CallGetOrAdd, CallAddGauge,
        CallRemoveMetric, CallGetMetrics, CallCount

(* Whoever changes the containers owns the lock alone; whoever copies them  *)
(* knows that nobody changes them.                                          *)
LEMMA Exclusion ==
    ASSUME TypeInv, LockDiscipline, NEW t \in Threads, NEW u \in Threads,
           pc[t] \in WriterSteps, u # t
    PROVE  pc[u] \notin WriterSteps \cup ReaderSteps
  BY NoneIsApart
  DEF TypeInv, TypeOK, ArgumentsOK, StepsOf, Calls, LockDiscipline, InCall,
      WriterSteps, ReaderSteps, UniqueOps, SharedOps

-----------------------------------------------------------------------------
(* The containers.  metric_names_ and the maps agree but for the name the   *)
(* writer has in hand, which is in the set and in no map.                   *)

Holds(type, n) == metric_set_[type][n] # None
HalfDone(t) == pc[t] \in {"insert", "eraseName"}

EntriesNamed == \A type \in Types, n \in Names :
                    Holds(type, n) => n \in metric_names_
OneTypePerName == \A type, other \in Types, n \in Names :
                      Holds(type, n) /\ Holds(other, n) => type = other
HalfDoneIsEmpty == \A t \in Threads : HalfDone(t) =>
                       /\ call[t].name \in metric_names_
                       /\ \A type \in Types : ~Holds(type, call[t].name)
TableInv == EntriesNamed /\ OneTypePerName /\ HalfDoneIsEmpty

(* The names without an entry are those of the writer and the orphans.      *)
NamesHaveEntries ==
    \A n \in metric_names_ :
        \/ \E type \in Types : Holds(type, n)
        \/ \E t \in Threads : HalfDone(t) /\ call[t].name = n
        \/ n \in orphaned
OrphansAreEmpty ==
    \A n \in orphaned :
        /\ n \in metric_names_
        /\ \A type \in Types : ~Holds(type, n)
        /\ \A t \in Threads : HalfDone(t) => call[t].name # n
NamesInv == NamesHaveEntries /\ OrphansAreEmpty

(* Steps that leave the containers alone.                                   *)
QuietStep(t) ==
    \/ \E op, type, n, m : Call(t, op, type, n, m)
    \/ AcquireUnique(t) \/ AcquireShared(t) \/ Find(t) \/ BuildMetric(t)
    \/ CopyEntry(t) \/ EndCopy(t) \/ Count(t) \/ Return(t)

LEMMA QuietFacts ==
    ASSUME TypeInv, NEW t \in Threads, QuietStep(t)
    PROVE  /\ metric_names_' = metric_names_ /\ metric_set_' = metric_set_
           /\ orphaned' = orphaned
           /\ ~HalfDone(t) /\ ~HalfDone(t)'
           /\ \A u \in Threads \ {t} : pc'[u] = pc[u] /\ call'[u] = call[u]
  <1> USE DEF TypeInv, TypeOK, HalfDone, Goto, regVars
  <1>1. ASSUME NEW op, NEW type, NEW n, NEW m, Call(t, op, type, n, m)
        PROVE  /\ metric_names_' = metric_names_ /\ metric_set_' = metric_set_
               /\ orphaned' = orphaned
               /\ ~HalfDone(t) /\ ~HalfDone(t)'
               /\ \A u \in Threads \ {t} : pc'[u] = pc[u] /\ call'[u] = call[u]
    BY <1>1 DEF Call
  <1>2. CASE AcquireUnique(t)
    BY <1>2 DEF AcquireUnique, FirstUniqueStep, UniqueOps
  <1>3. CASE AcquireShared(t)
    BY <1>3 DEF AcquireShared
  <1>4. CASE Find(t)
    BY <1>4 DEF Find, Finish
  <1>5. CASE BuildMetric(t)
    BY <1>5 DEF BuildMetric, Throws, Finish
  <1>6. CASE CopyEntry(t) \/ EndCopy(t) \/ Count(t)
    BY <1>6 DEF CopyEntry, EndCopy, Count, Finish
  <1>7. CASE Return(t)
    BY <1>7 DEF Return
  <1> QED
    BY <1>1, <1>2, <1>3, <1>4, <1>5, <1>6, <1>7 DEF QuietStep

(* Next, by what a step does to the containers.                             *)
LEMMA NextCases ==
    ASSUME [Next]_vars
    PROVE  \/ UNCHANGED vars
           \/ \E t \in Threads :
                 QuietStep(t) \/ AddName(t) \/ InsertMetric(t)
                 \/ EraseEntry(t) \/ EraseName(t)
  BY DEF Next, Run, Acquire, GetOrAddStep, AddMetricStep, RemoveMetricStep,
         GetMetricsStep, ClientCall, CallGetOrAdd, CallAddGauge,
         CallRemoveMetric, CallGetMetrics, CallCount, QuietStep

LEMMA TableInit == Init => TableInv /\ NamesInv
  BY DEF Init, TableInv, EntriesNamed, OneTypePerName, HalfDoneIsEmpty, HalfDone,
         NamesInv, NamesHaveEntries, OrphansAreEmpty, Holds, EmptyMap

(* While one writer works, no other thread is half done with a name.        *)
LEMMA OthersAreNotHalfDone ==
    ASSUME TypeInv, LockDiscipline, NEW t \in Threads, NEW u \in Threads,
           pc[t] \in WriterSteps, u # t
    PROVE  ~HalfDone(u)
  BY Exclusion DEF HalfDone, WriterSteps

LEMMA TableStep ==
    TypeInv /\ LockDiscipline /\ TableInv /\ [Next]_vars => TableInv'
  <1> SUFFICES ASSUME TypeInv, LockDiscipline, TableInv, [Next]_vars
               PROVE  TableInv'
    OBVIOUS
  <1> USE DEF TableInv, EntriesNamed, OneTypePerName, HalfDoneIsEmpty, Holds
  <1>1. ASSUME NEW t \in Threads, QuietStep(t) PROVE TableInv'
    BY <1>1, QuietFacts DEF HalfDone
  <1>2. ASSUME NEW t \in Threads, AddName(t) PROVE TableInv'
    <2>1. /\ pc[t] = "addName" /\ metric_set_' = metric_set_
          /\ \A u \in Threads \ {t} : pc'[u] = pc[u] /\ call'[u] = call[u]
          /\ \A u \in Threads \ {t} : ~HalfDone(u)
      BY <1>2, OthersAreNotHalfDone
      DEF TypeInv, TypeOK, AddName, Throws, Finish, Goto, regVars, WriterSteps
    <2>2. CASE pc'[t] = "insert"
      <3>1. /\ call[t].name \notin metric_names_ /\ call' = call
            /\ metric_names_' = metric_names_ \cup {call[t].name}
            /\ call[t].name \in Names
        BY <1>2, <2>1, <2>2, ControlFacts
        DEF TypeInv, TypeOK, AddName, Throws, Finish, Goto
      <3> QED
        BY <2>1, <2>2, <3>1 DEF HalfDone
    <2>3. CASE pc'[t] # "insert"
      <3>1. metric_names_' = metric_names_ /\ pc'[t] = "unlock"
        BY <1>2, <2>3
        DEF TypeInv, TypeOK, AddName, Throws, Finish, Goto, regVars
      <3> QED
        BY <2>1, <3>1 DEF HalfDone
    <2> QED
      BY <2>2, <2>3
  <1>3. ASSUME NEW t \in Threads, InsertMetric(t) PROVE TableInv'
    <2>1. /\ pc[t] = "insert" /\ metric_names_' = metric_names_
          /\ pc'[t] = "unlock"
          /\ \A u \in Threads \ {t} : pc'[u] = pc[u]
          /\ \A u \in Threads \ {t} : ~HalfDone(u)
      BY <1>3, OthersAreNotHalfDone
      DEF TypeInv, TypeOK, InsertMetric, InsertThrows, Finish, Goto, regVars,
          WriterSteps
    <2>2. HalfDoneIsEmpty'
      BY <2>1 DEF HalfDone
    <2>3. CASE metric_set_' = metric_set_
      BY <2>1, <2>2, <2>3
    <2>4. CASE metric_set_' = [metric_set_ EXCEPT
                   ![call[t].type][call[t].name] = call[t].metric]
      <3>1. /\ call[t].type \in Types /\ call[t].name \in Names
            /\ call[t].name \in metric_names_
            /\ \A type \in Types : metric_set_[type][call[t].name] = None
        BY <2>1, ControlFacts DEF HalfDone
      <3>2. \A type \in Types, n \in Names :
                metric_set_'[type][n] # metric_set_[type][n] =>
                    type = call[t].type /\ n = call[t].name
        BY <2>4 DEF TypeInv, TypeOK, Maps
      <3> QED
        BY <2>1, <2>2, <3>1, <3>2
    <2> QED
      BY <1>3, <2>3, <2>4 DEF InsertMetric, InsertThrows, regVars
  <1>4. ASSUME NEW t \in Threads, EraseEntry(t) PROVE TableInv'
    <2>1. /\ pc[t] = "eraseEntry" /\ metric_names_' = metric_names_
          /\ call' = call /\ call[t].name \in Names
          /\ pc'[t] = "eraseName" => call[t].name \in metric_names_
          /\ \A u \in Threads \ {t} : pc'[u] = pc[u] /\ ~HalfDone(u)
      BY <1>4, OthersAreNotHalfDone, ControlFacts
      DEF TypeInv, TypeOK, EraseEntry, Finish, Goto, WriterSteps
    <2>2. \A type \in Types, n \in Names :
              metric_set_'[type][n] \in {metric_set_[type][n], None}
      BY <1>4, <2>1 DEF TypeInv, TypeOK, EraseEntry, Maps, TypesHolding
    <2>3. pc'[t] = "eraseName" =>
              \A type \in Types : metric_set_'[type][call[t].name] = None
      <3>1. ASSUME NEW type \in TypesHolding(call[t].name),
                   metric_set_' = [metric_set_ EXCEPT ![type][call[t].name] = None]
            PROVE  \A other \in Types : metric_set_'[other][call[t].name] = None
        BY <2>1, <3>1 DEF TypeInv, TypeOK, Maps, TypesHolding
      <3>2. CASE TypesHolding(call[t].name) = {} /\ UNCHANGED metric_set_
        BY <3>2 DEF TypesHolding
      <3> QED
        BY <1>4, <3>1, <3>2
        DEF TypeInv, TypeOK, EraseEntry, Finish, Goto
    <2>4. pc'[t] \in {"eraseName", "unlock"}
      BY <1>4 DEF TypeInv, TypeOK, EraseEntry, Finish, Goto
    <2> QED
      BY <2>1, <2>2, <2>3, <2>4 DEF HalfDone
  <1>5. ASSUME NEW t \in Threads, EraseName(t) PROVE TableInv'
    <2>1. /\ pc[t] = "eraseName" /\ metric_set_' = metric_set_
          /\ metric_names_' = metric_names_ \ {call[t].name}
          /\ pc'[t] = "unlock"
          /\ \A u \in Threads \ {t} : pc'[u] = pc[u] /\ ~HalfDone(u)
      BY <1>5, OthersAreNotHalfDone
      DEF TypeInv, TypeOK, EraseName, Finish, Goto, WriterSteps
    <2>2. HalfDone(t)
      BY <2>1 DEF HalfDone
    <2> QED
      BY <2>1, <2>2 DEF HalfDone
  <1>6. CASE UNCHANGED vars
    BY <1>6 DEF HalfDone, vars, regVars, thrVars
  <1> QED
    BY <1>1, <1>2, <1>3, <1>4, <1>5, <1>6, NextCases

(* A name has an entry unless inserting it failed, and only then.           *)
LEMMA NamesStep ==
    ASSUME TypeInv, LockDiscipline, TableInv, NamesInv, [Next]_vars
    PROVE  NamesInv'
  <1> USE DEF NamesInv, NamesHaveEntries, OrphansAreEmpty, Holds
  <1>0. metric_names_ \subseteq Names /\ orphaned \subseteq Names
    BY DEF TypeInv, TypeOK
  <1>1. ASSUME NEW t \in Threads, QuietStep(t) PROVE NamesInv'
    BY <1>1, QuietFacts DEF HalfDone
  <1>2. ASSUME NEW t \in Threads, AddName(t) PROVE NamesInv'
    <2>1. /\ pc[t] = "addName" /\ metric_set_' = metric_set_ /\ call' = call
          /\ orphaned' = orphaned
          /\ \A u \in Threads \ {t} : pc'[u] = pc[u]
          /\ \/ metric_names_' = metric_names_ /\ pc'[t] = "unlock"
             \/ /\ metric_names_' = metric_names_ \cup {call[t].name}
                /\ call[t].name \notin metric_names_
                /\ pc'[t] = "insert"
      BY <1>2
      DEF TypeInv, TypeOK, AddName, Throws, Finish, Goto, regVars
    <2> QED
      BY <2>1 DEF HalfDone
  <1>3. ASSUME NEW t \in Threads, InsertMetric(t) PROVE NamesInv'
    <2>1. /\ pc[t] = "insert" /\ metric_names_' = metric_names_ /\ call' = call
          /\ pc'[t] = "unlock"
          /\ \A u \in Threads \ {t} : pc'[u] = pc[u] /\ ~HalfDone(u)
      BY <1>3, OthersAreNotHalfDone
      DEF TypeInv, TypeOK, InsertMetric, InsertThrows, Finish, Goto, regVars,
          WriterSteps
    <2>2. /\ call[t].type \in Types /\ call[t].name \in Names
          /\ call[t].metric # None /\ call[t].name \in metric_names_
          /\ \A type \in Types : metric_set_[type][call[t].name] = None
      BY <2>1, ControlFacts, NoneIsApart
      DEF KindOf, Objects, TableInv, HalfDoneIsEmpty, HalfDone
    <2>3. CASE InsertThrows(t)
      <3>1. /\ orphaned' = orphaned \cup {call[t].name}
            /\ metric_set_' = metric_set_
        BY <2>3 DEF InsertThrows
      <3> QED
        BY <2>1, <2>2, <3>1 DEF HalfDone
    <2>4. CASE ~InsertThrows(t)
      <3>1. /\ orphaned' = orphaned
            /\ metric_set_' = [metric_set_ EXCEPT
                   ![call[t].type][call[t].name] = call[t].metric]
        BY <1>3, <2>4 DEF InsertMetric
      <3>2. /\ metric_set_'[call[t].type][call[t].name] # None
            /\ \A type \in Types, n \in Names \ {call[t].name} :
                  metric_set_'[type][n] = metric_set_[type][n]
        BY <2>2, <3>1 DEF TypeInv, TypeOK, Maps
      <3>3. call[t].name \notin orphaned
        BY <2>1 DEF HalfDone
      <3> QED
        BY <1>0, <2>1, <2>2, <3>1, <3>2, <3>3 DEF HalfDone
    <2> QED
      BY <2>3, <2>4
  <1>4. ASSUME NEW t \in Threads, EraseEntry(t) PROVE NamesInv'
    <2>1. /\ pc[t] = "eraseEntry" /\ metric_names_' = metric_names_
          /\ call' = call /\ call[t].name \in Names
          /\ \A u \in Threads \ {t} : pc'[u] = pc[u]
      BY <1>4, ControlFacts
      DEF TypeInv, TypeOK, EraseEntry, Finish, Goto
    <2>2. \/ /\ pc'[t] = "eraseName"
             /\ orphaned' = orphaned \ {call[t].name}
          \/ /\ pc'[t] = "unlock"
             /\ metric_set_' = metric_set_ /\ orphaned' = orphaned
      BY <1>4 DEF TypeInv, TypeOK, EraseEntry, Finish, Goto
    <2>3. \A type \in Types, n \in Names :
              n # call[t].name => metric_set_'[type][n] = metric_set_[type][n]
      BY <1>4, <2>1 DEF TypeInv, TypeOK, EraseEntry, Maps, TypesHolding
    <2> QED
      BY <1>0, <2>1, <2>2, <2>3 DEF HalfDone
  <1>5. ASSUME NEW t \in Threads, EraseName(t) PROVE NamesInv'
    <2>1. /\ pc[t] = "eraseName" /\ metric_set_' = metric_set_ /\ call' = call
          /\ orphaned' = orphaned /\ pc'[t] = "unlock"
          /\ metric_names_' = metric_names_ \ {call[t].name}
          /\ \A u \in Threads \ {t} : pc'[u] = pc[u]
      BY <1>5 DEF TypeInv, TypeOK, EraseName, Finish, Goto
    <2> QED
      BY <2>1 DEF HalfDone
  <1>6. CASE UNCHANGED vars
    BY <1>6 DEF HalfDone, vars, regVars, thrVars
  <1> QED
    BY <1>1, <1>2, <1>3, <1>4, <1>5, <1>6, NextCases

-----------------------------------------------------------------------------
(* The handles applications keep. *)

(* The handle of a thread: the pointer a getOrAdd is about to return, else  *)
(* the one its last getOrAdd returned.                                      *)
HandleType(u) == IF Returning(u) THEN call[u].type ELSE held[u].type
HandleMetric(u) == IF Returning(u) THEN ret[u].metric ELSE held[u].metric

(* A current handle is the registered metric; a getOrAdd that has not found *)
(* or made one yet has none.                                                *)
HandleOK(u) ==
    current[u] =>
        /\ HandleName(u) \in Names /\ HandleType(u) \in Types
        /\ HandleMetric(u) \in Metrics
        /\ metric_set_[HandleType(u)][HandleName(u)] = HandleMetric(u)
        /\ IF Returning(u) THEN ret[u].status = "ok"
                           ELSE call[u].op # "getOrAdd"
HandleInv == \A u \in Threads : HandleOK(u)

LEMMA HandleInit == Init => HandleInv
  BY DEF Init, HandleInv, HandleOK

LEMMA HandleInvImplies == HandleInv => CurrentHandleIsRegistered
  BY DEF HandleInv, HandleOK, CurrentHandleIsRegistered, HandleName, HandleType,
         HandleMetric

(* A handle stays good when neither its thread nor its entry changes.       *)
LEMMA HandleKept ==
    ASSUME NEW u \in Threads, HandleOK(u),
           pc'[u] = pc[u], call'[u] = call[u], ret'[u] = ret[u],
           held'[u] = held[u], current'[u] => current[u],
           current'[u] => metric_set_'[HandleType(u)][HandleName(u)]
                              = metric_set_[HandleType(u)][HandleName(u)]
    PROVE  HandleOK(u)'
  BY DEF HandleOK, HandleType, HandleName, HandleMetric, Returning

LEMMA QuietHandles ==
    ASSUME TypeInv, NEW t \in Threads, QuietStep(t), NEW u \in Threads, u # t
    PROVE  /\ pc'[u] = pc[u] /\ call'[u] = call[u] /\ ret'[u] = ret[u]
           /\ held'[u] = held[u] /\ current'[u] = current[u]
  <1> USE DEF TypeInv, TypeOK, Goto, regVars
  <1>1. ASSUME NEW op, NEW type, NEW n, NEW m, Call(t, op, type, n, m)
        PROVE  /\ pc'[u] = pc[u] /\ call'[u] = call[u] /\ ret'[u] = ret[u]
               /\ held'[u] = held[u] /\ current'[u] = current[u]
    BY <1>1 DEF Call
  <1>2. CASE AcquireUnique(t) \/ AcquireShared(t)
    BY <1>2 DEF AcquireUnique, AcquireShared
  <1>3. CASE Find(t)
    BY <1>3 DEF Find, Finish
  <1>4. CASE BuildMetric(t)
    BY <1>4 DEF BuildMetric, Throws, Finish
  <1>5. CASE CopyEntry(t) \/ EndCopy(t) \/ Count(t)
    BY <1>5 DEF CopyEntry, EndCopy, Count, Finish
  <1>6. CASE Return(t)
    BY <1>6 DEF Return
  <1> QED
    BY <1>1, <1>2, <1>3, <1>4, <1>5, <1>6 DEF QuietStep

(* What a quiet step does to the handle of its own thread.                  *)
LEMMA QuietOwnHandle ==
    ASSUME TypeInv, NEW t \in Threads, QuietStep(t), HandleOK(t)
    PROVE  HandleOK(t)'
  <1> USE DEF TypeInv, TypeOK, Goto, regVars, HandleOK, HandleType, HandleName,
              HandleMetric, Returning
  <1>0. metric_set_' = metric_set_
    BY QuietFacts
  <1>1. ASSUME NEW op, NEW type, NEW n, NEW m, Call(t, op, type, n, m)
        PROVE  HandleOK(t)'
    <2>1. /\ pc[t] = "idle" /\ pc'[t] = "lock" /\ call'[t].op = op
          /\ op = "getOrAdd" => ~current'[t]
          /\ op # "getOrAdd" => /\ held'[t] = held[t]
                                /\ current'[t] = current[t]
      BY <1>1 DEF Call
    <2> QED
      BY <1>0, <2>1
  <1>2. CASE AcquireUnique(t) \/ AcquireShared(t)
    <2>1. /\ pc[t] = "lock" /\ pc'[t] # "unlock" /\ call' = call
          /\ held' = held /\ current' = current
      BY <1>2
      DEF AcquireUnique, AcquireShared, FirstUniqueStep, UniqueOps
    <2> QED
      BY <1>0, <2>1
  <1>3. CASE Find(t)
    <2>1. pc[t] = "find" /\ call[t].op = "getOrAdd" /\ call' = call
      BY <1>3, ControlFacts DEF Find
    <2>2. ~current[t]
      BY <2>1
    <2>3. CASE metric_set_[call[t].type][call[t].name] = None
      BY <1>3, <2>2, <2>3 DEF Find
    <2>4. CASE metric_set_[call[t].type][call[t].name] # None
      <3>1. /\ call[t].type \in Types \ {GaugeType} /\ call[t].name \in Names
            /\ metric_set_[call[t].type][call[t].name] \in Metrics
        BY <2>1, <2>4, ControlFacts, EntryTypes
      <3>2. /\ pc'[t] = "unlock"
            /\ ret'[t] = [Result("ok") EXCEPT
                   !.metric = metric_set_[call[t].type][call[t].name]]
        BY <1>3, <2>4 DEF Find, Finish
      <3>3. /\ ret'[t].status = "ok"
            /\ ret'[t].metric = metric_set_[call[t].type][call[t].name]
        BY <3>2 DEF Result, NoResult
      <3> QED
        BY <1>0, <2>1, <3>1, <3>2, <3>3
    <2> QED
      BY <2>3, <2>4
  <1>4. CASE BuildMetric(t)
    <2>1. pc[t] = "build" /\ current' = current
      BY <1>4 DEF BuildMetric, Throws
    <2>2. ~current[t]
      BY <2>1, ControlFacts
    <2> QED
      BY <2>1, <2>2
  <1>5. CASE CopyEntry(t) \/ EndCopy(t) \/ Count(t)
    <2>1. /\ pc[t] \in {"copy", "size"} /\ call' = call
          /\ held' = held /\ current' = current
      BY <1>5 DEF CopyEntry, EndCopy, Count
    <2>2. call[t].op # "getOrAdd"
      BY <2>1, ControlFacts
    <2> QED
      BY <1>0, <2>1, <2>2
  <1>6. CASE Return(t)
    <2>1. /\ pc[t] = "unlock" /\ pc'[t] = "idle" /\ current' = current
          /\ call'[t].op = "none"
      BY <1>6 DEF Return, NoCall
    <2>2. CASE call[t].op = "getOrAdd" /\ current[t]
      <3>1. held'[t] = [type |-> call[t].type, name |-> call[t].name,
                        metric |-> ret[t].metric]
        BY <1>6, <2>1, <2>2 DEF Return
      <3> QED
        BY <1>0, <2>1, <2>2, <3>1
    <2>3. CASE call[t].op # "getOrAdd"
      <3>1. held'[t] = held[t]
        BY <1>6, <2>3 DEF Return
      <3> QED
        BY <1>0, <2>1, <2>3, <3>1
    <2>4. CASE ~current[t]
      BY <2>1, <2>4
    <2> QED
      BY <2>2, <2>3, <2>4
  <1> QED
    BY <1>1, <1>2, <1>3, <1>4, <1>5, <1>6 DEF QuietStep

(* A writer leaves the pointers and the calls of the other threads alone.   *)
LEMMA WriterHandles ==
    ASSUME TypeInv, NEW t \in Threads,
           AddName(t) \/ InsertMetric(t) \/ EraseEntry(t) \/ EraseName(t)
    PROVE  /\ call' = call /\ held' = held
           /\ \A u \in Threads \ {t} :
                 /\ pc'[u] = pc[u] /\ ret'[u] = ret[u]
                 /\ current'[u] => current[u]
  <1> USE DEF TypeInv, TypeOK, Goto, regVars, Finish, Throws
  <1>1. CASE AddName(t)
    BY <1>1 DEF AddName
  <1>2. CASE InsertMetric(t)
    BY <1>2 DEF InsertMetric, InsertThrows
  <1>3. CASE EraseEntry(t)
    BY <1>3 DEF EraseEntry, Expire
  <1>4. CASE EraseName(t)
    BY <1>4 DEF EraseName
  <1> QED
    BY <1>1, <1>2, <1>3, <1>4

(* The pointer getOrAdd returns after it has inserted a metric.             *)
LEMMA InsertedHandle ==
    ASSUME TypeInv, NEW t \in Threads, InsertMetric(t),
           call[t].op = "getOrAdd", ~InsertThrows(t)
    PROVE  /\ ret'[t].status = "ok" /\ ret'[t].metric = call[t].metric
           /\ pc'[t] = "unlock" /\ call' = call
           /\ metric_set_'[call[t].type][call[t].name] = call[t].metric
  <1>1. /\ ret'[t] = [Result("ok") EXCEPT !.metric = call[t].metric]
        /\ pc'[t] = "unlock" /\ call' = call /\ pc[t] = "insert"
        /\ metric_set_' = [metric_set_ EXCEPT
               ![call[t].type][call[t].name] = call[t].metric]
    BY DEF TypeInv, TypeOK, InsertMetric, Finish, Goto
  <1>2. call[t].type \in Types /\ call[t].name \in Names
    BY <1>1, ControlFacts
  <1>3. metric_set_'[call[t].type][call[t].name] = call[t].metric
    BY <1>1, <1>2 DEF TypeInv, TypeOK, Maps
  <1>4. ret'[t].status = "ok" /\ ret'[t].metric = call[t].metric
    BY <1>1 DEF Result, NoResult
  <1> QED
    BY <1>1, <1>3, <1>4

LEMMA HandleStep ==
    TypeInv /\ LockDiscipline /\ TableInv /\ HandleInv /\ [Next]_vars
        => HandleInv'
  <1> SUFFICES ASSUME TypeInv, LockDiscipline, TableInv, HandleInv,
                      [Next]_vars, NEW u \in Threads
               PROVE  HandleOK(u)'
    BY DEF HandleInv
  <1>0. HandleOK(u)
    BY DEF HandleInv
  <1>1. ASSUME NEW t \in Threads, QuietStep(t) PROVE HandleOK(u)'
    <2>1. CASE u = t
      BY <1>0, <1>1, <2>1, QuietOwnHandle
    <2>2. CASE u # t
      BY <1>0, <1>1, <2>2, QuietHandles, QuietFacts, HandleKept
    <2> QED
      BY <2>1, <2>2
  <1>2. ASSUME NEW t \in Threads, AddName(t) PROVE HandleOK(u)'
    <2>1. metric_set_' = metric_set_ /\ current' = current
      BY <1>2 DEF AddName, Throws, regVars
    <2>2. CASE u # t
      BY <1>0, <1>2, <2>1, <2>2, WriterHandles, HandleKept
    <2>3. CASE u = t
      <3>1. pc[t] = "addName" /\ call' = call /\ held' = held
        BY <1>2, WriterHandles DEF AddName
      <3> QED
        BY <1>0, <2>1, <2>3, <3>1
        DEF HandleOK, HandleType, HandleName, HandleMetric, Returning
    <2> QED
      BY <2>2, <2>3
  <1>3. ASSUME NEW t \in Threads, InsertMetric(t) PROVE HandleOK(u)'
    <2>1. /\ pc[t] = "insert" /\ call[t].type \in Types
          /\ call[t].name \in Names
          /\ \A type \in Types : metric_set_[type][call[t].name] = None
      BY <1>3, ControlFacts
      DEF InsertMetric, TableInv, HalfDoneIsEmpty, HalfDone, Holds
    <2>2. \A type \in Types, n \in Names :
              metric_set_[type][n] # None =>
                  metric_set_'[type][n] = metric_set_[type][n]
      <3>1. CASE UNCHANGED metric_set_
        BY <3>1
      <3>2. CASE metric_set_' = [metric_set_ EXCEPT
                     ![call[t].type][call[t].name] = call[t].metric]
        BY <2>1, <3>2 DEF TypeInv, TypeOK, Maps
      <3> QED
        BY <1>3, <3>1, <3>2 DEF InsertMetric, InsertThrows, regVars
    <2>3. None \notin Metrics
      BY NoneIsApart DEF Objects
    <2>4. current[u] => metric_set_'[HandleType(u)][HandleName(u)]
                            = metric_set_[HandleType(u)][HandleName(u)]
      BY <1>0, <2>2, <2>3 DEF HandleOK
    <2>5. CASE u # t
      BY <1>0, <1>3, <2>4, <2>5, WriterHandles, HandleKept
    <2>6. CASE u = t /\ call[t].op = "getOrAdd"
      <3>1. CASE InsertThrows(t)
        BY <1>0, <2>1, <2>6, <3>1
        DEF InsertThrows, HandleOK, Returning
      <3>2. CASE ~InsertThrows(t)
        BY <1>3, <2>1, <2>6, <3>2, InsertedHandle, ControlFacts
        DEF HandleOK, HandleType, HandleName, HandleMetric, Returning
      <3> QED
        BY <3>1, <3>2
    <2>7. CASE u = t /\ call[t].op # "getOrAdd"
      <3>1. /\ call' = call /\ held' = held
            /\ current'[t] => current[t]
        BY <1>3, <2>7, WriterHandles
        DEF InsertMetric, InsertThrows, TypeInv, TypeOK
      <3> QED
        BY <1>0, <2>1, <2>4, <2>7, <3>1
        DEF HandleOK, HandleType, HandleName, HandleMetric, Returning
    <2> QED
      BY <2>5, <2>6, <2>7
  <1>4. ASSUME NEW t \in Threads, EraseEntry(t) PROVE HandleOK(u)'
    <2>1. /\ pc[t] = "eraseEntry" /\ call[t].op = "removeMetric"
          /\ call[t].name \in Names
      BY <1>4, ControlFacts DEF EraseEntry
    <2>2. CASE UNCHANGED <<metric_set_, current>>
      <3>1. CASE u # t
        BY <1>0, <1>4, <2>2, <3>1, WriterHandles, HandleKept
      <3>2. CASE u = t
        BY <1>0, <1>4, <2>1, <2>2, <3>2, WriterHandles
        DEF HandleOK, HandleType, HandleName, HandleMetric, Returning
      <3> QED
        BY <3>1, <3>2
    <2>3. CASE ~UNCHANGED <<metric_set_, current>>
      <3>1. current' = Expire(call[t].name)
        BY <1>4, <2>3 DEF EraseEntry
      <3>2. \A type \in Types, n \in Names :
                n # call[t].name =>
                    metric_set_'[type][n] = metric_set_[type][n]
        BY <1>4, <2>1
        DEF EraseEntry, TypesHolding, TypeInv, TypeOK, Maps
      <3>3. current'[u] => current[u] /\ HandleName(u) # call[t].name
        BY <3>1 DEF Expire
      <3>4. current'[u] => metric_set_'[HandleType(u)][HandleName(u)]
                               = metric_set_[HandleType(u)][HandleName(u)]
        BY <1>0, <3>2, <3>3 DEF HandleOK
      <3>5. CASE u # t
        BY <1>0, <1>4, <3>3, <3>4, <3>5, WriterHandles, HandleKept
      <3>6. CASE u = t
        BY <1>0, <1>4, <2>1, <3>3, <3>4, <3>6, WriterHandles
        DEF HandleOK, HandleType, HandleName, HandleMetric, Returning
      <3> QED
        BY <3>5, <3>6
    <2> QED
      BY <2>2, <2>3
  <1>5. ASSUME NEW t \in Threads, EraseName(t) PROVE HandleOK(u)'
    <2>1. /\ pc[t] = "eraseName" /\ call[t].op = "removeMetric"
          /\ metric_set_' = metric_set_ /\ current' = current
      BY <1>5, ControlFacts DEF EraseName
    <2>2. CASE u # t
      BY <1>0, <1>5, <2>1, <2>2, WriterHandles, HandleKept
    <2>3. CASE u = t
      BY <1>0, <1>5, <2>1, <2>3, WriterHandles
      DEF HandleOK, HandleType, HandleName, HandleMetric, Returning
    <2> QED
      BY <2>2, <2>3
  <1>6. CASE UNCHANGED vars
    BY <1>0, <1>6
    DEF vars, regVars, thrVars, HandleOK, HandleType, HandleName,
        HandleMetric, Returning
  <1> QED
    BY <1>1, <1>2, <1>3, <1>4, <1>5, <1>6, NextCases

-----------------------------------------------------------------------------
(* The copies. *)

LEMMA SnapshotInit == Init => CopyIsASnapshot
  BY DEF Init, CopyIsASnapshot

(* While a thread copies a map nobody writes, so what it has copied stays.  *)
LEMMA SnapshotStep ==
    TypeInv /\ LockDiscipline /\ CopyIsASnapshot /\ [Next]_vars
        => CopyIsASnapshot'
  <1> SUFFICES ASSUME TypeInv, LockDiscipline, CopyIsASnapshot, [Next]_vars,
                      NEW u \in Threads, pc'[u] = "copy",
                      NEW n \in Names \ todo'[u]
               PROVE  ret'[u].map[n] = metric_set_'[call'[u].type][n]
    BY DEF CopyIsASnapshot
  <1> USE DEF TypeInv, TypeOK, Goto, regVars
  <1>1. ASSUME NEW t \in Threads, pc[t] \in WriterSteps, InnerStep(t)
        PROVE  FALSE
    <2>1. pc'[t] # "copy"
      BY <1>1
      DEF InnerStep, WriterSteps, Find, BuildMetric, AddName, InsertMetric,
          InsertThrows, EraseEntry, EraseName, CopyEntry, EndCopy, Count,
          Finish, Throws
    <2>2. u # t /\ pc[u] = "copy"
      BY <1>1, <2>1, InnerStepKeepsLock
    <2> QED
      BY <1>1, <2>2, Exclusion DEF ReaderSteps
  <1>2. ASSUME NEW t \in Threads, AcquireShared(t)
        PROVE  ret'[u].map[n] = metric_set_'[call'[u].type][n]
    <2>1. u # t
      BY <1>2 DEF AcquireShared
    <2> QED
      BY <1>2, <2>1 DEF AcquireShared, CopyIsASnapshot
  <1>3. ASSUME NEW t \in Threads, CopyEntry(t)
        PROVE  ret'[u].map[n] = metric_set_'[call'[u].type][n]
    <2>1. CASE u # t
      BY <1>3, <2>1 DEF CopyEntry, CopyIsASnapshot
    <2>2. CASE u = t
      <3>1. PICK k \in todo[t] :
                /\ ret' = [ret EXCEPT
                       ![t].map[k] = metric_set_[call[t].type][k]]
                /\ todo' = [todo EXCEPT ![t] = @ \ {k}]
        BY <1>3 DEF CopyEntry
      <3>2. /\ ret[t] \in Results /\ ret[t].map \in Maps
            /\ ret'[t].map = [ret[t].map EXCEPT
                   ![k] = metric_set_[call[t].type][k]]
            /\ pc[t] = "copy" /\ call' = call /\ metric_set_' = metric_set_
        BY <1>3, <3>1 DEF CopyEntry, Results
      <3>3. CASE n = k
        BY <2>2, <3>2, <3>3 DEF Maps
      <3>4. CASE n # k
        BY <2>2, <3>1, <3>2, <3>4 DEF Maps, CopyIsASnapshot
      <3> QED
        BY <3>3, <3>4
    <2> QED
      BY <2>1, <2>2
  <1>4. ASSUME NEW t \in Threads, NEW op, NEW type, NEW nm, NEW m,
               Call(t, op, type, nm, m)
        PROVE  ret'[u].map[n] = metric_set_'[call'[u].type][n]
    BY <1>4 DEF Call, CopyIsASnapshot
  <1>5. ASSUME NEW t \in Threads, AcquireUnique(t)
        PROVE  ret'[u].map[n] = metric_set_'[call'[u].type][n]
    BY <1>5
    DEF AcquireUnique, FirstUniqueStep, UniqueOps, CopyIsASnapshot
  <1>6. ASSUME NEW t \in Threads, EndCopy(t) \/ Count(t) \/ Return(t)
        PROVE  ret'[u].map[n] = metric_set_'[call'[u].type][n]
    BY <1>6 DEF EndCopy, Count, Return, Finish, CopyIsASnapshot
  <1>7. CASE UNCHANGED vars
    BY <1>7 DEF vars, regVars, thrVars, CopyIsASnapshot
  <1>8. ASSUME NEW t \in Threads, InnerStep(t)
        PROVE  pc[t] \in WriterSteps \/ CopyEntry(t) \/ EndCopy(t) \/ Count(t)
    BY <1>8
    DEF InnerStep, WriterSteps, Find, BuildMetric, AddName, InsertMetric,
        EraseEntry, EraseName
  <1> QED
    BY <1>1, <1>2, <1>3, <1>4, <1>5, <1>6, <1>7, <1>8
    DEF Next, Run, Acquire, GetOrAddStep, AddMetricStep, RemoveMetricStep,
        GetMetricsStep, InnerStep, ClientCall, CallGetOrAdd, CallAddGauge,
        CallRemoveMetric, CallGetMetrics, CallCount

-----------------------------------------------------------------------------
(* The classes. *)

EntriesSafe == \A type \in Types, n \in Names :
                   metric_set_[type][n] \in ObjectsOf(type) \cup {None}

(* The objects a thread has in hand: the one it built, its answer, the copy *)
(* it makes and the handle it keeps.                                        *)
HandSafe(t) ==
    /\ pc[t] \in {"addName", "insert"} =>
          call[t].metric \in ObjectsOf(call[t].type)
    /\ held[t].metric \in ObjectsOf(held[t].type) \cup {None}
    /\ pc[t] = "unlock" =>
          ret[t].metric \in ObjectsOf(call[t].type) \cup {None}
    /\ pc[t] = "copy" => ret[t].metric = None
    /\ pc[t] \in {"copy", "unlock"} => \A n \in Names :
          ret[t].map[n] \in ObjectsOf(call[t].type) \cup {None}
CastInv == CastsAreSafe /\ \A t \in Threads : HandSafe(t)

LEMMA CastInvParts ==
    CastInv <=> EntriesSafe /\ \A t \in Threads : HandSafe(t)
  BY DEF CastInv, CastsAreSafe, EntriesSafe, HandSafe

LEMMA CastInit == Init => CastInv
  BY DEF Init, CastInv, CastsAreSafe, HandSafe, NoHandle, EmptyMap

(* Answers that carry no object, and the one that carries one.              *)
LEMMA AnswerParts ==
    /\ NoResult.metric = None
    /\ \A n \in Names : NoResult.map[n] = None
    /\ \A status : /\ Result(status).metric = None
                   /\ \A n \in Names : Result(status).map[n] = None
    /\ \A m : /\ [Result("ok") EXCEPT !.metric = m].metric = m
              /\ \A n \in Names :
                    [Result("ok") EXCEPT !.metric = m].map[n] = None
    /\ \A k : /\ [Result("ok") EXCEPT !.size = k].metric = None
              /\ \A n \in Names :
                    [Result("ok") EXCEPT !.size = k].map[n] = None
  BY DEF Result, NoResult, EmptyMap

Pointer(m) == [Result("ok") EXCEPT !.metric = m]

LEMMA PointerParts ==
    \A m : /\ Pointer(m).metric = m
           /\ \A n \in Names : Pointer(m).map[n] = None
  BY AnswerParts, Zenon DEF Pointer

LEMMA EntriesStep ==
    ASSUME TypeInv, CastInv, [Next]_vars PROVE EntriesSafe'
  <1>0. EntriesSafe /\ \A t \in Threads : HandSafe(t)
    BY CastInvParts
  <1>1. CASE metric_set_' = metric_set_
    BY <1>0, <1>1 DEF EntriesSafe
  <1>2. ASSUME NEW t \in Threads, InsertMetric(t), ~InsertThrows(t)
        PROVE  EntriesSafe'
    <2>1. /\ pc[t] = "insert"
          /\ metric_set_' = [metric_set_ EXCEPT
                 ![call[t].type][call[t].name] = call[t].metric]
      BY <1>2 DEF InsertMetric
    <2>2. /\ call[t].type \in Types /\ call[t].name \in Names
          /\ call[t].metric \in ObjectsOf(call[t].type)
      BY <1>0, <2>1, ControlFacts DEF HandSafe
    <2>3. \A type \in Types, n \in Names :
              \/ metric_set_'[type][n] = metric_set_[type][n]
              \/ type = call[t].type /\ metric_set_'[type][n] = call[t].metric
      BY <2>1, <2>2 DEF TypeInv, TypeOK, Maps
    <2> QED
      BY <1>0, <2>2, <2>3 DEF EntriesSafe
  <1>3. ASSUME NEW t \in Threads, EraseEntry(t) PROVE EntriesSafe'
    <2>1. call[t].name \in Names
      BY <1>3, ControlFacts DEF EraseEntry
    <2>2. \A type \in Types, n \in Names :
              metric_set_'[type][n] \in {metric_set_[type][n], None}
      BY <1>3, <2>1 DEF TypeInv, TypeOK, EraseEntry, Maps, TypesHolding
    <2> QED
      BY <1>0, <2>2 DEF EntriesSafe
  <1>4. ASSUME NEW t \in Threads,
               QuietStep(t) \/ AddName(t) \/ EraseName(t) \/ InsertThrows(t)
        PROVE  metric_set_' = metric_set_
    <2>1. CASE QuietStep(t)
      BY <2>1, QuietFacts
    <2>2. CASE ~QuietStep(t)
      BY <1>4, <2>2 DEF AddName, EraseName, InsertThrows, Throws, regVars
    <2> QED
      BY <2>1, <2>2
  <1>5. CASE UNCHANGED vars
    BY <1>1, <1>5 DEF vars, regVars
  <1> QED
    BY <1>1, <1>2, <1>3, <1>4, <1>5, NextCases

(* The thread that moves only takes objects from where they are safe.       *)
LEMMA HandMoves ==
    ASSUME TypeInv, CastInv, NEW t \in Threads,
           \/ QuietStep(t) \/ AddName(t) \/ InsertMetric(t)
           \/ EraseEntry(t) \/ EraseName(t)
    PROVE  HandSafe(t)'
  <1> USE DEF TypeInv, TypeOK, Goto
  <1>0. EntriesSafe /\ HandSafe(t)
    BY CastInvParts
  <1>1. ASSUME NEW op, NEW type, NEW n, NEW m, Call(t, op, type, n, m)
        PROVE  HandSafe(t)'
    <2>1. pc'[t] = "lock" /\ held'[t] \in {held[t], NoHandle}
      BY <1>1 DEF Call
    <2> QED
      BY <1>0, <2>1 DEF HandSafe, NoHandle
  <1>2. CASE AcquireUnique(t)
    <2>1. /\ pc[t] = "lock" /\ call' = call /\ held' = held
          /\ pc'[t] \in {"find", "addName", "eraseEntry"}
          /\ pc'[t] = "addName" => call[t].op = "addGauge"
      BY <1>2 DEF AcquireUnique, FirstUniqueStep, UniqueOps
    <2>2. call[t].op = "addGauge" =>
              call[t].metric \in Gauges /\ call[t].type = GaugeType
      BY DEF ArgumentsOK
    <2> QED
      BY <1>0, <2>1, <2>2, ClassesAreMetrics DEF HandSafe
  <1>3. CASE AcquireShared(t)
    <2>1. /\ pc'[t] \in {"size", "copy"} /\ call' = call /\ held' = held
          /\ ret'[t] = NoResult
      BY <1>3 DEF AcquireShared
    <2> QED
      BY <1>0, <2>1, AnswerParts DEF HandSafe
  <1>4. CASE Find(t)
    <2> DEFINE found == metric_set_[call[t].type][call[t].name]
    <2>1. found \in ObjectsOf(call[t].type) \cup {None}
      BY <1>0, <1>4, ControlFacts DEF Find, EntriesSafe
    <2>2. /\ call' = call /\ held' = held
          /\ \/ /\ pc'[t] = "unlock"
                /\ ret'[t] = [Result("ok") EXCEPT !.metric = found]
             \/ pc'[t] = "build"
      BY <1>4 DEF Find, Finish
    <2> HIDE DEF found
    <2>3. CASE pc'[t] = "unlock"
      <3>1. PICK r : r = ret'[t]
        OBVIOUS
      <3>2. r = Pointer(found)
        BY <2>2, <2>3, <3>1 DEF Pointer
      <3>3. r.metric = found /\ \A n \in Names : r.map[n] = None
        BY <3>2, PointerParts
      <3> QED
        BY <1>0, <2>1, <2>2, <2>3, <3>1, <3>3 DEF HandSafe
    <2>4. CASE pc'[t] = "build"
      BY <1>0, <2>2, <2>4 DEF HandSafe
    <2> QED
      BY <2>2, <2>3, <2>4
  <1>5. CASE BuildMetric(t)
    <2>1. CASE Throws(t, "metric")
      <3>1. /\ pc'[t] = "unlock" /\ ret'[t] = Result("bad_alloc")
            /\ held' = held
        BY <2>1 DEF Throws, Finish
      <3> QED
        BY <1>0, <3>1, AnswerParts DEF HandSafe
    <2>2. ASSUME NEW m \in ObjectsOf(call[t].type), Goto(t, "addName"),
                 call' = [call EXCEPT ![t].metric = m], held' = held
          PROVE  HandSafe(t)'
      <3>1. /\ pc'[t] = "addName" /\ call'[t].metric = m
            /\ call'[t].type = call[t].type
        BY <2>2 DEF Calls
      <3> QED
        BY <1>0, <2>2, <3>1 DEF HandSafe
    <2> QED
      BY <1>5, <2>1, <2>2, BuildFacts
  <1>6. CASE AddName(t)
    <2>1. /\ call' = call /\ held' = held /\ pc[t] = "addName"
          /\ \/ pc'[t] = "insert"
             \/ /\ pc'[t] = "unlock"
                /\ ret'[t] \in {Result("invalid_argument"),
                                Result("bad_alloc")}
      BY <1>6 DEF AddName, Throws, Finish
    <2> QED
      BY <1>0, <2>1, AnswerParts DEF HandSafe
  <1>7. CASE InsertMetric(t)
    <2>1. /\ call' = call /\ held' = held /\ pc[t] = "insert"
          /\ pc'[t] = "unlock"
          /\ ret'[t] \in {[Result("ok") EXCEPT !.metric = call[t].metric],
                          Result("ok"), Result("bad_alloc")}
      BY <1>7 DEF InsertMetric, InsertThrows, Finish
    <2>2. PICK r, m : r = ret'[t] /\ m = call[t].metric
      OBVIOUS
    <2>3. r.metric \in {m, None} /\ \A n \in Names : r.map[n] = None
      <3>1. \/ r = Pointer(m)
            \/ r = Result("ok") \/ r = Result("bad_alloc")
        BY <2>1, <2>2 DEF Pointer
      <3>2. CASE r = Pointer(m)
        BY <3>2, PointerParts
      <3>3. CASE r = Result("ok") \/ r = Result("bad_alloc")
        BY <3>3, AnswerParts
      <3> QED
        BY <3>1, <3>2, <3>3
    <2> QED
      BY <1>0, <2>1, <2>2, <2>3 DEF HandSafe
  <1>8. CASE EraseEntry(t) \/ EraseName(t)
    <2>1. /\ call' = call /\ held' = held
          /\ \/ pc'[t] = "eraseName"
             \/ /\ pc'[t] = "unlock"
                /\ ret'[t] \in {Result("ok"), Result("false")}
      BY <1>8 DEF EraseEntry, EraseName, Finish
    <2> QED
      BY <1>0, <2>1, AnswerParts DEF HandSafe
  <1>9. CASE CopyEntry(t)
    <2>1. PICK n \in Names :
              ret' = [ret EXCEPT ![t].map[n] = metric_set_[call[t].type][n]]
      BY <1>9 DEF CopyEntry
    <2>2. /\ pc[t] = "copy" /\ pc' = pc /\ call' = call /\ held' = held
          /\ call[t].type \in Types
      BY <1>9, ControlFacts DEF CopyEntry
    <2>3. /\ ret'[t].map = [ret[t].map EXCEPT
                                ![n] = metric_set_[call[t].type][n]]
          /\ ret'[t].metric = ret[t].metric
      BY <2>1 DEF Results
    <2>4. metric_set_[call[t].type][n] \in ObjectsOf(call[t].type) \cup {None}
      BY <1>0, <2>2 DEF EntriesSafe
    <2>5. ret[t].map \in Maps
      BY DEF Results
    <2> QED
      BY <1>0, <2>2, <2>3, <2>4, <2>5 DEF HandSafe, Maps
  <1>10. CASE EndCopy(t)
    <2>1. /\ pc[t] = "copy" /\ pc'[t] = "unlock" /\ call' = call
          /\ held' = held /\ ret'[t] = [ret[t] EXCEPT !.status = "ok"]
      BY <1>10 DEF EndCopy, Finish
    <2>2. ret'[t].map = ret[t].map /\ ret'[t].metric = ret[t].metric
      BY <2>1 DEF Results
    <2> QED
      BY <1>0, <2>1, <2>2 DEF HandSafe
  <1>11. CASE Count(t)
    <2>1. /\ pc'[t] = "unlock" /\ held' = held
          /\ \E k : ret'[t] = [Result("ok") EXCEPT !.size = k]
      BY <1>11 DEF Count, Finish
    <2> QED
      BY <1>0, <2>1, AnswerParts DEF HandSafe
  <1>12. CASE Return(t)
    <2>1. /\ pc[t] = "unlock" /\ pc'[t] = "idle"
          /\ held'[t] \in {held[t], [type |-> call[t].type,
                                     name |-> call[t].name,
                                     metric |-> ret[t].metric]}
      BY <1>12 DEF Return
    <2> QED
      BY <1>0, <2>1 DEF HandSafe
  <1> QED
    BY <1>1, <1>2, <1>3, <1>4, <1>5, <1>6, <1>7, <1>8, <1>9, <1>10, <1>11,
       <1>12
    DEF QuietStep

LEMMA CastStep ==
    ASSUME TypeInv, CastInv, [Next]_vars PROVE CastInv'
  <1>1. ASSUME NEW u \in Threads PROVE HandSafe(u)'
    <2>0. HandSafe(u)
      BY DEF CastInv
    <2>1. CASE UNCHANGED vars
      BY <2>0, <2>1 DEF HandSafe, vars, thrVars
    <2>2. ASSUME NEW t \in Threads,
                 \/ QuietStep(t) \/ AddName(t) \/ InsertMetric(t)
                 \/ EraseEntry(t) \/ EraseName(t)
          PROVE  HandSafe(u)'
      <3>1. CASE u = t
        BY <2>2, <3>1, HandMoves
      <3>2. CASE u # t
        <4>1. /\ pc'[u] = pc[u] /\ call'[u] = call[u] /\ ret'[u] = ret[u]
              /\ held'[u] = held[u]
          BY <2>2, <3>2, QuietHandles, WriterHandles
        <4> QED
          BY <2>0, <4>1 DEF HandSafe
      <3> QED
        BY <3>1, <3>2
    <2> QED
      BY <2>1, <2>2, NextCases
  <1>2. EntriesSafe'
    BY EntriesStep
  <1> QED
    BY <1>1, <1>2 DEF CastInv, CastsAreSafe, EntriesSafe, HandSafe

-----------------------------------------------------------------------------
(* The theorems. *)

RegistryInv == TypeInv /\ LockDiscipline /\ TableInv /\ NamesInv /\ CastInv
               /\ HandleInv /\ CopyIsASnapshot

(* The inductive invariant: types and control, the lock, the agreement of   *)
(* the containers, the classes of the objects, the handles and the copies.  *)
THEOREM InductiveInvariant == Spec => []RegistryInv
  <1>1. Init => RegistryInv
    BY TypeInvInit, LockInit, TableInit, CastInit, HandleInit, SnapshotInit
    DEF RegistryInv
  <1>2. RegistryInv /\ [Next]_vars => RegistryInv'
    BY TypeInvStep, LockStep, TableStep, NamesStep, CastStep, HandleStep,
       SnapshotStep
    DEF RegistryInv
  <1> QED
    BY <1>1, <1>2, PTL DEF Spec

(* The variables keep their types, whatever the threads call and whatever   *)
(* fails: the gauge map holds gauges and the others none.                   *)
THEOREM TypeCorrect == Spec => []TypeOK
  <1>1. RegistryInv => TypeOK
    BY DEF RegistryInv, TypeInv
  <1> QED
    BY <1>1, InductiveInvariant, PTL

(* Every static_pointer_cast of the registry is of an object of the class   *)
(* it names: the objects in the map of a type, those getMetrics copies from *)
(* it and the pointers getOrAdd returns are of the class of that type.      *)
THEOREM CastsCorrect == Spec => []CastsAreSafe
  <1>1. RegistryInv => CastsAreSafe
    BY DEF RegistryInv, CastInv
  <1> QED
    BY <1>1, InductiveInvariant, PTL

(* Writers own metrics_mutex_ alone and readers share it.                   *)
THEOREM LockCorrect == Spec => []LockDiscipline
  <1>1. RegistryInv => LockDiscipline
    BY DEF RegistryInv
  <1> QED
    BY <1>1, InductiveInvariant, PTL

(* A handle whose name nobody removed is the metric the registry holds.     *)
THEOREM HandlesCorrect == Spec => []CurrentHandleIsRegistered
  <1>1. RegistryInv => CurrentHandleIsRegistered
    BY HandleInvImplies DEF RegistryInv
  <1> QED
    BY <1>1, InductiveInvariant, PTL

(* A getMetrics in progress has copied what the map holds now.              *)
THEOREM CopiesCorrect == Spec => []CopyIsASnapshot
  <1>1. RegistryInv => CopyIsASnapshot
    BY DEF RegistryInv
  <1> QED
    BY <1>1, InductiveInvariant, PTL

LEMMA TableInvMatches ==
    ASSUME TypeInv, TableInv, NamesInv
    PROVE  NamesMatchSets
  <1>1. ASSUME NEW n \in Names, ~InTransit(n)
        PROVE  n \in metric_names_ <=> TypesHolding(n) # {} \/ n \in orphaned
    BY <1>1
    DEF TableInv, EntriesNamed, NamesInv, NamesHaveEntries, OrphansAreEmpty,
        Holds, HalfDone, InTransit, TypesHolding
  <1>2. \A n \in orphaned : TypesHolding(n) = {}
    BY DEF NamesInv, OrphansAreEmpty, Holds, TypesHolding
  <1>3. ASSUME NEW n \in Names, NEW t1 \in Types, NEW t2 \in Types,
               t1 \in TypesHolding(n), t2 \in TypesHolding(n)
        PROVE  t1 = t2
    BY <1>3 DEF TableInv, OneTypePerName, Holds, TypesHolding
  <1> QED
    BY <1>1, <1>2, <1>3 DEF NamesMatchSets

(* The set of names and the maps agree whatever fails: a name in the set    *)
(* has one metric, of one type, but for those whose map entry could not be  *)
(* inserted and that nobody removed since.                                  *)
THEOREM NamesCorrect == Spec => []NamesMatchSets
  <1>1. RegistryInv => NamesMatchSets
    BY TableInvMatches DEF RegistryInv
  <1> QED
    BY <1>1, InductiveInvariant, PTL

-----------------------------------------------------------------------------
(* The table.  What a call in progress knows of the containers: getOrAdd    *)
(* builds a metric only when the map of its type has none under the name,   *)
(* the metric it built is in no map yet, and a copy has a map and no more.  *)

SearchOK(t) ==
    /\ pc[t] \in {"build", "addName"} /\ call[t].op = "getOrAdd" =>
          ~Holds(call[t].type, call[t].name)
    /\ pc[t] \in {"addName", "insert"} /\ call[t].op = "getOrAdd" =>
          \A type \in Types, n \in Names :
              metric_set_[type][n] # call[t].metric
    /\ pc[t] = "copy" => ret[t].metric = None /\ ret[t].size = 0
SearchInv == \A t \in Threads : SearchOK(t)

LEMMA SearchInit == Init => SearchInv
  BY DEF Init, SearchInv, SearchOK

(* Who does not move keeps what it knows unless a writer moves.             *)
LEMMA SearchKept ==
    ASSUME TypeInv, LockDiscipline, NEW t \in Threads, NEW u \in Threads,
           u # t, SearchOK(u),
           pc'[u] = pc[u], call'[u] = call[u], ret'[u] = ret[u],
           metric_set_' = metric_set_ \/ pc[t] \in WriterSteps
    PROVE  SearchOK(u)'
  <1>1. CASE metric_set_' = metric_set_
    BY <1>1 DEF SearchOK, Holds
  <1>2. CASE pc[t] \in WriterSteps
    BY <1>2, Exclusion DEF SearchOK, WriterSteps, ReaderSteps
  <1> QED
    BY <1>1, <1>2

(* Every action is a step of one thread.                                    *)
LEMMA OneThreadMoves ==
    ASSUME TypeInv, NEW t \in Threads,
           \/ QuietStep(t) \/ AddName(t) \/ InsertMetric(t)
           \/ EraseEntry(t) \/ EraseName(t)
    PROVE  /\ \A u \in Threads \ {t} :
                 pc'[u] = pc[u] /\ call'[u] = call[u] /\ ret'[u] = ret[u]
           /\ metric_set_' = metric_set_ \/ pc[t] \in WriterSteps
  <1> USE DEF TypeInv, TypeOK, Goto, regVars, WriterSteps
  <1>1. ASSUME NEW op, NEW type, NEW n, NEW m, Call(t, op, type, n, m)
        PROVE  /\ \A u \in Threads \ {t} : pc'[u] = pc[u]
                     /\ call'[u] = call[u] /\ ret'[u] = ret[u]
               /\ metric_set_' = metric_set_
    BY <1>1 DEF Call
  <1>2. CASE AcquireUnique(t)
    BY <1>2 DEF AcquireUnique
  <1>3. CASE AcquireShared(t)
    BY <1>3 DEF AcquireShared
  <1>4. CASE Find(t)
    BY <1>4 DEF Find, Finish
  <1>5. CASE BuildMetric(t)
    BY <1>5 DEF BuildMetric, Throws, Finish
  <1>6. CASE CopyEntry(t) \/ EndCopy(t) \/ Count(t)
    BY <1>6 DEF CopyEntry, EndCopy, Count, Finish
  <1>7. CASE Return(t)
    BY <1>7 DEF Return
  <1>8. CASE AddName(t) \/ InsertMetric(t)
    BY <1>8 DEF AddName, InsertMetric, InsertThrows, Throws, Finish
  <1>9. CASE EraseEntry(t) \/ EraseName(t)
    BY <1>9 DEF EraseEntry, EraseName, Finish
  <1> QED
    BY <1>1, <1>2, <1>3, <1>4, <1>5, <1>6, <1>7, <1>8, <1>9 DEF QuietStep

(* The thread that moves knows it from its own steps.                       *)
LEMMA SearchMoves ==
    ASSUME TypeInv, NEW t \in Threads, SearchOK(t),
           \/ QuietStep(t) \/ AddName(t) \/ InsertMetric(t)
           \/ EraseEntry(t) \/ EraseName(t)
    PROVE  SearchOK(t)'
  <1> USE DEF TypeInv, TypeOK, Goto, regVars
  <1>1. ASSUME NEW op, NEW type, NEW n, NEW m, Call(t, op, type, n, m)
        PROVE  SearchOK(t)'
    BY <1>1 DEF Call, SearchOK
  <1>2. CASE AcquireUnique(t)
    <2>1. \/ pc'[t] \in {"find", "eraseEntry"}
          \/ pc'[t] = "addName" /\ call'[t].op = "addGauge"
      BY <1>2 DEF AcquireUnique, FirstUniqueStep, UniqueOps
    <2> QED
      BY <2>1 DEF SearchOK
  <1>3. CASE AcquireShared(t)
    <2>1. pc'[t] \in {"size", "copy"} /\ ret'[t] = NoResult
      BY <1>3 DEF AcquireShared
    <2> QED
      BY <2>1 DEF SearchOK, NoResult
  <1>4. CASE Find(t)
    <2>1. \/ pc'[t] = "unlock"
          \/ /\ pc'[t] = "build" /\ call' = call /\ metric_set_' = metric_set_
             /\ metric_set_[call[t].type][call[t].name] = None
      BY <1>4 DEF Find, Finish
    <2> QED
      BY <2>1 DEF SearchOK, Holds
  <1>5. CASE BuildMetric(t)
    <2>1. pc[t] = "build" /\ metric_set_' = metric_set_ /\ call[t] \in Calls
      BY <1>5 DEF BuildMetric, Throws
    <2>2. CASE Throws(t, "metric")
      BY <2>2 DEF Throws, Finish, SearchOK
    <2>3. ASSUME NEW m \in Metrics \ InUse, Goto(t, "addName"),
                 call' = [call EXCEPT ![t].metric = m]
          PROVE  SearchOK(t)'
      <3>1. /\ pc'[t] = "addName" /\ call'[t].metric = m
            /\ call'[t].op = call[t].op /\ call'[t].type = call[t].type
            /\ call'[t].name = call[t].name
        BY <2>1, <2>3 DEF Calls
      <3>2. \A type \in Types, n \in Names : metric_set_[type][n] # m
        BY <2>3 DEF InUse
      <3> QED
        BY <2>1, <3>1, <3>2 DEF SearchOK, Holds
    <2> QED
      BY <1>5, <2>2, <2>3, BuildFacts
  <1>6. CASE CopyEntry(t)
    <2>1. PICK n \in Names, m \in Objects \cup {None} :
              ret' = [ret EXCEPT ![t].map[n] = m]
      BY <1>6, ControlFacts, EntryTypes DEF CopyEntry
    <2>2. ret[t] \in Results
      OBVIOUS
    <2>3. /\ pc[t] = "copy" /\ pc' = pc
          /\ ret'[t].metric = ret[t].metric /\ ret'[t].size = ret[t].size
      BY <1>6, <2>1, <2>2 DEF CopyEntry, Results
    <2> QED
      BY <2>3 DEF SearchOK
  <1>7. CASE EndCopy(t) \/ Count(t) \/ Return(t)
    BY <1>7 DEF EndCopy, Count, Return, Finish, SearchOK
  <1>8. CASE AddName(t)
    <2>1. /\ pc[t] = "addName" /\ call' = call /\ metric_set_' = metric_set_
          /\ pc'[t] \in {"insert", "unlock"}
      BY <1>8 DEF AddName, Throws, Finish
    <2> QED
      BY <2>1 DEF SearchOK
  <1>9. CASE InsertMetric(t) \/ EraseEntry(t) \/ EraseName(t)
    BY <1>9
    DEF InsertMetric, InsertThrows, EraseEntry, EraseName, Finish, SearchOK
  <1> QED
    BY <1>1, <1>2, <1>3, <1>4, <1>5, <1>6, <1>7, <1>8, <1>9 DEF QuietStep

LEMMA SearchStep ==
    TypeInv /\ LockDiscipline /\ SearchInv /\ [Next]_vars => SearchInv'
  <1> SUFFICES ASSUME TypeInv, LockDiscipline, SearchInv, [Next]_vars
               PROVE  SearchInv'
    OBVIOUS
  <1>1. CASE UNCHANGED vars
    BY <1>1 DEF SearchInv, SearchOK, Holds, vars, regVars, thrVars
  <1>2. ASSUME NEW t \in Threads,
               \/ QuietStep(t) \/ AddName(t) \/ InsertMetric(t)
               \/ EraseEntry(t) \/ EraseName(t)
        PROVE  SearchInv'
    <2> SUFFICES ASSUME NEW u \in Threads PROVE SearchOK(u)'
      BY DEF SearchInv
    <2>1. CASE u = t
      BY <1>2, <2>1, SearchMoves DEF SearchInv
    <2>2. CASE u # t
      BY <1>2, <2>2, SearchKept, OneThreadMoves DEF SearchInv
    <2> QED
      BY <2>1, <2>2
  <1> QED
    BY <1>1, <1>2, NextCases

-----------------------------------------------------------------------------
(* The refinement mapping, as state functions.                              *)

Table == [n \in Names |-> TableOf(n)]
Phases == [t \in Threads |-> PhaseOf(t)]
AllRequests == [t \in Threads |-> RequestOf(t)]
Replies == [t \in Threads |-> ReplyOf(t)]

(* A name that some map holds is bound to what the map holds.               *)
LEMMA TableOfHeld ==
    ASSUME TypeInv, TableInv, NEW n \in Names, NEW type \in Types,
           Holds(type, n)
    PROVE  /\ Table[n] = Promise!Binding(type, metric_set_[type][n])
           /\ Table[n].type = type /\ Table[n].metric = metric_set_[type][n]
           /\ Promise!Bound(n)
  <1>1. TypesHolding(n) = {type}
    BY DEF TableInv, OneTypePerName, Holds, TypesHolding
  <1>2. TableOf(n) = [type |-> type, metric |-> metric_set_[type][n]]
    BY <1>1 DEF TableOf
  <1>3. Table[n] = TableOf(n)
    BY DEF Table
  <1>4. metric_set_[type][n] # None
    BY DEF Holds
  <1> QED
    BY <1>2, <1>3, <1>4
    DEF Promise!Binding, Promise!Bound, Promise!Unbound, Table

(* A name that no map holds is free, or taken by no type.                   *)
LEMMA TableOfFree ==
    ASSUME NEW n \in Names, \A type \in Types : ~Holds(type, n),
           n \notin orphaned
    PROVE  Table[n] = Promise!Unbound /\ ~Promise!Bound(n)
  BY DEF Table, TableOf, TypesHolding, Holds, Promise!Bound, Promise!Unbound,
         Promise!Binding, Promise!GaugeType, GaugeType

LEMMA TableOfTaken ==
    ASSUME NEW n \in Names, \A type \in Types : ~Holds(type, n),
           n \in orphaned
    PROVE  /\ Table[n] = Promise!Taken /\ Promise!Bound(n)
           /\ Table[n].metric = None
           /\ \A type \in Types : Table[n].type # type
  <1>1. Table[n] = [type |-> TotalTypes, metric |-> None]
    BY DEF Table, TableOf, TypesHolding, Holds
  <1>2. TotalTypes # GaugeType /\ \A type \in Types : type # TotalTypes
    BY RegistryAssumption, SMT DEF GaugeType, Types
  <1> QED
    BY <1>1, <1>2
    DEF Table, Promise!Taken, Promise!Bound, Promise!Unbound, Promise!Binding,
        Promise!GaugeType, GaugeType

LEMMA BoundIsHeld ==
    ASSUME TypeInv, TableInv, NamesInv, NEW n \in Names
    PROVE  Promise!Bound(n) <=>
               n \in orphaned \/ \E type \in Types : Holds(type, n)
  BY TableOfHeld, TableOfFree, TableOfTaken

(* A name that the map of a type does not hold is bound to another type.    *)
LEMMA BoundElsewhere ==
    ASSUME TypeInv, TableInv, NamesInv, NEW n \in Names, NEW type \in Types,
           ~Holds(type, n), Promise!Bound(n)
    PROVE  Table[n].type # type
  <1>1. CASE n \in orphaned
    BY <1>1, TableOfTaken DEF NamesInv, OrphansAreEmpty
  <1>2. CASE n \notin orphaned
    <2>1. PICK other \in Types : Holds(other, n)
      BY <1>2, BoundIsHeld
    <2> QED
      BY <2>1, TableOfHeld
  <1> QED
    BY <1>1, <1>2

(* Where the table does not change, and where it does.                      *)
LEMMA SameTable ==
    ASSUME NEW n \in Names, n \in orphaned' <=> n \in orphaned,
           \A type \in Types : metric_set_'[type][n] = metric_set_[type][n]
    PROVE  Table'[n] = Table[n]
  <1>1. TypesHolding(n)' = TypesHolding(n)
    BY DEF TypesHolding
  <1>2. CASE TypesHolding(n) = {}
    BY <1>1, <1>2 DEF Table, TableOf
  <1>3. CASE TypesHolding(n) # {}
    <2>1. (CHOOSE type \in TypesHolding(n) : TRUE) \in Types
      BY <1>3 DEF TypesHolding
    <2> QED
      BY <1>1, <1>3, <2>1 DEF Table, TableOf
  <1> QED
    BY <1>2, <1>3

LEMMA QuietTable ==
    ASSUME metric_set_' = metric_set_, orphaned' = orphaned
    PROVE  Table' = Table
  <1>1. \A n \in Names : Table'[n] = Table[n]
    BY SameTable
  <1> QED
    BY <1>1 DEF Table

(* The steps of the table's specification.                                  *)
LEMMA AskStep ==
    ASSUME NEW t \in Threads, NEW r \in Promise!Requests,
           Phases[t] = "outside",
           AllRequests' = [AllRequests EXCEPT ![t] = r],
           Phases' = [Phases EXCEPT ![t] = "asked"],
           Table' = Table, Replies' = Replies
    PROVE  Promise!Next
  BY DEF Promise!Next, Promise!Ask, Table, Phases, AllRequests, Replies

LEMMA LeaveStep ==
    ASSUME NEW t \in Threads,
           Phases[t] = "answered",
           Phases' = [Phases EXCEPT ![t] = "outside"],
           AllRequests' = [AllRequests EXCEPT ![t] = Promise!NoRequest],
           Replies' = [Replies EXCEPT ![t] = Promise!NoReply],
           Table' = Table
    PROVE  Promise!Next
  BY DEF Promise!Next, Promise!Leave, Table, Phases, AllRequests, Replies

LEMMA StutterStep ==
    ASSUME Table' = Table, Phases' = Phases, AllRequests' = AllRequests,
           Replies' = Replies
    PROVE  UNCHANGED Promise!vars
  BY DEF Promise!vars, Table, Phases, AllRequests, Replies

(* A call is served: in each case the answer is one that the table gives.   *)
Served(t, answer) ==
    /\ Phases[t] = "asked"
    /\ Phases' = [Phases EXCEPT ![t] = "answered"]
    /\ Replies' = [Replies EXCEPT ![t] = answer]
    /\ AllRequests' = AllRequests

LEMMA ServedAnswers ==
    ASSUME NEW t \in Threads, NEW answer, Served(t, answer)
    PROVE  Promise!Answer(t, answer)
  BY DEF Served, Promise!Answer, Phases, Replies, AllRequests

LEMMA ServeStep ==
    ASSUME NEW t \in Threads, Promise!Serve(t) PROVE Promise!Next
  BY DEF Promise!Next

(* A step of one thread changes what is told of that thread alone.          *)
MovesAlone(t) ==
    \A u \in Threads \ {t} :
        pc'[u] = pc[u] /\ call'[u] = call[u] /\ ret'[u] = ret[u]

LEMMA MappedStep ==
    ASSUME NEW t \in Threads, MovesAlone(t)
    PROVE  /\ Phases' = [Phases EXCEPT ![t] = PhaseOf(t)']
           /\ AllRequests' = [AllRequests EXCEPT ![t] = RequestOf(t)']
           /\ Replies' = [Replies EXCEPT ![t] = ReplyOf(t)']
  <1>1. \A u \in Threads \ {t} :
            /\ PhaseOf(u)' = PhaseOf(u)
            /\ RequestOf(u)' = RequestOf(u)
            /\ ReplyOf(u)' = ReplyOf(u)
    BY DEF MovesAlone, PhaseOf, Settled, RequestOf, ReplyOf
  <1> QED
    BY <1>1 DEF Phases, AllRequests, Replies

(* Steps inside a call, before it has its effect or after: the table's      *)
(* specification sees nothing.                                              *)
LEMMA Unseen ==
    ASSUME NEW t \in Threads, MovesAlone(t),
           metric_set_' = metric_set_, orphaned' = orphaned,
           PhaseOf(t)' = PhaseOf(t), RequestOf(t)' = RequestOf(t),
           ReplyOf(t)' = ReplyOf(t)
    PROVE  UNCHANGED Promise!vars
  <1>1. /\ Phases[t] = PhaseOf(t) /\ AllRequests[t] = RequestOf(t)
        /\ Replies[t] = ReplyOf(t)
    BY DEF Phases, AllRequests, Replies
  <1>2. Phases' = Phases /\ AllRequests' = AllRequests /\ Replies' = Replies
    BY <1>1, MappedStep DEF Phases, AllRequests, Replies
  <1> QED
    BY <1>2, QuietTable, StutterStep

(* The step at which a call gets its answer.                                *)
LEMMA AnsweredHere ==
    ASSUME NEW t \in Threads, NEW answer, MovesAlone(t),
           pc[t] \notin {"idle", "unlock", "eraseName"},
           Settled(t)', RequestOf(t)' = RequestOf(t), ReplyOf(t)' = answer
    PROVE  /\ Served(t, answer)
           /\ AllRequests[t] = RequestOf(t)
  <1>1. /\ AllRequests[t] = RequestOf(t) /\ Phases[t] = "asked"
        /\ PhaseOf(t)' = "answered"
    BY DEF Phases, AllRequests, PhaseOf, Settled
  <1>2. AllRequests' = AllRequests
    BY <1>1, MappedStep DEF AllRequests
  <1> QED
    BY <1>1, <1>2, MappedStep DEF Served

(* The answers of a call, in the terms of the table's specification.        *)
LEMMA AnswersAgree ==
    /\ NoResult = Promise!NoReply
    /\ \A status : Result(status) = Promise!Reply(status)
    /\ \A m : [Result("ok") EXCEPT !.metric = m] = Promise!Pointer(m)
    /\ NoCall = Promise!NoRequest
  BY DEF NoResult, Promise!NoReply, EmptyMap, Promise!EmptyMap, Result,
         Promise!Reply, Promise!Pointer, NoCall, Promise!NoRequest, GaugeType,
         Promise!GaugeType

LEMMA TypesAgree ==
    Promise!Types = Types /\ Promise!GaugeType = GaugeType
  BY DEF Promise!Types, Types, Promise!GaugeType, GaugeType

(* What a call asks for.                                                    *)
LEMMA AskedFor ==
    ASSUME TypeInv, NEW t \in Threads
    PROVE  /\ RequestOf(t).op = call[t].op /\ RequestOf(t).type = call[t].type
           /\ RequestOf(t).name = call[t].name
           /\ call[t].op # "getOrAdd" => RequestOf(t) = call[t]
  <1>1. call[t] \in Calls
    BY DEF TypeInv, TypeOK
  <1> QED
    BY <1>1 DEF RequestOf, Calls

LEMMA InitRefines == Init => Promise!Init
  <1> SUFFICES ASSUME Init PROVE Promise!Init
    OBVIOUS
  <1>1. Table = [n \in Names |-> Promise!Unbound]
    <2>1. /\ \A n \in Names, type \in Types : ~Holds(type, n)
          /\ orphaned = {}
      BY DEF Init, Holds, EmptyMap
    <2> QED
      BY <2>1, TableOfFree DEF Table
  <1>2. Phases = [t \in Threads |-> "outside"]
    <2>1. \A t \in Threads : PhaseOf(t) = "outside"
      BY DEF Init, PhaseOf, Settled
    <2> QED
      BY <2>1 DEF Phases
  <1>3. AllRequests = [t \in Threads |-> Promise!NoRequest]
    BY AnswersAgree DEF Init, AllRequests, RequestOf, NoCall
  <1>4. Replies = [t \in Threads |-> Promise!NoReply]
    BY AnswersAgree DEF Init, Replies, ReplyOf
  <1> QED
    BY <1>1, <1>2, <1>3, <1>4
    DEF Promise!Init, Table, Phases, AllRequests, Replies

(* The calls of the table's specification, as answers to what is bound.     *)
LEMMA ServedGetOrAdd ==
    ASSUME NEW t \in Threads, NEW answer, Served(t, answer),
           NEW n \in Names, NEW type,
           AllRequests[t].op = "getOrAdd", AllRequests[t].type = type,
           AllRequests[t].name = n,
           \/ /\ Table' = Table /\ Promise!Bound(n) /\ Table[n].type = type
              /\ answer = Promise!Pointer(Table[n].metric)
           \/ /\ Table' = Table /\ Promise!Bound(n) /\ Table[n].type # type
              /\ answer = Promise!Reply("invalid_argument")
           \/ /\ \/ Table' = Table
                 \/ /\ ~Promise!Bound(n)
                    /\ Table' = [Table EXCEPT ![n] = Promise!Taken]
              /\ Promise!Bound(n) => Table[n].type # type
              /\ answer = Promise!Reply("bad_alloc")
           \/ /\ ~Promise!Bound(n)
              /\ \E m \in ObjectsOf(type) \ {Table[other].metric : other \in Names} :
                    /\ Table' = [Table EXCEPT ![n] = Promise!Binding(type, m)]
                    /\ answer = Promise!Pointer(m)
    PROVE  Promise!Next
  <1>1. Promise!Answer(t, answer)
    BY ServedAnswers
  <1>2. Promise!GetOrAdd(t, type, n)
    BY <1>1
    DEF Promise!GetOrAdd, Promise!Bind, Promise!Abandon, Table, ObjectsOf,
        Promise!ObjectsOf, GaugeType, Promise!GaugeType
  <1>3. Promise!Serve(t)
    BY <1>2 DEF Promise!Serve, AllRequests
  <1> QED
    BY <1>3, ServeStep

LEMMA ServedAddGauge ==
    ASSUME NEW t \in Threads, NEW answer, Served(t, answer),
           NEW n \in Names, NEW g,
           AllRequests[t].op = "addGauge", AllRequests[t].name = n,
           AllRequests[t].metric = g,
           \/ /\ Table' = Table /\ Promise!Bound(n)
              /\ answer = Promise!Reply("invalid_argument")
           \/ /\ \/ Table' = Table
                 \/ Table' = [Table EXCEPT ![n] = Promise!Taken]
              /\ ~Promise!Bound(n)
              /\ answer = Promise!Reply("bad_alloc")
           \/ /\ ~Promise!Bound(n)
              /\ Table' = [Table EXCEPT
                              ![n] = Promise!Binding(Promise!GaugeType, g)]
              /\ answer = Promise!Reply("ok")
    PROVE  Promise!Next
  <1>1. Promise!Answer(t, answer)
    BY ServedAnswers
  <1>2. Promise!AddGauge(t, n, g)
    BY <1>1 DEF Promise!AddGauge, Promise!Bind, Promise!Abandon, Table
  <1>3. Promise!Serve(t)
    BY <1>2 DEF Promise!Serve, AllRequests
  <1> QED
    BY <1>3, ServeStep

LEMMA ServedRemoveMetric ==
    ASSUME NEW t \in Threads, NEW answer, Served(t, answer),
           NEW n \in Names,
           AllRequests[t].op = "removeMetric", AllRequests[t].name = n,
           \/ /\ Table' = Table /\ ~Promise!Bound(n)
              /\ answer = Promise!Reply("false")
           \/ /\ Promise!Bound(n)
              /\ Table' = [Table EXCEPT ![n] = Promise!Unbound]
              /\ answer = Promise!Reply("ok")
    PROVE  Promise!Next
  <1>1. Promise!Answer(t, answer)
    BY ServedAnswers
  <1>2. Promise!RemoveMetric(t, n)
    BY <1>1 DEF Promise!RemoveMetric, Table
  <1>3. Promise!Serve(t)
    BY <1>2 DEF Promise!Serve, AllRequests
  <1> QED
    BY <1>3, ServeStep

LEMMA ServedGetMetrics ==
    ASSUME NEW t \in Threads, NEW answer, Served(t, answer), NEW type,
           AllRequests[t].op = "getMetrics", AllRequests[t].type = type,
           Table' = Table,
           answer = [Promise!Reply("ok") EXCEPT !.map = Promise!Slice(type)]
    PROVE  Promise!Next
  <1>1. Promise!Answer(t, answer)
    BY ServedAnswers
  <1>2. Promise!GetMetrics(t, type)
    BY <1>1 DEF Promise!GetMetrics, Table
  <1>3. Promise!Serve(t)
    BY <1>2 DEF Promise!Serve, AllRequests
  <1> QED
    BY <1>3, ServeStep

LEMMA SameCardinality == \A S : Promise!Cardinality(S) = Cardinality(S)
  BY Zenon DEF Cardinality, Promise!Cardinality

LEMMA ServedCount ==
    ASSUME NEW t \in Threads, NEW answer, Served(t, answer),
           AllRequests[t].op = "count", Table' = Table,
           answer = [Promise!Reply("ok") EXCEPT !.size =
                        Cardinality({n \in Names : Promise!Bound(n)})]
    PROVE  Promise!Next
  <1>1. Promise!Answer(t, answer)
    BY ServedAnswers
  <1>2. Promise!Count(t)
    <2>1. answer = [Promise!Reply("ok") EXCEPT !.size =
              Promise!Cardinality({n \in Names : Promise!Bound(n)})]
      BY SameCardinality, Zenon
    <2>2. Promise!Answer(t, [Promise!Reply("ok") EXCEPT !.size =
              Promise!Cardinality({n \in Names : Promise!Bound(n)})])
      BY <1>1, <2>1, Zenon
    <2>3. UNCHANGED [n \in Names |-> TableOf(n)]
      BY DEF Table
    <2> QED
      BY <2>2, <2>3, Zenon DEF Promise!Count
  <1>3. Promise!Serve(t)
    BY <1>2 DEF Promise!Serve, AllRequests
  <1> QED
    BY <1>3, ServeStep

(* Each step of the registry is one of the table, or is not seen.           *)
Simulated == Promise!Next \/ UNCHANGED Promise!vars

LEMMA CallSimulated ==
    ASSUME TypeInv, NEW t \in Threads, MovesAlone(t),
           NEW op, NEW type, NEW n, NEW m, Call(t, op, type, n, m),
           [op |-> op, type |-> type, name |-> n, metric |-> m]
               \in Promise!Requests,
           op = "getOrAdd" => m = None
    PROVE  Simulated
  <1> DEFINE r == [op |-> op, type |-> type, name |-> n, metric |-> m]
  <1>1. /\ pc[t] = "idle" /\ pc'[t] = "lock" /\ call'[t] = r
        /\ metric_set_' = metric_set_ /\ orphaned' = orphaned
    BY DEF TypeInv, TypeOK, Call, Goto, regVars
  <1>2. RequestOf(t)' = r
    BY <1>1 DEF RequestOf
  <1>3. PhaseOf(t)' = "asked" /\ PhaseOf(t) = "outside"
    BY <1>1 DEF PhaseOf, Settled
  <1>4. ReplyOf(t)' = ReplyOf(t)
    BY <1>1 DEF ReplyOf
  <1>5. /\ Phases[t] = "outside"
        /\ Phases' = [Phases EXCEPT ![t] = "asked"]
        /\ AllRequests' = [AllRequests EXCEPT ![t] = r]
        /\ Replies' = Replies
    BY <1>2, <1>3, <1>4, MappedStep DEF Phases, Replies
  <1> QED
    BY <1>1, <1>5, QuietTable, AskStep DEF Simulated

LEMMA AcquireSimulated ==
    ASSUME TypeInv, NEW t \in Threads, MovesAlone(t),
           AcquireUnique(t) \/ AcquireShared(t)
    PROVE  Simulated
  <1>1. /\ pc[t] = "lock" /\ call' = call
        /\ metric_set_' = metric_set_ /\ orphaned' = orphaned
        /\ pc'[t] \in {"find", "addName", "eraseEntry", "size", "copy"}
    BY DEF TypeInv, TypeOK, AcquireUnique, AcquireShared, Goto,
           FirstUniqueStep, UniqueOps
  <1>2. /\ PhaseOf(t)' = PhaseOf(t) /\ RequestOf(t)' = RequestOf(t)
        /\ ReplyOf(t)' = ReplyOf(t)
    BY <1>1 DEF PhaseOf, Settled, RequestOf, ReplyOf
  <1> QED
    BY <1>1, <1>2, Unseen DEF Simulated

LEMMA FindSimulated ==
    ASSUME TypeInv, TableInv, NEW t \in Threads, MovesAlone(t), Find(t)
    PROVE  Simulated
  <1> DEFINE type == call[t].type
             n == call[t].name
  <1>1. /\ pc[t] = "find" /\ call' = call
        /\ metric_set_' = metric_set_ /\ orphaned' = orphaned
        /\ n \in Names /\ type \in Types /\ call[t].op = "getOrAdd"
    BY ControlFacts DEF Find, regVars
  <1>2. RequestOf(t)' = RequestOf(t)
    BY <1>1 DEF RequestOf
  <1>3. CASE ~Holds(type, n)
    <2>1. pc'[t] = "build"
      BY <1>3 DEF TypeInv, TypeOK, Find, Goto, Holds
    <2>2. PhaseOf(t)' = PhaseOf(t) /\ ReplyOf(t)' = ReplyOf(t)
      BY <1>1, <2>1 DEF PhaseOf, Settled, ReplyOf
    <2> QED
      BY <1>1, <1>2, <2>2, Unseen DEF Simulated
  <1>4. CASE Holds(type, n)
    <2> DEFINE answer == Promise!Pointer(metric_set_[type][n])
    <2>1. pc'[t] = "unlock" /\ ret'[t] = answer
      BY <1>4, AnswersAgree
      DEF TypeInv, TypeOK, Find, Finish, Goto, Holds
    <2>2. Settled(t)' /\ ReplyOf(t)' = answer
      BY <2>1 DEF Settled, ReplyOf
    <2>3. Served(t, answer) /\ AllRequests[t] = RequestOf(t)
      BY <1>1, <1>2, <2>2, AnsweredHere
    <2>4. /\ Promise!Bound(n) /\ Table[n].type = type
          /\ Table[n].metric = metric_set_[type][n]
      <3> HIDE DEF type, n
      <3> QED
        BY <1>1, <1>4, TableOfHeld
    <2>5. Table' = Table
      BY <1>1, QuietTable
    <2>6. /\ AllRequests[t].op = "getOrAdd" /\ AllRequests[t].type = type
          /\ AllRequests[t].name = n
      BY <1>1, <2>3, AskedFor
    <2> HIDE DEF answer, type, n
    <2>7. answer = Promise!Pointer(Table[n].metric)
      BY <2>4 DEF answer
    <2> QED
      BY <1>1, <2>3, <2>4, <2>5, <2>6, <2>7, ServedGetOrAdd DEF Simulated
  <1> QED
    BY <1>3, <1>4

LEMMA BuildSimulated ==
    ASSUME TypeInv, TableInv, NamesInv, SearchInv,
           NEW t \in Threads, MovesAlone(t), BuildMetric(t)
    PROVE  Simulated
  <1> DEFINE type == call[t].type
             n == call[t].name
  <1>1. /\ pc[t] = "build"
        /\ metric_set_' = metric_set_ /\ orphaned' = orphaned
        /\ n \in Names /\ type \in Types /\ call[t].op = "getOrAdd"
        /\ ~Holds(type, n)
    BY ControlFacts DEF BuildMetric, Throws, regVars, SearchInv, SearchOK
  <1>2. ASSUME NEW m \in Metrics, call' = [call EXCEPT ![t].metric = m],
               Goto(t, "addName")
        PROVE  Simulated
    <2>1. call[t] \in Calls /\ call'[t] = [call[t] EXCEPT !.metric = m]
      BY <1>2 DEF TypeInv, TypeOK
    <2>2. /\ call'[t].op = "getOrAdd"
          /\ [call'[t] EXCEPT !.metric = None]
                 = [call[t] EXCEPT !.metric = None]
      BY <1>1, <2>1 DEF Calls
    <2>3. RequestOf(t)' = RequestOf(t)
      BY <1>1, <2>2 DEF RequestOf
    <2>4. pc'[t] = "addName"
      BY <1>2 DEF TypeInv, TypeOK, Goto
    <2>5. PhaseOf(t)' = PhaseOf(t) /\ ReplyOf(t)' = ReplyOf(t)
      BY <1>1, <2>4 DEF PhaseOf, Settled, ReplyOf
    <2> QED
      BY <1>1, <2>3, <2>5, Unseen DEF Simulated
  <1>3. CASE Throws(t, "metric")
    <2> DEFINE answer == Promise!Reply("bad_alloc")
    <2>1. pc'[t] = "unlock" /\ ret'[t] = answer /\ call' = call
      BY <1>3, AnswersAgree DEF TypeInv, TypeOK, Throws, Finish, Goto
    <2>2. /\ Settled(t)' /\ ReplyOf(t)' = answer
          /\ RequestOf(t)' = RequestOf(t)
      BY <2>1 DEF Settled, ReplyOf, RequestOf
    <2>3. Served(t, answer) /\ AllRequests[t] = RequestOf(t)
      BY <1>1, <2>2, AnsweredHere
    <2>4. Promise!Bound(n) => Table[n].type # type
      <3> HIDE DEF type, n
      <3> QED
        BY <1>1, BoundElsewhere
    <2>5. Table' = Table
      BY <1>1, QuietTable
    <2>6. /\ AllRequests[t].op = "getOrAdd" /\ AllRequests[t].type = type
          /\ AllRequests[t].name = n
      BY <1>1, <2>3, AskedFor
    <2> HIDE DEF answer, type, n
    <2>7. answer = Promise!Reply("bad_alloc")
      BY DEF answer
    <2> QED
      BY <1>1, <2>3, <2>4, <2>5, <2>6, <2>7, ServedGetOrAdd DEF Simulated
  <1> QED
    BY <1>2, <1>3, BuildFacts

(* A name in use is bound unless its writer is half done.                   *)
LEMMA InUseIsBound ==
    ASSUME TypeInv, LockDiscipline, TableInv, NamesInv,
           NEW t \in Threads, pc[t] \in WriterSteps, ~HalfDone(t),
           NEW n \in Names
    PROVE  n \in metric_names_ <=>
               n \in orphaned \/ \E type \in Types : Holds(type, n)
  BY OthersAreNotHalfDone
  DEF NamesInv, NamesHaveEntries, OrphansAreEmpty, TableInv, EntriesNamed

LEMMA AddNameSimulated ==
    ASSUME TypeInv, LockDiscipline, TableInv, NamesInv, SearchInv,
           NEW t \in Threads, MovesAlone(t), AddName(t)
    PROVE  Simulated
  <1> DEFINE type == call[t].type
             n == call[t].name
  <1>1. /\ pc[t] = "addName" /\ call' = call
        /\ metric_set_' = metric_set_ /\ orphaned' = orphaned
        /\ n \in Names /\ type \in Types
        /\ call[t].op \in {"getOrAdd", "addGauge"}
        /\ call[t].op = "getOrAdd" => ~Holds(type, n)
    BY ControlFacts DEF AddName, Throws, regVars, SearchInv, SearchOK
  <1>2. RequestOf(t)' = RequestOf(t)
    BY <1>1 DEF RequestOf
  <1>3. n \in metric_names_ <=>
            n \in orphaned \/ \E ty \in Types : Holds(ty, n)
    BY <1>1, InUseIsBound DEF WriterSteps, HalfDone
  <1>4. CASE pc'[t] = "insert"
    <2>1. PhaseOf(t)' = PhaseOf(t) /\ ReplyOf(t)' = ReplyOf(t)
      BY <1>1, <1>4 DEF PhaseOf, Settled, ReplyOf
    <2> QED
      BY <1>1, <1>2, <2>1, Unseen DEF Simulated
  <1>5. CASE pc'[t] = "unlock"
    <2>1. PICK answer : ret'[t] = answer
      OBVIOUS
    <2>2. \/ n \in metric_names_
             /\ answer = Promise!Reply("invalid_argument")
          \/ n \notin metric_names_ /\ answer = Promise!Reply("bad_alloc")
      BY <1>5, <2>1, AnswersAgree
      DEF TypeInv, TypeOK, AddName, Throws, Finish, Goto
    <2>3. Settled(t)' /\ ReplyOf(t)' = answer
      BY <1>5, <2>1 DEF Settled, ReplyOf
    <2>4. Served(t, answer) /\ AllRequests[t] = RequestOf(t)
      BY <1>1, <1>2, <2>3, AnsweredHere
    <2>5. Table' = Table
      BY <1>1, QuietTable
    <2>6. /\ AllRequests[t].op = call[t].op /\ AllRequests[t].type = type
          /\ AllRequests[t].name = n
      BY <2>4, AskedFor
    <2> HIDE DEF type, n
    <2>7. Promise!Bound(n) <=> n \in metric_names_
      BY <1>1, <1>3, BoundIsHeld
    <2>8. call[t].op = "getOrAdd" /\ Promise!Bound(n) => Table[n].type # type
      BY <1>1, BoundElsewhere
    <2>9. CASE call[t].op = "getOrAdd"
      BY <1>1, <2>2, <2>4, <2>5, <2>6, <2>7, <2>8, <2>9, ServedGetOrAdd
      DEF Simulated
    <2>10. CASE call[t].op = "addGauge"
      BY <1>1, <2>2, <2>4, <2>5, <2>6, <2>7, <2>10, ServedAddGauge
      DEF Simulated
    <2> QED
      BY <1>1, <2>9, <2>10
  <1> QED
    BY <1>4, <1>5 DEF TypeInv, TypeOK, AddName, Throws, Finish, Goto

(* A name is bound, freed or taken by no type.                              *)
LEMMA BindsOne ==
    ASSUME TypeInv', TableInv', NEW n \in Names, NEW type \in Types,
           NEW m \in Objects,
           metric_set_'[type][n] = m,
           \A other \in Names \ {n} :
               /\ other \in orphaned' <=> other \in orphaned
               /\ \A ty \in Types :
                     metric_set_'[ty][other] = metric_set_[ty][other]
    PROVE  Table' = [Table EXCEPT ![n] = Promise!Binding(type, m)]
  <1>1. Holds(type, n)'
    BY NoneIsApart DEF Holds
  <1>2. Table'[n] = Promise!Binding(type, m)
    <2>1. TypesHolding(n)' = {type}
      BY <1>1 DEF TableInv, OneTypePerName, Holds, TypesHolding
    <2> QED
      BY <2>1 DEF Table, TableOf, Promise!Binding
  <1>3. \A other \in Names \ {n} : Table'[other] = Table[other]
    BY SameTable
  <1> QED
    BY <1>2, <1>3 DEF Table

LEMMA FreesOne ==
    ASSUME NEW n \in Names, n \notin orphaned',
           \A type \in Types : metric_set_'[type][n] = None,
           \A other \in Names \ {n} :
               /\ other \in orphaned' <=> other \in orphaned
               /\ \A ty \in Types :
                     metric_set_'[ty][other] = metric_set_[ty][other]
    PROVE  Table' = [Table EXCEPT ![n] = Promise!Unbound]
  <1>1. TypesHolding(n)' = {}
    BY DEF TypesHolding
  <1>2. Table'[n] = Promise!Unbound
    BY <1>1
    DEF Table, TableOf, Promise!Unbound, Promise!Binding, Promise!GaugeType,
        GaugeType
  <1>3. \A other \in Names \ {n} : Table'[other] = Table[other]
    BY SameTable
  <1> QED
    BY <1>2, <1>3 DEF Table

LEMMA TakesOne ==
    ASSUME NEW n \in Names, n \in orphaned',
           \A type \in Types : metric_set_'[type][n] = None,
           \A other \in Names \ {n} :
               /\ other \in orphaned' <=> other \in orphaned
               /\ \A ty \in Types :
                     metric_set_'[ty][other] = metric_set_[ty][other]
    PROVE  Table' = [Table EXCEPT ![n] = Promise!Taken]
  <1>1. TypesHolding(n)' = {}
    BY DEF TypesHolding
  <1>2. Table'[n] = Promise!Taken
    BY <1>1 DEF Table, TableOf, Promise!Taken, Promise!Binding
  <1>3. \A other \in Names \ {n} : Table'[other] = Table[other]
    BY SameTable
  <1> QED
    BY <1>2, <1>3 DEF Table

LEMMA InsertSimulated ==
    ASSUME TypeInv, TableInv, NamesInv, CastInv, SearchInv,
           TypeInv', TableInv',
           NEW t \in Threads, MovesAlone(t), InsertMetric(t), ~InsertThrows(t)
    PROVE  Simulated
  <1> DEFINE type == call[t].type
             n == call[t].name
             m == call[t].metric
  <1>1. /\ pc[t] = "insert" /\ call' = call /\ pc'[t] = "unlock"
        /\ metric_set_' = [metric_set_ EXCEPT ![type][n] = m]
        /\ orphaned' = orphaned
        /\ ret'[t] = IF call[t].op = "getOrAdd"
                     THEN Promise!Pointer(m) ELSE Promise!Reply("ok")
    BY AnswersAgree
    DEF TypeInv, TypeOK, InsertMetric, Finish, Goto
  <1>2. /\ n \in Names /\ type \in Types /\ m \in Objects
        /\ call[t].op \in {"getOrAdd", "addGauge"}
        /\ m \in ObjectsOf(type)
        /\ call[t].op = "addGauge" => type = GaugeType
    BY <1>1, ControlFacts
    DEF TypeInv, ArgumentsOK, KindOf, Objects, CastInv, HandSafe
  <1>3. n \notin orphaned /\ \A ty \in Types : ~Holds(ty, n)
    BY <1>1 DEF TableInv, HalfDoneIsEmpty, HalfDone, NamesInv, OrphansAreEmpty
  <1>4. /\ metric_set_'[type][n] = m
        /\ \A other \in Names \ {n}, ty \in Types :
               metric_set_'[ty][other] = metric_set_[ty][other]
    BY <1>1, <1>2 DEF TypeInv, TypeOK, Maps
  <1>5. PICK answer : answer = ret'[t]
    OBVIOUS
  <1>6. Settled(t)' /\ ReplyOf(t)' = answer /\ RequestOf(t)' = RequestOf(t)
    BY <1>1, <1>5 DEF Settled, ReplyOf, RequestOf
  <1>7. Served(t, answer) /\ AllRequests[t] = RequestOf(t)
    BY <1>1, <1>6, AnsweredHere
  <1>8. /\ AllRequests[t].op = call[t].op /\ AllRequests[t].type = type
        /\ AllRequests[t].name = n
        /\ call[t].op = "addGauge" => AllRequests[t].metric = m
    BY <1>7, AskedFor
  <1>9. call[t].op = "getOrAdd" =>
            \A ty \in Types, other \in Names : metric_set_[ty][other] # m
    BY <1>1 DEF SearchInv, SearchOK
  <1> HIDE DEF type, n, m
  <1>10. Table' = [Table EXCEPT ![n] = Promise!Binding(type, m)]
    BY <1>1, <1>2, <1>4, BindsOne
  <1>11. ~Promise!Bound(n)
    BY <1>2, <1>3, TableOfFree
  <1>12. CASE call[t].op = "getOrAdd"
    <2>1. \A other \in Names : Table[other].metric # m
      <3> SUFFICES ASSUME NEW other \in Names PROVE Table[other].metric # m
        OBVIOUS
      <3>1. CASE \E ty \in Types : Holds(ty, other)
        BY <1>9, <1>12, <3>1, TableOfHeld
      <3>2. CASE \A ty \in Types : ~Holds(ty, other)
        BY <1>2, <3>2, TableOfFree, TableOfTaken, NoneIsApart
        DEF Promise!Unbound, Promise!Binding
      <3> QED
        BY <3>1, <3>2
    <2>2. m \in ObjectsOf(type) \ {Table[other].metric : other \in Names}
      BY <1>2, <1>12, <2>1
    <2>3. answer = Promise!Pointer(m)
      BY <1>1, <1>5, <1>12
    <2> QED
      BY <1>2, <1>7, <1>8, <1>10, <1>11, <1>12, <2>2, <2>3, ServedGetOrAdd
      DEF Simulated
  <1>13. CASE call[t].op = "addGauge"
    <2>1. answer = Promise!Reply("ok") /\ type = Promise!GaugeType
      BY <1>1, <1>2, <1>5, <1>13, TypesAgree
    <2> QED
      BY <1>2, <1>7, <1>8, <1>10, <1>11, <1>13, <2>1, ServedAddGauge
      DEF Simulated
  <1> QED
    BY <1>2, <1>12, <1>13

(* A creation whose map entry could not be inserted leaves the name taken.  *)
LEMMA InsertThrowsSimulated ==
    ASSUME TypeInv, TableInv, NamesInv,
           NEW t \in Threads, MovesAlone(t), InsertMetric(t), InsertThrows(t)
    PROVE  Simulated
  <1> DEFINE type == call[t].type
             n == call[t].name
  <1>1. /\ pc[t] = "insert" /\ call' = call /\ pc'[t] = "unlock"
        /\ metric_set_' = metric_set_ /\ orphaned' = orphaned \cup {n}
        /\ ret'[t] = Promise!Reply("bad_alloc")
    BY AnswersAgree
    DEF TypeInv, TypeOK, InsertMetric, InsertThrows, Finish, Goto
  <1>2. /\ n \in Names /\ type \in Types
        /\ call[t].op \in {"getOrAdd", "addGauge"}
    BY <1>1, ControlFacts
  <1>3. n \notin orphaned /\ \A ty \in Types : ~Holds(ty, n)
    BY <1>1 DEF TableInv, HalfDoneIsEmpty, HalfDone, NamesInv, OrphansAreEmpty
  <1>4. PICK answer : answer = Promise!Reply("bad_alloc")
    OBVIOUS
  <1>5. Settled(t)' /\ ReplyOf(t)' = answer /\ RequestOf(t)' = RequestOf(t)
    BY <1>1, <1>4 DEF Settled, ReplyOf, RequestOf
  <1>6. Served(t, answer) /\ AllRequests[t] = RequestOf(t)
    BY <1>1, <1>5, AnsweredHere
  <1>7. /\ AllRequests[t].op = call[t].op /\ AllRequests[t].type = type
        /\ AllRequests[t].name = n
    BY <1>6, AskedFor
  <1> HIDE DEF type, n
  <1>8. ~Promise!Bound(n)
    BY <1>2, <1>3, TableOfFree
  <1>9. Table' = [Table EXCEPT ![n] = Promise!Taken]
    BY <1>1, <1>2, <1>3, TakesOne DEF Holds
  <1>10. CASE call[t].op = "getOrAdd"
    BY <1>2, <1>4, <1>6, <1>7, <1>8, <1>9, <1>10, ServedGetOrAdd
    DEF Simulated
  <1>11. CASE call[t].op = "addGauge"
    BY <1>2, <1>4, <1>6, <1>7, <1>8, <1>9, <1>11, ServedAddGauge
    DEF Simulated
  <1> QED
    BY <1>2, <1>10, <1>11

LEMMA EraseEntrySimulated ==
    ASSUME TypeInv, LockDiscipline, TableInv, NamesInv,
           NEW t \in Threads, MovesAlone(t), EraseEntry(t)
    PROVE  Simulated
  <1> DEFINE n == call[t].name
  <1>1. /\ pc[t] = "eraseEntry" /\ call' = call /\ n \in Names
        /\ call[t].op = "removeMetric"
    BY ControlFacts DEF EraseEntry
  <1>2. n \in metric_names_ <=>
            n \in orphaned \/ \E ty \in Types : Holds(ty, n)
    BY <1>1, InUseIsBound DEF WriterSteps, HalfDone
  <1>3. Promise!Bound(n) <=> n \in metric_names_
    <2> HIDE DEF n
    <2> QED
      BY <1>1, <1>2, BoundIsHeld
  <1>4. RequestOf(t)' = RequestOf(t)
    BY <1>1 DEF RequestOf
  <1>5. CASE n \notin metric_names_
    <2>1. PICK answer : answer = Promise!Reply("false")
      OBVIOUS
    <2>2. /\ pc'[t] = "unlock"
          /\ metric_set_' = metric_set_ /\ orphaned' = orphaned
          /\ ret'[t] = Promise!Reply("false")
      BY <1>5, AnswersAgree DEF TypeInv, TypeOK, EraseEntry, Finish, Goto
    <2>3. Settled(t)' /\ ReplyOf(t)' = answer
      BY <2>1, <2>2 DEF Settled, ReplyOf
    <2>4. Served(t, answer) /\ AllRequests[t] = RequestOf(t)
      BY <1>1, <1>4, <2>3, AnsweredHere
    <2>5. Table' = Table
      BY <2>2, QuietTable
    <2>6. AllRequests[t].op = call[t].op /\ AllRequests[t].name = n
      BY <2>4, AskedFor
    <2> HIDE DEF n
    <2> QED
      BY <1>1, <1>3, <1>5, <2>1, <2>4, <2>5, <2>6, ServedRemoveMetric
      DEF Simulated
  <1>6. CASE n \in metric_names_
    <2>1. PICK answer : answer = Promise!Reply("ok")
      OBVIOUS
    <2>2. /\ orphaned' = orphaned \ {n}
          /\ \/ \E type \in TypesHolding(n) :
                   metric_set_' = [metric_set_ EXCEPT ![type][n] = None]
             \/ TypesHolding(n) = {} /\ metric_set_' = metric_set_
      BY <1>6 DEF EraseEntry
    <2>3. pc'[t] = "eraseName"
      BY <1>6 DEF TypeInv, TypeOK, EraseEntry, Goto
    <2>4. Settled(t)' /\ ReplyOf(t)' = answer
      BY <2>1, <2>3, AnswersAgree DEF Settled, ReplyOf
    <2>5. Served(t, answer) /\ AllRequests[t] = RequestOf(t)
      BY <1>1, <1>4, <2>4, AnsweredHere
    <2>6. AllRequests[t].op = call[t].op /\ AllRequests[t].name = n
      BY <2>5, AskedFor
    <2>7. /\ \A ty \in Types : metric_set_'[ty][n] = None
          /\ \A other \in Names \ {n}, ty \in Types :
                 metric_set_'[ty][other] = metric_set_[ty][other]
      <3>1. CASE TypesHolding(n) = {} /\ metric_set_' = metric_set_
        BY <3>1 DEF TypesHolding
      <3>2. ASSUME NEW type \in TypesHolding(n),
                   metric_set_' = [metric_set_ EXCEPT ![type][n] = None]
            PROVE  /\ \A ty \in Types : metric_set_'[ty][n] = None
                   /\ \A other \in Names \ {n}, ty \in Types :
                          metric_set_'[ty][other] = metric_set_[ty][other]
        <4>1. TypesHolding(n) = {type}
          BY <1>1, <3>2 DEF TableInv, OneTypePerName, Holds, TypesHolding
        <4> QED
          BY <1>1, <3>2, <4>1 DEF TypeInv, TypeOK, Maps, TypesHolding
      <3> QED
        BY <2>2, <3>1, <3>2
    <2> HIDE DEF n
    <2>8. Table' = [Table EXCEPT ![n] = Promise!Unbound]
      BY <1>1, <2>2, <2>7, FreesOne
    <2> QED
      BY <1>1, <1>3, <1>6, <2>1, <2>5, <2>6, <2>8, ServedRemoveMetric
      DEF Simulated
  <1> QED
    BY <1>5, <1>6

LEMMA EraseNameSimulated ==
    ASSUME TypeInv, NEW t \in Threads, MovesAlone(t), EraseName(t)
    PROVE  Simulated
  <1>1. /\ pc[t] = "eraseName" /\ pc'[t] = "unlock" /\ call' = call
        /\ ret'[t] = Result("ok")
        /\ metric_set_' = metric_set_ /\ orphaned' = orphaned
    BY DEF TypeInv, TypeOK, EraseName, Finish, Goto
  <1>2. /\ PhaseOf(t)' = PhaseOf(t) /\ RequestOf(t)' = RequestOf(t)
        /\ ReplyOf(t)' = ReplyOf(t)
    BY <1>1 DEF PhaseOf, Settled, RequestOf, ReplyOf
  <1> QED
    BY <1>1, <1>2, Unseen DEF Simulated

LEMMA CopyEntrySimulated ==
    ASSUME TypeInv, NEW t \in Threads, MovesAlone(t), CopyEntry(t)
    PROVE  Simulated
  <1>1. /\ pc[t] = "copy" /\ pc' = pc /\ call' = call
        /\ metric_set_' = metric_set_ /\ orphaned' = orphaned
    BY DEF CopyEntry, regVars
  <1>2. /\ PhaseOf(t)' = PhaseOf(t) /\ RequestOf(t)' = RequestOf(t)
        /\ ReplyOf(t)' = ReplyOf(t)
    BY <1>1 DEF PhaseOf, Settled, RequestOf, ReplyOf
  <1> QED
    BY <1>1, <1>2, Unseen DEF Simulated

(* The map of a type is the table's slice of that type.                     *)
LEMMA SliceIsTheMap ==
    ASSUME TypeInv, TableInv, NamesInv, NEW type \in Types
    PROVE  Promise!Slice(type) = metric_set_[type]
  <1>1. metric_set_[type] \in [Names -> Objects \cup {None}]
    BY DEF TypeInv, TypeOK, Maps
  <1>2. Promise!Slice(type) =
            [n \in Names |-> IF Promise!Bound(n) /\ Table[n].type = type
                             THEN Table[n].metric ELSE None]
    BY DEF Promise!Slice, Table
  <1>3. ASSUME NEW n \in Names
        PROVE  metric_set_[type][n] =
                   IF Promise!Bound(n) /\ Table[n].type = type
                   THEN Table[n].metric ELSE None
    <2>1. CASE Holds(type, n)
      BY <2>1, TableOfHeld
    <2>2. CASE ~Holds(type, n)
      <3>1. ~(Promise!Bound(n) /\ Table[n].type = type)
        BY <2>2, BoundElsewhere
      <3> QED
        BY <2>2, <3>1 DEF Holds
    <2> QED
      BY <2>1, <2>2
  <1> QED
    BY <1>1, <1>2, <1>3

LEMMA EndCopySimulated ==
    ASSUME TypeInv, TableInv, NamesInv, CopyIsASnapshot, SearchInv,
           NEW t \in Threads, MovesAlone(t), EndCopy(t)
    PROVE  Simulated
  <1> DEFINE type == call[t].type
  <1>1. /\ pc[t] = "copy" /\ pc'[t] = "unlock" /\ call' = call
        /\ metric_set_' = metric_set_ /\ orphaned' = orphaned
        /\ todo[t] = {}
        /\ ret'[t] = [ret[t] EXCEPT !.status = "ok"]
        /\ call[t].op = "getMetrics" /\ type \in Types
        /\ ret[t] \in Results
    BY ControlFacts DEF TypeInv, TypeOK, EndCopy, Finish, Goto, regVars
  <1>2. ret[t].map = metric_set_[type]
    <2>1. \A n \in Names : ret[t].map[n] = metric_set_[type][n]
      BY <1>1 DEF CopyIsASnapshot
    <2>2. metric_set_[type] \in Maps /\ ret[t].map \in Maps
      BY <1>1 DEF TypeInv, TypeOK, Results
    <2> QED
      BY <2>1, <2>2 DEF Maps
  <1>3. ret[t].metric = None /\ ret[t].size = 0
    BY <1>1 DEF SearchInv, SearchOK
  <1>4. ret'[t] = [Result("ok") EXCEPT !.map = metric_set_[type]]
    <2>1. PICK map : map = metric_set_[type]
      OBVIOUS
    <2>2. ret'[t] = [status |-> "ok", metric |-> None, map |-> map, size |-> 0]
      BY <1>1, <1>2, <1>3, <2>1 DEF Results
    <2>3. [Result("ok") EXCEPT !.map = map]
              = [status |-> "ok", metric |-> None, map |-> map, size |-> 0]
      <3>1. PICK empty : empty = EmptyMap
        OBVIOUS
      <3>2. Result("ok") = [status |-> "ok", metric |-> None, map |-> empty,
                            size |-> 0]
        BY <3>1 DEF Result, NoResult
      <3> QED
        BY <3>2
    <2> QED
      BY <2>1, <2>2, <2>3
  <1>5. PICK answer : answer = ret'[t]
    OBVIOUS
  <1>6. answer = [Promise!Reply("ok") EXCEPT !.map = Promise!Slice(type)]
    <2> HIDE DEF type
    <2> QED
      BY <1>1, <1>4, <1>5, SliceIsTheMap, AnswersAgree
  <1>7. Settled(t)' /\ ReplyOf(t)' = answer /\ RequestOf(t)' = RequestOf(t)
    BY <1>1, <1>5 DEF Settled, ReplyOf, RequestOf
  <1>8. Served(t, answer) /\ AllRequests[t] = RequestOf(t)
    BY <1>1, <1>7, AnsweredHere
  <1>9. AllRequests[t].op = "getMetrics" /\ AllRequests[t].type = type
    BY <1>1, <1>8, AskedFor
  <1>10. Table' = Table
    BY <1>1, QuietTable
  <1> HIDE DEF type
  <1> QED
    BY <1>6, <1>8, <1>9, <1>10, ServedGetMetrics DEF Simulated

LEMMA CountSimulated ==
    ASSUME TypeInv, LockDiscipline, TableInv, NamesInv,
           NEW t \in Threads, MovesAlone(t), Count(t)
    PROVE  Simulated
  <1>1. /\ pc[t] = "size" /\ pc'[t] = "unlock" /\ call' = call
        /\ metric_set_' = metric_set_ /\ orphaned' = orphaned
        /\ call[t].op = "count"
        /\ ret'[t] = [Result("ok") EXCEPT !.size = Cardinality(metric_names_)]
    BY ControlFacts DEF TypeInv, TypeOK, Count, Finish, Goto, regVars
  <1>2. \A u \in Threads : ~HalfDone(u)
    BY <1>1, Exclusion DEF HalfDone, WriterSteps, ReaderSteps
  <1>3. metric_names_ \subseteq Names
    BY DEF TypeInv, TypeOK
  <1>4. \A n \in Names :
            n \in metric_names_ <=>
                n \in orphaned \/ \E type \in Types : Holds(type, n)
    BY <1>2
    DEF NamesInv, NamesHaveEntries, OrphansAreEmpty, TableInv, EntriesNamed
  <1>5. metric_names_ = {n \in Names : Promise!Bound(n)}
    BY <1>3, <1>4, BoundIsHeld
  <1>6. PICK answer : answer = ret'[t]
    OBVIOUS
  <1>7. answer = [Promise!Reply("ok") EXCEPT !.size =
                     Cardinality({n \in Names : Promise!Bound(n)})]
    BY <1>1, <1>5, <1>6, AnswersAgree
  <1>8. Settled(t)' /\ ReplyOf(t)' = answer /\ RequestOf(t)' = RequestOf(t)
    BY <1>1, <1>6 DEF Settled, ReplyOf, RequestOf
  <1>9. Served(t, answer) /\ AllRequests[t] = RequestOf(t)
    BY <1>1, <1>8, AnsweredHere
  <1>10. AllRequests[t].op = "count"
    BY <1>1, <1>9, AskedFor
  <1>11. Table' = Table
    BY <1>1, QuietTable
  <1> QED
    BY <1>7, <1>9, <1>10, <1>11, ServedCount DEF Simulated

LEMMA ReturnSimulated ==
    ASSUME TypeInv, NEW t \in Threads, MovesAlone(t), Return(t)
    PROVE  Simulated
  <1>1. /\ pc[t] = "unlock" /\ pc'[t] = "idle" /\ call'[t] = NoCall
        /\ ret'[t] = NoResult
        /\ metric_set_' = metric_set_ /\ orphaned' = orphaned
    BY DEF TypeInv, TypeOK, Return, Goto
  <1>2. PhaseOf(t) = "answered" /\ PhaseOf(t)' = "outside"
    BY <1>1 DEF PhaseOf, Settled
  <1>3. RequestOf(t)' = Promise!NoRequest
    BY <1>1, AnswersAgree DEF RequestOf, NoCall
  <1>4. ReplyOf(t)' = Promise!NoReply
    BY <1>1, AnswersAgree DEF ReplyOf
  <1>5. /\ Phases[t] = "answered"
        /\ Phases' = [Phases EXCEPT ![t] = "outside"]
        /\ AllRequests' = [AllRequests EXCEPT ![t] = Promise!NoRequest]
        /\ Replies' = [Replies EXCEPT ![t] = Promise!NoReply]
    BY <1>2, <1>3, <1>4, MappedStep DEF Phases
  <1> QED
    BY <1>1, <1>5, QuietTable, LeaveStep DEF Simulated

(* Every call takes effect at one moment, as on the one table that NameTable *)
(* promises, whatever allocation fails: a call that throws changes nothing,  *)
(* or leaves its name taken.                                                 *)
THEOREM RegistryImplementsTable == Spec => ImplementsNameTable
  <1> DEFINE Inv == RegistryInv /\ SearchInv
  <1>1. Init => Inv
    BY TypeInvInit, LockInit, TableInit, CastInit, HandleInit, SnapshotInit,
       SearchInit
    DEF RegistryInv
  <1>2. Inv /\ [Next]_vars => Inv'
    BY TypeInvStep, LockStep, TableStep, NamesStep, CastStep, HandleStep,
       SnapshotStep, SearchStep
    DEF RegistryInv
  <1>3. Inv /\ [Next]_vars => [Promise!Next]_(Promise!vars)
    <2> SUFFICES ASSUME RegistryInv, SearchInv, [Next]_vars
                 PROVE  Simulated
      BY DEF Simulated
    <2>1. /\ TypeInv /\ LockDiscipline /\ TableInv /\ NamesInv /\ CastInv
          /\ CopyIsASnapshot
      BY DEF RegistryInv
    <2>2. TypeInv' /\ TableInv'
      BY <2>1, TypeInvStep, TableStep
    <2>3. CASE UNCHANGED vars
      <3>1. Table' = Table
        BY <2>3, QuietTable DEF vars, regVars
      <3>2. Phases' = Phases /\ AllRequests' = AllRequests
            /\ Replies' = Replies
        BY <2>3
        DEF vars, thrVars, Phases, PhaseOf, Settled, AllRequests, RequestOf,
            Replies, ReplyOf
      <3> QED
        BY <3>1, <3>2, StutterStep DEF Simulated
    <2>4. ASSUME NEW t \in Threads, ClientCall(t)
          PROVE  Simulated
      <3>1. PICK op, type, n, m :
                /\ Call(t, op, type, n, m)
                /\ [op |-> op, type |-> type, name |-> n, metric |-> m]
                       \in Promise!Requests
                /\ op = "getOrAdd" => m = None
        BY <2>4, TypesAgree
        DEF ClientCall, CallGetOrAdd, CallAddGauge, CallRemoveMetric,
            Promise!Requests
      <3>2. MovesAlone(t)
        BY <2>1, <3>1, OneThreadMoves DEF QuietStep, MovesAlone
      <3> QED
        BY <2>1, <3>1, <3>2, CallSimulated
    <2>5. ASSUME NEW t \in Threads, CallGetMetrics(t) \/ CallCount(t)
          PROVE  Simulated
      <3>1. PICK op, type, n, m :
                /\ Call(t, op, type, n, m)
                /\ [op |-> op, type |-> type, name |-> n, metric |-> m]
                       \in Promise!Requests
                /\ op = "getOrAdd" => m = None
        BY <2>5, TypesAgree
        DEF CallGetMetrics, CallCount, Promise!Requests
      <3>2. MovesAlone(t)
        BY <2>1, <3>1, OneThreadMoves DEF QuietStep, MovesAlone
      <3> QED
        BY <2>1, <3>1, <3>2, CallSimulated
    <2>6. ASSUME NEW t \in Threads, Run(t) PROVE Simulated
      <3>1. MovesAlone(t)
        BY <2>1, <2>6, OneThreadMoves
        DEF MovesAlone, Run, Acquire, GetOrAddStep, AddMetricStep,
            RemoveMetricStep, GetMetricsStep, QuietStep
      <3> QED
        BY <2>1, <2>2, <2>6, <3>1, AcquireSimulated, FindSimulated,
           BuildSimulated, AddNameSimulated, InsertSimulated,
           InsertThrowsSimulated, EraseEntrySimulated, EraseNameSimulated, CopyEntrySimulated,
           EndCopySimulated, CountSimulated, ReturnSimulated
        DEF Run, Acquire, GetOrAddStep, AddMetricStep, RemoveMetricStep,
            GetMetricsStep
    <2> QED
      BY <2>3, <2>4, <2>5, <2>6 DEF Next
  <1> QED
    BY <1>1, <1>2, <1>3, InitRefines, PTL
    DEF Spec, ImplementsNameTable, Promise!Spec
=============================================================================
