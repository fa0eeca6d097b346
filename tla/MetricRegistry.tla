--------------------------- MODULE MetricRegistry ---------------------------
(***************************************************************************)
(* cppmetrics::core::MetricRegistry: one hash map per metric type and one  *)
(* set of all the names, both behind one boost::shared_mutex.  Any number  *)
(* of application threads create, look up and remove metrics while a       *)
(* reporter thread copies the maps.                                        *)
(*                                                                         *)
(* A call is broken at every access to the shared containers and at every  *)
(* allocation that may throw, so what the lock protects, and what a failed *)
(* allocation leaves behind, is visible.                                   *)
(***************************************************************************)
EXTENDS Naturals, FiniteSets

CONSTANTS
    Names,        \* metric names
    Threads,      \* threads that call the registry
    Metrics,      \* the objects make_shared can return
    ClassOf,      \* the class of each of them, named by its MetricType
    Gauges,       \* the gauge objects applications own and pass in
    TotalTypes,   \* number of MetricType values (5 in the source)
    AllocFails,   \* which allocations may throw std::bad_alloc
    None          \* a null pointer, an absent map entry, nobody

AllocPoints == {"metric", "name", "entry"}

ASSUME RegistryAssumption ==
    /\ IsFiniteSet(Names)
    /\ TotalTypes \in Nat \ {0}
    /\ ClassOf \in [Metrics -> 1 .. (TotalTypes - 1)]
    /\ AllocFails \subseteq AllocPoints
    /\ None \notin Names \cup Threads \cup Metrics \cup Gauges
    /\ Metrics \cap Gauges = {}

VARIABLES
    metric_names_,  \* every name in use
    metric_set_,    \* per type: name -> metric, None when absent
    writer,         \* metrics_mutex_: who owns it exclusively
    readers,        \* metrics_mutex_: who owns it shared
    pc,             \* per thread: the next step of its call
    call,           \* per thread: the arguments and locals of its call
    todo,           \* per thread: names the copying loop has yet to visit
    ret,            \* per thread: what the call returns or throws
    held,           \* per thread: the shared_ptr its last getOrAdd returned
    current,        \* history, per thread: held was not removed since
    orphaned        \* history: names whose map entry could not be inserted

regVars == <<metric_names_, metric_set_, orphaned, writer, readers>>
thrVars == <<pc, call, todo, ret, held, current>>
vars == <<regVars, thrVars>>

-----------------------------------------------------------------------------
GaugeType == 0
Types == 0 .. (TotalTypes - 1)
Objects == Metrics \cup Gauges
Maps == [Names -> Objects \cup {None}]
KindOf(type) == IF type = GaugeType THEN Gauges ELSE Metrics

\* The objects of the class that belongs to a type.
ObjectsOf(type) == IF type = GaugeType THEN Gauges
                   ELSE {m \in Metrics : ClassOf[m] = type}
EmptyMap == [n \in Names |-> None]

UniqueOps == {"getOrAdd", "addGauge", "removeMetric"}
SharedOps == {"getMetrics", "count"}
Calls == [op : UniqueOps \cup SharedOps \cup {"none"}, type : Types,
          name : Names \cup {None}, metric : Objects \cup {None}]
NoCall == [op |-> "none", type |-> GaugeType, name |-> None, metric |-> None]

Steps == {"idle", "lock", "find", "build", "addName", "insert",
          "eraseEntry", "eraseName", "copy", "size", "unlock"}
Statuses == {"none", "ok", "false", "invalid_argument", "bad_alloc"}
Results == [status : Statuses, metric : Objects \cup {None},
            map : Maps, size : Nat]
NoResult == [status |-> "none", metric |-> None, map |-> EmptyMap, size |-> 0]
Result(status) == [NoResult EXCEPT !.status = status]

Handles == [type : Types, name : Names \cup {None},
            metric : Metrics \cup {None}]
NoHandle == [type |-> GaugeType, name |-> None, metric |-> None]

-----------------------------------------------------------------------------
(* The steps of one call. *)

Goto(t, step) == pc' = [pc EXCEPT ![t] = step]

\* The call is over but for the lock: its result is known.
Finish(t, result) ==
    /\ Goto(t, "unlock")
    /\ ret' = [ret EXCEPT ![t] = result]

\* A thread enters a member function.  The handle a getOrAdd will replace is
\* dropped first, so that the objects in use stay within Metrics.
Call(t, op, type, name, metric) ==
    /\ pc[t] = "idle"
    /\ Goto(t, "lock")
    /\ call' = [call EXCEPT ![t] = [op |-> op, type |-> type,
                                    name |-> name, metric |-> metric]]
    /\ held' = [held EXCEPT ![t] = IF op = "getOrAdd" THEN NoHandle ELSE @]
    /\ current' = [current EXCEPT ![t] = @ /\ op # "getOrAdd"]
    /\ UNCHANGED <<regVars, todo, ret>>

CallGetOrAdd(t) ==
    \E type \in Types \ {GaugeType}, n \in Names :
        Call(t, "getOrAdd", type, n, None)
CallAddGauge(t) ==
    \E n \in Names, g \in Gauges : Call(t, "addGauge", GaugeType, n, g)
CallRemoveMetric(t) ==
    \E n \in Names : Call(t, "removeMetric", GaugeType, n, None)
CallGetMetrics(t) ==
    \E type \in Types : Call(t, "getMetrics", type, None, None)
CallCount(t) == Call(t, "count", GaugeType, None, None)

\* boost::shared_mutex, as the two lock guards use it.
UniqueLockIsFree == writer = None /\ readers = {}
SharedLockIsFree == writer = None

FirstUniqueStep(op) ==
    CASE op = "getOrAdd"     -> "find"
      [] op = "addGauge"     -> "addName"
      [] op = "removeMetric" -> "eraseEntry"

\* What the writers would do with the shared lock of the readers.
AcquireUniqueAsShared(t) ==
    /\ pc[t] = "lock" /\ call[t].op \in UniqueOps
    /\ SharedLockIsFree
    /\ readers' = readers \cup {t}
    /\ Goto(t, FirstUniqueStep(call[t].op))
    /\ UNCHANGED <<metric_names_, metric_set_, orphaned, writer,
                   call, todo, ret, held, current>>

AcquireUnique(t) ==
    /\ pc[t] = "lock" /\ call[t].op \in UniqueOps
    /\ UniqueLockIsFree
    /\ writer' = t
    /\ Goto(t, FirstUniqueStep(call[t].op))
    /\ UNCHANGED <<metric_names_, metric_set_, orphaned, readers,
                   call, todo, ret, held, current>>

\* What the copying loop would do without the shared lock.
AcquireNothing(t) ==
    /\ pc[t] = "lock" /\ call[t].op \in SharedOps
    /\ Goto(t, IF call[t].op = "count" THEN "size" ELSE "copy")
    /\ todo' = [todo EXCEPT ![t] = IF call[t].op = "count" THEN {} ELSE Names]
    /\ ret' = [ret EXCEPT ![t] = NoResult]
    /\ UNCHANGED <<regVars, call, held, current>>

AcquireShared(t) ==
    /\ pc[t] = "lock" /\ call[t].op \in SharedOps
    /\ SharedLockIsFree
    /\ readers' = readers \cup {t}
    /\ Goto(t, IF call[t].op = "count" THEN "size" ELSE "copy")
    /\ todo' = [todo EXCEPT ![t] = IF call[t].op = "count" THEN {} ELSE Names]
    /\ ret' = [ret EXCEPT ![t] = NoResult]
    /\ UNCHANGED <<metric_names_, metric_set_, orphaned, writer,
                   call, held, current>>

\* A lookup through all the maps instead of the one of the requested type.
FindAnyType(t) ==
    LET found == {metric_set_[type][call[t].name] : type \in Types} \ {None}
    IN /\ pc[t] = "find"
       /\ \/ \E m \in found :
                /\ Finish(t, [Result("ok") EXCEPT !.metric = m])
                /\ current' = [current EXCEPT ![t] = TRUE]
          \/ /\ found = {}
             /\ Goto(t, "build")
             /\ UNCHANGED <<ret, current>>
       /\ UNCHANGED <<regVars, call, todo, held>>

\* getOrAdd looks the name up among the metrics of the requested type only.
Find(t) ==
    LET found == metric_set_[call[t].type][call[t].name]
    IN /\ pc[t] = "find"
       /\ \/ /\ found # None
             /\ Finish(t, [Result("ok") EXCEPT !.metric = found])
             /\ current' = [current EXCEPT ![t] = TRUE]
          \/ /\ found = None
             /\ Goto(t, "build")
             /\ UNCHANGED <<ret, current>>
       /\ UNCHANGED <<regVars, call, todo, held>>

\* Objects some map, call, result or application still points to.
InUse ==
    {metric_set_[type][n] : type \in Types, n \in Names}
    \cup {ret[t].map[n] : t \in Threads, n \in Names}
    \cup UNION {{call[t].metric, ret[t].metric, held[t].metric} : t \in Threads}

Throws(t, where) ==
    /\ where \in AllocFails
    /\ Finish(t, Result("bad_alloc"))
    /\ UNCHANGED <<regVars, call, todo, held, current>>

\* A switch that makes the object of another case.
BuildOtherClass(t) ==
    /\ pc[t] = "build"
    /\ \E m \in Metrics \ (InUse \cup ObjectsOf(call[t].type)) :
          /\ call' = [call EXCEPT ![t].metric = m]
          /\ Goto(t, "addName")
          /\ UNCHANGED <<regVars, todo, ret, held, current>>

\* getOrAdd never asks for a gauge, the type buildMetric has no case for.
BuildMetric(t) ==
    /\ pc[t] = "build"
    /\ \/ \E m \in ObjectsOf(call[t].type) \ InUse :
             /\ call' = [call EXCEPT ![t].metric = m]
             /\ Goto(t, "addName")
             /\ UNCHANGED <<regVars, todo, ret, held, current>>
       \/ Throws(t, "metric")

\* addMetric: a name is used once, whatever the type.
AddName(t) ==
    /\ pc[t] = "addName"
    /\ \/ /\ call[t].name \notin metric_names_
          /\ metric_names_' = metric_names_ \cup {call[t].name}
          /\ Goto(t, "insert")
          /\ UNCHANGED <<metric_set_, orphaned, writer, readers,
                         call, todo, ret, held, current>>
       \/ /\ call[t].name \in metric_names_
          /\ Finish(t, Result("invalid_argument"))
          /\ UNCHANGED <<regVars, call, todo, held, current>>
       \/ /\ call[t].name \notin metric_names_
          /\ Throws(t, "name")

\* An addMetric whose caller returns the new metric without inserting it.
InsertNothing(t) ==
    /\ pc[t] = "insert"
    /\ Finish(t, [Result("ok") EXCEPT !.metric = call[t].metric])
    /\ current' = [current EXCEPT ![t] = call[t].op = "getOrAdd"]
    /\ UNCHANGED <<regVars, call, todo, held>>

\* The map's insert throws after the name entered the set: nothing takes the
\* name out again.
InsertThrows(t) ==
    /\ "entry" \in AllocFails
    /\ Finish(t, Result("bad_alloc"))
    /\ orphaned' = orphaned \cup {call[t].name}
    /\ UNCHANGED <<metric_names_, metric_set_, writer, readers,
                   call, todo, held, current>>

\* ... and the metric enters the map of its type.
InsertMetric(t) ==
    /\ pc[t] = "insert"
    /\ \/ /\ metric_set_' = [metric_set_ EXCEPT
                 ![call[t].type][call[t].name] = call[t].metric]
          /\ Finish(t, IF call[t].op = "getOrAdd"
                       THEN [Result("ok") EXCEPT !.metric = call[t].metric]
                       ELSE Result("ok"))
          /\ current' = [current EXCEPT ![t] = @ \/ call[t].op = "getOrAdd"]
          /\ UNCHANGED <<metric_names_, orphaned, writer, readers,
                         call, todo, held>>
       \/ InsertThrows(t)

\* The handles that stop being current when name n leaves the registry: those
\* already returned, and the one a finished getOrAdd is about to return.
Returning(t) == pc[t] = "unlock" /\ call[t].op = "getOrAdd"
HandleName(t) == IF Returning(t) THEN call[t].name ELSE held[t].name
Expire(n) == [t \in Threads |-> current[t] /\ HandleName(t) # n]

TypesHolding(n) == {type \in Types : metric_set_[type][n] # None}

\* removeMetric, first half: the first map that has the name loses it.
EraseEntry(t) ==
    LET n == call[t].name
    IN /\ pc[t] = "eraseEntry"
       /\ \/ /\ n \notin metric_names_
             /\ Finish(t, Result("false"))
             /\ UNCHANGED <<metric_set_, orphaned, current>>
          \/ /\ n \in metric_names_
             /\ \/ \E type \in TypesHolding(n) :
                      /\ \A other \in TypesHolding(n) : type <= other
                      /\ metric_set_' = [metric_set_ EXCEPT ![type][n] = None]
                \/ /\ TypesHolding(n) = {}
                   /\ UNCHANGED metric_set_
             /\ orphaned' = orphaned \ {n}
             /\ current' = Expire(n)
             /\ Goto(t, "eraseName")
             /\ UNCHANGED ret
       /\ UNCHANGED <<metric_names_, writer, readers, call, todo, held>>

\* A removeMetric that leaves the name behind.
EraseNoName(t) ==
    /\ pc[t] = "eraseName"
    /\ Finish(t, Result("ok"))
    /\ UNCHANGED <<regVars, call, todo, held, current>>

\* removeMetric, second half: the name can be used again, for any type.
EraseName(t) ==
    /\ pc[t] = "eraseName"
    /\ metric_names_' = metric_names_ \ {call[t].name}
    /\ Finish(t, Result("ok"))
    /\ UNCHANGED <<metric_set_, orphaned, writer, readers,
                   call, todo, held, current>>

\* getMetrics: one iteration of the copying loop, in hash order ...
CopyEntry(t) ==
    /\ pc[t] = "copy"
    /\ \E n \in todo[t] :
          /\ ret' = [ret EXCEPT ![t].map[n] = metric_set_[call[t].type][n]]
          /\ todo' = [todo EXCEPT ![t] = @ \ {n}]
    /\ UNCHANGED <<regVars, pc, call, held, current>>

\* ... and its end.
EndCopy(t) ==
    /\ pc[t] = "copy" /\ todo[t] = {}
    /\ Finish(t, [ret[t] EXCEPT !.status = "ok"])
    /\ UNCHANGED <<regVars, call, todo, held, current>>

Count(t) ==
    /\ pc[t] = "size"
    /\ Finish(t, [Result("ok") EXCEPT !.size = Cardinality(metric_names_)])
    /\ UNCHANGED <<regVars, call, todo, held, current>>

\* The lock guard is destroyed and the call returns (or throws).
Return(t) ==
    LET got == call[t].op = "getOrAdd" /\ ret[t].status = "ok"
    IN /\ pc[t] = "unlock"
       /\ Goto(t, "idle")
       /\ writer' = IF writer = t THEN None ELSE writer
       /\ readers' = readers \ {t}
       /\ held' = [held EXCEPT ![t] =
              IF got THEN [type |-> call[t].type, name |-> call[t].name,
                           metric |-> ret[t].metric]
                     ELSE @]
       /\ call' = [call EXCEPT ![t] = NoCall]
       /\ ret' = [ret EXCEPT ![t] = NoResult]
       /\ UNCHANGED <<metric_names_, metric_set_, orphaned, todo, current>>

-----------------------------------------------------------------------------
Init ==
    /\ metric_names_ = {}
    /\ metric_set_ = [type \in Types |-> EmptyMap]
    /\ writer = None
    /\ readers = {}
    /\ pc = [t \in Threads |-> "idle"]
    /\ call = [t \in Threads |-> NoCall]
    /\ todo = [t \in Threads |-> {}]
    /\ ret = [t \in Threads |-> NoResult]
    /\ held = [t \in Threads |-> NoHandle]
    /\ current = [t \in Threads |-> FALSE]
    /\ orphaned = {}

Acquire(t) == AcquireUnique(t) \/ AcquireShared(t)
GetOrAddStep(t) == Find(t) \/ BuildMetric(t)
AddMetricStep(t) == AddName(t) \/ InsertMetric(t)
RemoveMetricStep(t) == EraseEntry(t) \/ EraseName(t)
GetMetricsStep(t) == CopyEntry(t) \/ EndCopy(t)

\* One step of a call that has begun.
Run(t) ==
    \/ Acquire(t)
    \/ GetOrAddStep(t)
    \/ AddMetricStep(t)
    \/ RemoveMetricStep(t)
    \/ GetMetricsStep(t)
    \/ Count(t)
    \/ Return(t)

\* An application thread begins a call that may change the registry.
ClientCall(t) ==
    \/ CallGetOrAdd(t)
    \/ CallAddGauge(t)
    \/ CallRemoveMetric(t)

Next ==
    \E t \in Threads :
        \/ ClientCall(t)
        \/ CallGetMetrics(t)
        \/ CallCount(t)
        \/ Run(t)

Spec == Init /\ [][Next]_vars

-----------------------------------------------------------------------------
(* What must hold. *)

\* The containers and locals keep their types: gauges only in the gauge map,
\* and only objects the registry made in the others and in handles.
TypeOK ==
    /\ metric_names_ \subseteq Names
    /\ metric_set_ \in [Types -> Maps]
    /\ \A type \in Types, n \in Names :
          metric_set_[type][n] \in KindOf(type) \cup {None}
    /\ writer \in Threads \cup {None}
    /\ readers \subseteq Threads
    /\ pc \in [Threads -> Steps]
    /\ call \in [Threads -> Calls]
    /\ todo \in [Threads -> SUBSET Names]
    /\ ret \in [Threads -> Results]
    /\ held \in [Threads -> Handles]
    /\ current \in [Threads -> BOOLEAN]
    /\ orphaned \subseteq Names

\* What each static_pointer_cast relies on, whatever was created, removed and
\* created again as another type: the objects in the map of a type are of the
\* class of that type, and so are the pointer getOrAdd returns, the one its
\* caller keeps, and all that getMetrics copies.
CastsAreSafe ==
    /\ \A type \in Types, n \in Names :
          metric_set_[type][n] \in ObjectsOf(type) \cup {None}
    /\ \A t \in Threads :
          /\ held[t].metric \in ObjectsOf(held[t].type) \cup {None}
          /\ pc[t] = "unlock" =>
                ret[t].metric \in ObjectsOf(call[t].type) \cup {None}
          /\ pc[t] \in {"copy", "unlock"} => \A n \in Names :
                ret[t].map[n] \in ObjectsOf(call[t].type) \cup {None}

InCall(t) == pc[t] \notin {"idle", "lock"}

\* The containers are touched under the right lock: a thread inside an
\* exclusive call is the only owner of metrics_mutex_, a thread inside a
\* shared call owns it shared, and the two kinds exclude each other.
LockDiscipline ==
    /\ \A t \in Threads :
          /\ writer = t <=> InCall(t) /\ call[t].op \in UniqueOps
          /\ t \in readers <=> InCall(t) /\ call[t].op \in SharedOps
    /\ writer # None => readers = {}

\* metric_names_ and the five maps are two records of the same fact.  A name
\* is in exactly one map when it is in the set and in none when it is not,
\* except to the thread in the middle of addMetric or removeMetric, and for
\* the names whose map entry could not be inserted: those, and no others, are
\* in the set and in no map until they are removed.
InTransit(n) ==
    \E t \in Threads : pc[t] \in {"insert", "eraseName"} /\ call[t].name = n
NamesMatchSets ==
    /\ \A n \in Names : ~InTransit(n) =>
          (n \in metric_names_ <=> TypesHolding(n) # {} \/ n \in orphaned)
    /\ \A n \in orphaned : TypesHolding(n) = {}
    /\ \A n \in Names, t1, t2 \in Types :
          t1 \in TypesHolding(n) /\ t2 \in TypesHolding(n) => t1 = t2

\* count() promises "the total number of metrics in the registry"
\* (metric_registry.h): a name that no map holds is not one.
CountIsOfMetrics ==
    \A t \in Threads : pc[t] = "unlock" /\ call[t].op = "count" =>
        ret[t].size = Cardinality({n \in Names : TypesHolding(n) # {}})

\* Whoever obtained a metric and did not see its name removed since updates
\* the object reports read; so two such threads update the same object.
CurrentHandleIsRegistered ==
    \A t \in Threads : current[t] =>
        IF Returning(t)
        THEN metric_set_[call[t].type][call[t].name] = ret[t].metric
        ELSE metric_set_[held[t].type][held[t].name] = held[t].metric

\* A copy of a map is the map at one moment of the call: no entry appears,
\* disappears or changes between the first and the last iteration.
CopyIsASnapshot ==
    \A t \in Threads :
        pc[t] = "copy" =>
            \A n \in Names \ todo[t] :
                ret[t].map[n] = metric_set_[call[t].type][n]

-----------------------------------------------------------------------------
(* The registry as the table it implements.  A name is bound when it is both *)
(* in the set and in a map: the binding appears when addMetric fills the map *)
(* and disappears when removeMetric empties it, and there the answer of the  *)
(* call is settled as well.  An orphaned name is taken, by no type.          *)

TableOf(n) ==
    IF TypesHolding(n) = {}
    THEN [type |-> IF n \in orphaned THEN TotalTypes ELSE GaugeType,
          metric |-> None]
    ELSE LET type == CHOOSE type \in TypesHolding(n) : TRUE
         IN [type |-> type, metric |-> metric_set_[type][n]]

Settled(t) == pc[t] \in {"unlock", "eraseName"}

PhaseOf(t) == CASE pc[t] = "idle" -> "outside"
                [] Settled(t)     -> "answered"
                [] OTHER          -> "asked"

RequestOf(t) == IF call[t].op = "getOrAdd"
                THEN [call[t] EXCEPT !.metric = None] ELSE call[t]

ReplyOf(t) == CASE pc[t] = "unlock"    -> ret[t]
                [] pc[t] = "eraseName" -> Result("ok")
                [] OTHER               -> NoResult

Promise == INSTANCE NameTable WITH
    table   <- [n \in Names |-> TableOf(n)],
    phase   <- [t \in Threads |-> PhaseOf(t)],
    request <- [t \in Threads |-> RequestOf(t)],
    reply   <- [t \in Threads |-> ReplyOf(t)]

\* Every call to the registry takes effect at once, as NameTable says: the
\* steps another thread could see half done are hidden by the lock, and an
\* answer never reports a table that did not exist during the call.
ImplementsNameTable == Promise!Spec
=============================================================================
