------------------------------ MODULE NameTable ------------------------------
(***************************************************************************)
(* What a metric registry promises to the threads that share it: one table *)
(* from names to metrics.  A call takes effect at one moment between its   *)
(* beginning and its end; a name is bound to one metric of one type until  *)
(* it is removed; a call that throws leaves the table as it was, but for   *)
(* one case: a creation that runs out of memory may leave its name taken   *)
(* by no metric.                                                           *)
(*                                                                         *)
(* Nothing here says how the table is stored or what is locked.            *)
(* MetricRegistry implements this specification (see there for the         *)
(* refinement mapping).                                                    *)
(***************************************************************************)
EXTENDS Naturals, FiniteSets

CONSTANTS Names, Threads, Metrics, ClassOf, Gauges, TotalTypes, None

GaugeType == 0
Types == 0 .. (TotalTypes - 1)
Objects == Metrics \cup Gauges
ObjectsOf(type) == IF type = GaugeType THEN Gauges
                   ELSE {m \in Metrics : ClassOf[m] = type}

VARIABLES
    table,    \* name -> the metric it is bound to, Unbound when free
    phase,    \* per thread: outside a call, in a call, or with its answer
    request,  \* per thread: the call and its arguments
    reply     \* per thread: the answer

vars == <<table, phase, request, reply>>

Binding(type, metric) == [type |-> type, metric |-> metric]
Unbound == Binding(GaugeType, None)
Taken == Binding(TotalTypes, None)   \* of no type: no request matches it
Bound(n) == table[n] # Unbound

EmptyMap == [n \in Names |-> None]
NoRequest == [op |-> "none", type |-> GaugeType, name |-> None, metric |-> None]
NoReply == [status |-> "none", metric |-> None, map |-> EmptyMap, size |-> 0]
Reply(status) == [NoReply EXCEPT !.status = status]
Pointer(m) == [Reply("ok") EXCEPT !.metric = m]

Requests ==
    {[op |-> "getOrAdd", type |-> type, name |-> n, metric |-> None] :
        type \in Types \ {GaugeType}, n \in Names}
    \cup {[op |-> "addGauge", type |-> GaugeType, name |-> n, metric |-> g] :
        n \in Names, g \in Gauges}
    \cup {[op |-> "removeMetric", type |-> GaugeType, name |-> n,
           metric |-> None] : n \in Names}
    \cup {[op |-> "getMetrics", type |-> type, name |-> None,
           metric |-> None] : type \in Types}
    \cup {[op |-> "count", type |-> GaugeType, name |-> None, metric |-> None]}

Init ==
    /\ table = [n \in Names |-> Unbound]
    /\ phase = [t \in Threads |-> "outside"]
    /\ request = [t \in Threads |-> NoRequest]
    /\ reply = [t \in Threads |-> NoReply]

Ask(t) ==
    /\ phase[t] = "outside"
    /\ \E r \in Requests : request' = [request EXCEPT ![t] = r]
    /\ phase' = [phase EXCEPT ![t] = "asked"]
    /\ UNCHANGED <<table, reply>>

\* The moment a call takes effect: the table and the answer change together.
Answer(t, answer) ==
    /\ phase[t] = "asked"
    /\ phase' = [phase EXCEPT ![t] = "answered"]
    /\ reply' = [reply EXCEPT ![t] = answer]
    /\ UNCHANGED request

Bind(n, type, metric) == table' = [table EXCEPT ![n] = Binding(type, metric)]

\* A creation that ran out of memory: before the name was taken, or after.
Abandon(n) == UNCHANGED table \/ (~Bound(n) /\ table' = [table EXCEPT ![n] = Taken])

GetOrAdd(t, type, n) ==
    \/ /\ Bound(n) /\ table[n].type = type
       /\ Answer(t, Pointer(table[n].metric))
       /\ UNCHANGED table
    \/ /\ ~Bound(n)
       /\ \E m \in ObjectsOf(type) \ {table[other].metric : other \in Names} :
             /\ Bind(n, type, m)
             /\ Answer(t, Pointer(m))
    \/ /\ Bound(n) /\ table[n].type # type
       /\ Answer(t, Reply("invalid_argument"))
       /\ UNCHANGED table
    \/ /\ Bound(n) => table[n].type # type
       /\ Answer(t, Reply("bad_alloc"))
       /\ Abandon(n)

AddGauge(t, n, g) ==
    \/ /\ ~Bound(n)
       /\ Bind(n, GaugeType, g)
       /\ Answer(t, Reply("ok"))
    \/ /\ Bound(n)
       /\ Answer(t, Reply("invalid_argument"))
       /\ UNCHANGED table
    \/ /\ ~Bound(n)
       /\ Answer(t, Reply("bad_alloc"))
       /\ Abandon(n)

RemoveMetric(t, n) ==
    \/ /\ Bound(n)
       /\ table' = [table EXCEPT ![n] = Unbound]
       /\ Answer(t, Reply("ok"))
    \/ /\ ~Bound(n)
       /\ Answer(t, Reply("false"))
       /\ UNCHANGED table

\* Every metric of one type, at one moment.
Slice(type) == [n \in Names |->
    IF Bound(n) /\ table[n].type = type THEN table[n].metric ELSE None]

GetMetrics(t, type) ==
    /\ Answer(t, [Reply("ok") EXCEPT !.map = Slice(type)])
    /\ UNCHANGED table

Count(t) ==
    /\ Answer(t, [Reply("ok") EXCEPT !.size =
                      Cardinality({n \in Names : Bound(n)})])
    /\ UNCHANGED table

Serve(t) ==
    LET r == request[t]
    IN \/ r.op = "getOrAdd"     /\ GetOrAdd(t, r.type, r.name)
       \/ r.op = "addGauge"     /\ AddGauge(t, r.name, r.metric)
       \/ r.op = "removeMetric" /\ RemoveMetric(t, r.name)
       \/ r.op = "getMetrics"   /\ GetMetrics(t, r.type)
       \/ r.op = "count"        /\ Count(t)

Leave(t) ==
    /\ phase[t] = "answered"
    /\ phase' = [phase EXCEPT ![t] = "outside"]
    /\ request' = [request EXCEPT ![t] = NoRequest]
    /\ reply' = [reply EXCEPT ![t] = NoReply]
    /\ UNCHANGED table

Next == \E t \in Threads : Ask(t) \/ Serve(t) \/ Leave(t)

Spec == Init /\ [][Next]_vars
=============================================================================
