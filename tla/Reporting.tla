------------------------------ MODULE Reporting ------------------------------
(***************************************************************************)
(* A reporter at work: the life of cppmetrics::core::ScheduledReporter     *)
(* (start, stop, destruction), the reports of its two subclasses,          *)
(* GraphiteReporter and ConsoleReporter, the connection of the former's    *)
(* GraphiteSenderTCP, and the registry all of it reads while the           *)
(* application registers and removes metrics.                              *)
(*                                                                         *)
(* Two threads make reports: the single thread of scheduled_executor_, the *)
(* poller, and the owner of the reporter, who calls report() only while it *)
(* is not started, because two reports at once would share one socket.     *)
(* The parts modelled elsewhere appear as what they promise.  The registry *)
(* is the table of NameTable, whose calls take effect at one moment (those *)
(* that run out of memory are left out: they add nothing to a report).  Of *)
(* ScheduledExecutor it is kept that waits come round in any order with    *)
(* all else, and that a shutdown lets them expire without a call and then  *)
(* joins the thread.                                                       *)
(***************************************************************************)
EXTENDS Naturals, FiniteSets

CONSTANTS
    Names, Metrics, Gauges,      \* what the application registers
    ClassOf, TotalTypes, None,   \* as in NameTable
    MaxStarts                    \* bound: calls of start that have effect

ASSUME ReportingAssumption ==
    /\ TotalTypes \in Nat \ {0} /\ MaxStarts \in Nat \ {0}
    /\ None \notin Metrics \cup Gauges

VARIABLES
    kind,          \* the class of the reporter: it never changes
    running_,      \* of the reporter
    open,          \* running_ of scheduled_executor_
    waits,         \* how many timers wait in the executor
    starts,        \* bound: calls of start that had effect
    pc,            \* per thread: where it is
    section,       \* per thread: which getMetrics of its report is next
    collected,     \* per thread: the entries of the maps its report has
    sent,          \* per thread: those of them that are sent or printed
    io_service_,   \* does the sender have a service,
    socket_,       \* a socket,
    connected_,    \* and a connection
    table,         \* the registry
    stable         \* history, per thread: entries there since the report began

sender == <<io_service_, socket_, connected_>>
lifecycle == <<kind, running_, open, waits, starts>>
maps == <<section, collected, sent>>
vars == <<lifecycle, pc, maps, sender, table, stable>>

Registry == INSTANCE NameTable
    WITH Threads <- {}, phase <- <<>>, request <- <<>>, reply <- <<>>

-----------------------------------------------------------------------------
Reporters == {"owner", "poller"}
Sections == 1 .. TotalTypes
Reporting(t) == pc[t] \in {"collect", "connect", "send", "close"}
Goto(t, step) == pc' = [pc EXCEPT ![t] = step]

Entry(n) == [name |-> n, binding |-> table[n]]
Entries == {Entry(n) : n \in {n \in Names : Registry!Bound(n)}}
NothingFor == [t \in Reporters |-> {}]

Init ==
    /\ kind \in {"graphite", "console"}
    /\ running_ = FALSE /\ open = TRUE
    /\ waits = 0 /\ starts = 0
    /\ pc = [t \in Reporters |-> "idle"]
    /\ section = [t \in Reporters |-> 1]
    /\ collected = NothingFor /\ sent = NothingFor /\ stable = NothingFor
    /\ io_service_ = FALSE /\ socket_ = FALSE /\ connected_ = FALSE
    /\ table = [n \in Names |-> Registry!Unbound]

-----------------------------------------------------------------------------
(* ScheduledReporter::report on thread t *)

Begin(t) ==
    /\ Goto(t, "collect")
    /\ stable' = [stable EXCEPT ![t] = Entries]

\* A report that asks for the gauges first and so never for the last type.
TypeOfSectionSkipsLast(i) == i - 1 - (i \div TotalTypes)

\* Counters, histograms, meters, timers, then gauges: the order of the enum
\* with its first member last.
TypeOfSection(i) == i % TotalTypes

\* One getMetrics: the map of one type, as it is at one moment.
Collect(t) ==
    /\ pc[t] = "collect"
    /\ collected' = [collected EXCEPT ![t] = @ \cup
           {e \in Entries : e.binding.type = TypeOfSection(section[t])}]
    /\ section' = [section EXCEPT ![t] = (@ % TotalTypes) + 1]
    /\ IF section[t] < TotalTypes THEN UNCHANGED pc
       ELSE Goto(t, IF kind = "graphite" THEN "connect" ELSE "send")
    /\ UNCHANGED <<lifecycle, sent, sender, table, stable>>

\* Back from report: the maps die, the poller's handler arms its timer again.
Return(t) ==
    /\ Goto(t, "idle")
    /\ collected' = [collected EXCEPT ![t] = {}]
    /\ sent' = [sent EXCEPT ![t] = {}]
    /\ stable' = [stable EXCEPT ![t] = {}]
    /\ waits' = IF t = "poller" THEN waits + 1 ELSE waits
    /\ UNCHANGED <<kind, running_, open, starts, section>>

-----------------------------------------------------------------------------
(* GraphiteReporter::report *)

\* Any exception but an interruption: the report goes to the handler, which
\* closes the sender.
Fail(t) == Goto(t, "close")

Connect(t) ==
    /\ pc[t] = "connect"
    /\ io_service_' = TRUE
    /\ \/ Fail(t) /\ UNCHANGED <<socket_, connected_>>         \* no such host
       \/ Fail(t) /\ socket_' = TRUE /\ connected_' = FALSE    \* no connection
       \/ Goto(t, "send") /\ socket_' = TRUE /\ connected_' = TRUE
    /\ UNCHANGED <<lifecycle, maps, table, stable>>

\* The lines of one metric after the other; reading a gauge may throw, and so
\* may a write.
Send(t) ==
    /\ pc[t] = "send" /\ kind = "graphite"
    /\ \/ Fail(t) /\ UNCHANGED sent
       \/ \E e \in collected[t] \ sent[t] :
             /\ connected_
             /\ sent' = [sent EXCEPT ![t] = @ \cup {e}]
             /\ UNCHANGED pc
       \/ collected[t] = sent[t] /\ Goto(t, "close") /\ UNCHANGED sent
    /\ UNCHANGED <<lifecycle, section, collected, sender, table, stable>>

\* A sender that is closed when all went well only.
CloseAfterSuccess(t) ==
    /\ pc[t] = "close"
    /\ Return(t)
    /\ IF collected[t] = sent[t]
       THEN io_service_' = FALSE /\ socket_' = FALSE /\ connected_' = FALSE
       ELSE UNCHANGED sender
    /\ UNCHANGED table

\* An exception that leaves report and ends the poller.
CloseOrEnd(t) ==
    /\ pc[t] = "close"
    /\ IF t = "owner" \/ connected_ THEN Return(t)
       ELSE Goto(t, "ended") /\ UNCHANGED <<lifecycle, maps, stable>>
    /\ io_service_' = FALSE /\ socket_' = FALSE /\ connected_' = FALSE
    /\ UNCHANGED table

Close(t) ==
    /\ pc[t] = "close"
    /\ Return(t)
    /\ io_service_' = FALSE /\ socket_' = FALSE /\ connected_' = FALSE
    /\ UNCHANGED table

-----------------------------------------------------------------------------
(* ConsoleReporter::report *)

\* The gauges first, then as collected: any order does.  Gauges that throw
\* end the process, since nothing catches what they throw: they are left out.
PrintEntry(t) ==
    /\ pc[t] = "send" /\ kind = "console"
    /\ \/ \E e \in collected[t] \ sent[t] :
             /\ sent' = [sent EXCEPT ![t] = @ \cup {e}]
             /\ UNCHANGED <<lifecycle, pc, section, collected, stable>>
       \/ collected[t] = sent[t] /\ Return(t)
    /\ UNCHANGED <<sender, table>>

ReportStep(t) ==
    Collect(t) \/ Connect(t) \/ Send(t) \/ Close(t) \/ PrintEntry(t)

-----------------------------------------------------------------------------
(* The poller *)

\* A wait has come round and the executor runs: a report.
PollerReports ==
    /\ pc["poller"] = "idle" /\ waits > 0
    /\ open
    /\ waits' = waits - 1
    /\ Begin("poller")
    /\ UNCHANGED <<kind, running_, open, starts, maps, sender, table>>

\* A handler that arms its timer again without a report.
PollerDropsAndRearms ==
    /\ pc["poller"] = "idle" /\ waits > 0
    /\ ~open
    /\ UNCHANGED vars

\* A wait has come round after the shutdown: nothing, and no further wait.
PollerDrops ==
    /\ pc["poller"] = "idle" /\ waits > 0
    /\ ~open
    /\ waits' = waits - 1
    /\ UNCHANGED <<kind, running_, open, starts, pc, maps, sender, table,
                   stable>>

\* io_service::run returns when there is no work and no wait left.
PollerEnds ==
    /\ pc["poller"] = "idle" /\ waits = 0
    /\ ~open
    /\ Goto("poller", "ended")
    /\ UNCHANGED <<lifecycle, maps, sender, table, stable>>

PollerStep ==
    PollerReports \/ PollerDrops \/ PollerEnds \/ ReportStep("poller")

-----------------------------------------------------------------------------
(* The owner *)

\* Started again while it is running, it does nothing.
Start ==
    /\ pc["owner"] = "idle" /\ starts < MaxStarts
    /\ ~running_
    /\ running_' = TRUE
    /\ waits' = waits + 1
    /\ starts' = starts + 1
    /\ UNCHANGED <<kind, open, pc, maps, sender, table, stable>>

\* A stop that does not wait.
StopAtOnce ==
    /\ pc["owner"] = "idle" /\ running_
    /\ running_' = FALSE
    /\ open' = FALSE
    /\ UNCHANGED <<kind, waits, starts, pc, maps, sender, table, stable>>

\* The executor's shutdown returns at once when it is shut down already.
Stop ==
    /\ pc["owner"] = "idle" /\ running_
    /\ running_' = FALSE
    /\ open' = FALSE
    /\ Goto("owner", IF open THEN "join" ELSE "idle")
    /\ UNCHANGED <<kind, waits, starts, maps, sender, table, stable>>

Join ==
    /\ pc["owner"] = "join" /\ pc["poller"] = "ended"
    /\ Goto("owner", "idle")
    /\ UNCHANGED <<lifecycle, maps, sender, table, stable>>

\* ScheduledReporter::report called by the owner.
OwnerReports ==
    /\ pc["owner"] = "idle" /\ ~running_
    /\ Begin("owner")
    /\ UNCHANGED <<lifecycle, maps, sender, table>>

\* A reporter that is not running is destroyed: nothing to stop, and the
\* executor's destructor ends the poller unless a stop has done so before.
Destroy ==
    /\ pc["owner"] = "idle" /\ ~running_
    /\ open' = FALSE
    /\ Goto("owner", "destroy")
    /\ UNCHANGED <<kind, running_, waits, starts, maps, sender, table, stable>>

Destroyed ==
    /\ pc["owner"] = "destroy" /\ pc["poller"] = "ended"
    /\ Goto("owner", "gone")
    /\ UNCHANGED <<lifecycle, maps, sender, table, stable>>

-----------------------------------------------------------------------------
(* The application *)

Register ==
    /\ \E n \in Names, type \in Registry!Types :
          \E m \in Registry!ObjectsOf(type) :
             /\ ~Registry!Bound(n)
             /\ \A other \in Names : table[other].metric # m
             /\ Registry!Bind(n, type, m)
    /\ UNCHANGED <<lifecycle, pc, maps, sender, stable>>

Remove ==
    /\ \E n \in Names :
          /\ Registry!Bound(n)
          /\ table' = [table EXCEPT ![n] = Registry!Unbound]
          /\ stable' = [t \in Reporters |-> stable[t] \ {Entry(n)}]
    /\ UNCHANGED <<lifecycle, pc, maps, sender>>

Next ==
    \/ PollerStep
    \/ Start \/ Stop \/ Join \/ OwnerReports \/ Destroy \/ Destroyed
    \/ ReportStep("owner")
    \/ Register \/ Remove

Spec == Init /\ [][Next]_vars

\* Waits expire, and a call that can go on does.
FairSpec == Spec /\ WF_vars(PollerStep) /\ WF_vars(Join) /\ WF_vars(Destroyed)

-----------------------------------------------------------------------------
\* Between reports the sender has no connection, no socket and no service,
\* whatever failed before: the next connect destroys no service that a socket
\* still uses, and nothing stays open when the reporter is gone.
ConnectionEndsWithReport ==
    (\A t \in Reporters : pc[t] \notin {"send", "close"}) =>
        ~io_service_ /\ ~socket_ /\ ~connected_

\* One socket, one report: the owner's own reports and the poller's never
\* meet, because stop returns after the last of the poller's; and no report
\* is under way in a reporter that is gone.
OneReportAtATime ==
    Reporting("poller") => ~Reporting("owner") /\ pc["owner"] # "gone"

\* A metric that is registered when report() begins and is not removed before
\* the five maps are there is in the report, whatever else comes and goes.
ReportCoversStable ==
    \A t \in Reporters :
        Reporting(t) /\ pc[t] # "collect" => stable[t] \subseteq collected[t]

\* stop returns, and so does the destruction of the reporter.
StopReturns == pc["owner"] \in {"join", "destroy"} ~>
                   pc["owner"] \in {"idle", "gone"}

\* A started reporter reports again and again, whatever went wrong with its
\* connection: "Starts a background thread which polls and published the
\* metrics from the registry periodically" (scheduled_reporter.h:54).
StartedReports == running_ ~> (~running_ \/ pc["poller"] = "collect")
=============================================================================
