--------------------------- MODULE ReportingProofs ---------------------------
(***************************************************************************)
(* Proofs about Reporting for any names, metrics and gauges, any number of *)
(* metric types and of starts: reports never meet, leave no connection     *)
(* behind, and hold every metric that stayed.                              *)
(***************************************************************************)
EXTENDS Reporting, TLAPS

ReportSteps == {"collect", "connect", "send", "close"}
PcSteps == ReportSteps \cup {"idle", "join", "destroy", "gone", "ended"}
Bindings == [type : Registry!Types, metric : Metrics \cup Gauges \cup {None}]
AllEntries == [name : Names, binding : Bindings]

TypeInv ==
    /\ kind \in {"graphite", "console"}
    /\ running_ \in BOOLEAN /\ open \in BOOLEAN
    /\ waits \in Nat /\ starts \in Nat
    /\ pc \in [Reporters -> PcSteps]
    /\ section \in [Reporters -> Sections]
    /\ collected \in [Reporters -> SUBSET AllEntries]
    /\ sent \in [Reporters -> SUBSET AllEntries]
    /\ stable \in [Reporters -> SUBSET AllEntries]
    /\ io_service_ \in BOOLEAN /\ socket_ \in BOOLEAN /\ connected_ \in BOOLEAN
    /\ table \in [Names -> Bindings]

(* Who may be where: stop and the destructor shut the executor down before  *)
(* they wait for the poller, and only a reporter that is not running lets   *)
(* its owner report.                                                        *)
PollerIsAtRest ==
    /\ pc["owner"] \in {"join", "destroy", "gone"} => ~open
    /\ Reporting("owner") => ~running_
    /\ open /\ ~running_ => waits = 0 /\ pc["poller"] = "idle"
    /\ ~open /\ pc["owner"] \notin {"join", "destroy"} => pc["poller"] = "ended"
    /\ pc["owner"] # "ended"

(* A console report goes from its maps to its lines, without a connection.  *)
ConsoleConnectsNothing ==
    kind = "console" =>
        /\ ~io_service_ /\ ~socket_ /\ ~connected_
        /\ \A t \in Reporters : pc[t] # "connect"

(* What a report has collected after the sections it has been through.      *)
CoveredBy(t) ==
    /\ stable[t] \subseteq Entries
    /\ pc[t] # "collect" => section[t] = 1
    /\ pc[t] = "collect" =>
          \A e \in stable[t], i \in 1 .. section[t] - 1 :
              e.binding.type = TypeOfSection(i) => e \in collected[t]
    /\ Reporting(t) /\ pc[t] # "collect" => stable[t] \subseteq collected[t]

StableIsCollected == \A t \in Reporters : CoveredBy(t)

ReportingInv ==
    /\ TypeInv
    /\ PollerIsAtRest
    /\ ConsoleConnectsNothing
    /\ ConnectionEndsWithReport
    /\ StableIsCollected

-----------------------------------------------------------------------------
(* The sections of a report go through all types.                           *)
LEMMA SectionsCoverTypes ==
    /\ \A i \in Sections :
          /\ TypeOfSection(i) \in Registry!Types
          /\ i < TotalTypes => (i % TotalTypes) + 1 = i + 1
          /\ i = TotalTypes => (i % TotalTypes) + 1 = 1
    /\ \A type \in Registry!Types : \E i \in Sections : TypeOfSection(i) = type
  <1> USE ReportingAssumption
  <1>1. \A i \in 1 .. TotalTypes - 1 : i % TotalTypes = i
    OBVIOUS
  <1>2. TotalTypes % TotalTypes = 0
    OBVIOUS
  <1>3. ASSUME NEW i \in Sections
        PROVE  /\ TypeOfSection(i) \in Registry!Types
               /\ i < TotalTypes => (i % TotalTypes) + 1 = i + 1
               /\ i = TotalTypes => (i % TotalTypes) + 1 = 1
    BY <1>1, <1>2 DEF Sections, TypeOfSection, Registry!Types
  <1>4. ASSUME NEW type \in Registry!Types
        PROVE  \E i \in Sections : TypeOfSection(i) = type
    <2>1. CASE type = 0
      BY <1>2, <2>1 DEF Sections, TypeOfSection
    <2>2. CASE type # 0
      BY <1>1, <2>2 DEF Sections, TypeOfSection, Registry!Types
    <2> QED
      BY <2>1, <2>2
  <1> QED
    BY <1>3, <1>4

LEMMA EntriesAreEntries ==
    ASSUME TypeInv
    PROVE  Entries \subseteq AllEntries
  BY DEF TypeInv, Entries, Entry, AllEntries

LEMMA UnboundIsABinding == Registry!Unbound \in Bindings
  BY ReportingAssumption
  DEF Bindings, Registry!Unbound, Registry!Binding, Registry!Types,
      Registry!GaugeType

LEMMA BindingTypes ==
    ASSUME NEW type \in Registry!Types, NEW m \in Registry!ObjectsOf(type)
    PROVE  /\ Registry!Binding(type, m) \in Bindings
           /\ Registry!Binding(type, m) # Registry!Unbound
  <1>1. m \in Metrics \cup Gauges
    BY DEF Registry!ObjectsOf
  <1> QED
    BY <1>1, ReportingAssumption
    DEF Bindings, Registry!Binding, Registry!Unbound

LEMMA ReportingInit == Init => ReportingInv
  <1> SUFFICES ASSUME Init PROVE ReportingInv
    OBVIOUS
  <1>1. TypeInv
    <2>1. 1 \in Sections
      BY ReportingAssumption DEF Sections
    <2>2. table \in [Names -> Bindings]
      BY UnboundIsABinding DEF Init
    <2> QED
      BY <2>1, <2>2 DEF Init, TypeInv, PcSteps, NothingFor
  <1>2. PollerIsAtRest
    BY DEF Init, PollerIsAtRest, Reporting, Reporters
  <1>3. ConsoleConnectsNothing /\ ConnectionEndsWithReport
    BY DEF Init, ConsoleConnectsNothing, ConnectionEndsWithReport
  <1>4. StableIsCollected
    BY DEF Init, StableIsCollected, CoveredBy, NothingFor, Reporting
  <1> QED
    BY <1>1, <1>2, <1>3, <1>4 DEF ReportingInv

(* The actions one by one, so that a proof by cases names each of them.     *)
LEMMA NextCases ==
    ASSUME Next, NEW P,
           ASSUME NEW t \in Reporters, Collect(t) PROVE P,
           ASSUME NEW t \in Reporters, Connect(t) PROVE P,
           ASSUME NEW t \in Reporters, Send(t) PROVE P,
           ASSUME NEW t \in Reporters, Close(t) PROVE P,
           ASSUME NEW t \in Reporters, PrintEntry(t) PROVE P,
           PollerReports => P, PollerDrops => P, PollerEnds => P,
           Start => P, Stop => P, Join => P, OwnerReports => P,
           Destroy => P, Destroyed => P, Register => P, Remove => P
    PROVE  P
  BY DEF Next, PollerStep, ReportStep, Reporters

LEMMA SentTypes ==
    ASSUME TypeInv, NEW t \in Reporters,
           \/ \E e \in collected[t] \ sent[t] :
                 sent' = [sent EXCEPT ![t] = @ \cup {e}]
           \/ sent' = sent
    PROVE  sent' \in [Reporters -> SUBSET AllEntries]
  <1>1. CASE sent' = sent
    BY <1>1 DEF TypeInv
  <1>2. CASE sent' # sent
    <2>1. PICK e \in collected[t] : sent' = [sent EXCEPT ![t] = @ \cup {e}]
      BY <1>2
    <2>2. sent[t] \cup {e} \subseteq AllEntries
      BY DEF TypeInv
    <2> QED
      BY <2>1, <2>2 DEF TypeInv
  <1> QED
    BY <1>1, <1>2

LEMMA ReturnTypes ==
    ASSUME TypeInv, NEW t \in Reporters, Return(t)
    PROVE  /\ pc' \in [Reporters -> PcSteps]
           /\ collected' \in [Reporters -> SUBSET AllEntries]
           /\ sent' \in [Reporters -> SUBSET AllEntries]
           /\ stable' \in [Reporters -> SUBSET AllEntries]
           /\ waits' \in Nat
           /\ UNCHANGED <<kind, running_, open, starts, section>>
  <1>1. pc' \in [Reporters -> PcSteps]
    BY DEF TypeInv, Return, Goto, PcSteps
  <1>2. ASSUME NEW f \in [Reporters -> SUBSET AllEntries]
        PROVE  [f EXCEPT ![t] = {}] \in [Reporters -> SUBSET AllEntries]
    OBVIOUS
  <1>3. collected' \in [Reporters -> SUBSET AllEntries]
    BY <1>2 DEF TypeInv, Return
  <1>4. sent' \in [Reporters -> SUBSET AllEntries]
    BY <1>2 DEF TypeInv, Return
  <1>5. stable' \in [Reporters -> SUBSET AllEntries]
    BY <1>2 DEF TypeInv, Return
  <1>6. waits' \in Nat /\ UNCHANGED <<kind, running_, open, starts, section>>
    BY DEF TypeInv, Return
  <1> QED
    BY <1>1, <1>3, <1>4, <1>5, <1>6

LEMMA TypeInvStep == TypeInv /\ [Next]_vars => TypeInv'
  <1> SUFFICES ASSUME TypeInv, [Next]_vars PROVE TypeInv'
    OBVIOUS
  <1> USE EntriesAreEntries, UnboundIsABinding
  <1> USE DEF TypeInv, PcSteps, ReportSteps, Goto, sender, lifecycle, maps
  <1>1. CASE Next
    <2>1. ASSUME NEW t \in Reporters, Collect(t) PROVE TypeInv'
      <3>1. (section[t] % TotalTypes) + 1 \in Sections
        BY ReportingAssumption, SectionsCoverTypes DEF Sections
      <3> QED
        BY <2>1, <3>1 DEF Collect
    <2>2. ASSUME NEW t \in Reporters, Connect(t) PROVE TypeInv'
      BY <2>2 DEF Connect, Fail
    <2>3. ASSUME NEW t \in Reporters, Send(t) PROVE TypeInv'
      <3>1. pc' \in [Reporters -> PcSteps]
        BY <2>3 DEF Send, Fail
      <3> QED
        BY <2>3, <3>1, SentTypes DEF Send
    <2>4. ASSUME NEW t \in Reporters, Close(t) PROVE TypeInv'
      BY <2>4, ReturnTypes DEF Close
    <2>5. ASSUME NEW t \in Reporters, PrintEntry(t) PROVE TypeInv'
      <3>1. CASE Return(t)
        BY <2>5, <3>1, ReturnTypes DEF PrintEntry
      <3>2. CASE ~Return(t)
        BY <2>5, <3>2, SentTypes DEF PrintEntry
      <3> QED
        BY <3>1, <3>2
    <2>6. ASSUME PollerReports PROVE TypeInv'
      BY <2>6 DEF PollerReports, Begin, Reporters
    <2>7. ASSUME PollerDrops PROVE TypeInv'
      BY <2>7 DEF PollerDrops
    <2>8. ASSUME PollerEnds PROVE TypeInv'
      BY <2>8 DEF PollerEnds, Reporters
    <2>9. ASSUME Start PROVE TypeInv'
      BY <2>9 DEF Start
    <2>10. ASSUME Stop PROVE TypeInv'
      BY <2>10 DEF Stop, Reporters
    <2>11. ASSUME Join PROVE TypeInv'
      BY <2>11 DEF Join, Reporters
    <2>12. ASSUME OwnerReports PROVE TypeInv'
      BY <2>12 DEF OwnerReports, Begin, Reporters
    <2>13. ASSUME Destroy PROVE TypeInv'
      BY <2>13 DEF Destroy, Reporters
    <2>14. ASSUME Destroyed PROVE TypeInv'
      BY <2>14 DEF Destroyed, Reporters
    <2>15. ASSUME Register PROVE TypeInv'
      <3>0. PICK n \in Names, type \in Registry!Types :
                \E m \in Registry!ObjectsOf(type) : Registry!Bind(n, type, m)
        BY <2>15 DEF Register
      <3>1. PICK m \in Registry!ObjectsOf(type) : Registry!Bind(n, type, m)
        BY <3>0
      <3>2. table' \in [Names -> Bindings]
        BY <3>1, BindingTypes DEF Registry!Bind
      <3> QED
        BY <2>15, <3>2 DEF Register
    <2>16. ASSUME Remove PROVE TypeInv'
      BY <2>16 DEF Remove
    <2> QED
      BY <1>1, NextCases, <2>1, <2>2, <2>3, <2>4, <2>5, <2>6, <2>7, <2>8,
         <2>9, <2>10, <2>11, <2>12, <2>13, <2>14, <2>15, <2>16
  <1>2. CASE UNCHANGED vars
    BY <1>2 DEF vars
  <1> QED
    BY <1>1, <1>2

LEMMA PollerAtRestStep ==
    TypeInv /\ PollerIsAtRest /\ [Next]_vars => PollerIsAtRest'
  <1> SUFFICES ASSUME TypeInv, PollerIsAtRest, [Next]_vars
               PROVE  PollerIsAtRest'
    OBVIOUS
  <1> USE DEF TypeInv, PollerIsAtRest, Reporting, Reporters, Goto, lifecycle
  <1>1. CASE Next
    <2>1. ASSUME NEW t \in Reporters, Collect(t) PROVE PollerIsAtRest'
      BY <2>1 DEF Collect
    <2>2. ASSUME NEW t \in Reporters, Connect(t) PROVE PollerIsAtRest'
      BY <2>2 DEF Connect, Fail
    <2>3. ASSUME NEW t \in Reporters, Send(t) PROVE PollerIsAtRest'
      BY <2>3 DEF Send, Fail
    <2>4. ASSUME NEW t \in Reporters, Close(t) PROVE PollerIsAtRest'
      BY <2>4 DEF Close, Return
    <2>5. ASSUME NEW t \in Reporters, PrintEntry(t) PROVE PollerIsAtRest'
      BY <2>5 DEF PrintEntry, Return
    <2>6. ASSUME PollerReports PROVE PollerIsAtRest'
      BY <2>6 DEF PollerReports, Begin
    <2>7. ASSUME PollerDrops PROVE PollerIsAtRest'
      BY <2>7 DEF PollerDrops
    <2>8. ASSUME PollerEnds PROVE PollerIsAtRest'
      BY <2>8 DEF PollerEnds
    <2>9. ASSUME Start PROVE PollerIsAtRest'
      BY <2>9 DEF Start
    <2>10. ASSUME Stop PROVE PollerIsAtRest'
      BY <2>10 DEF Stop
    <2>11. ASSUME Join PROVE PollerIsAtRest'
      BY <2>11 DEF Join
    <2>12. ASSUME OwnerReports PROVE PollerIsAtRest'
      BY <2>12 DEF OwnerReports, Begin
    <2>13. ASSUME Destroy PROVE PollerIsAtRest'
      BY <2>13 DEF Destroy
    <2>14. ASSUME Destroyed PROVE PollerIsAtRest'
      BY <2>14 DEF Destroyed
    <2>15. ASSUME Register PROVE PollerIsAtRest'
      BY <2>15 DEF Register
    <2>16. ASSUME Remove PROVE PollerIsAtRest'
      BY <2>16 DEF Remove
    <2> QED
      BY <1>1, NextCases, <2>1, <2>2, <2>3, <2>4, <2>5, <2>6, <2>7, <2>8,
         <2>9, <2>10, <2>11, <2>12, <2>13, <2>14, <2>15, <2>16
  <1>2. CASE UNCHANGED vars
    BY <1>2 DEF vars
  <1> QED
    BY <1>1, <1>2

LEMMA ConnectionStep ==
    TypeInv /\ ConsoleConnectsNothing /\ ConnectionEndsWithReport /\ [Next]_vars
        => ConsoleConnectsNothing' /\ ConnectionEndsWithReport'
  <1> DEFINE Inv == ConsoleConnectsNothing /\ ConnectionEndsWithReport
  <1> SUFFICES ASSUME TypeInv, Inv, [Next]_vars PROVE Inv'
    OBVIOUS
  <1> USE DEF TypeInv, ConsoleConnectsNothing, ConnectionEndsWithReport,
              Reporters, Goto, lifecycle, sender
  <1>1. CASE Next
    <2>1. ASSUME NEW t \in Reporters, Collect(t) PROVE Inv'
      BY <2>1 DEF Collect
    <2>2. ASSUME NEW t \in Reporters, Connect(t) PROVE Inv'
      BY <2>2 DEF Connect, Fail
    <2>3. ASSUME NEW t \in Reporters, Send(t) PROVE Inv'
      BY <2>3 DEF Send, Fail
    <2>4. ASSUME NEW t \in Reporters, Close(t) PROVE Inv'
      BY <2>4 DEF Close, Return
    <2>5. ASSUME NEW t \in Reporters, PrintEntry(t) PROVE Inv'
      BY <2>5 DEF PrintEntry, Return
    <2>6. ASSUME PollerReports PROVE Inv'
      BY <2>6 DEF PollerReports, Begin
    <2>7. ASSUME PollerDrops PROVE Inv'
      BY <2>7 DEF PollerDrops
    <2>8. ASSUME PollerEnds PROVE Inv'
      BY <2>8 DEF PollerEnds
    <2>9. ASSUME Start PROVE Inv'
      BY <2>9 DEF Start
    <2>10. ASSUME Stop PROVE Inv'
      BY <2>10 DEF Stop
    <2>11. ASSUME Join PROVE Inv'
      BY <2>11 DEF Join
    <2>12. ASSUME OwnerReports PROVE Inv'
      BY <2>12 DEF OwnerReports, Begin
    <2>13. ASSUME Destroy PROVE Inv'
      BY <2>13 DEF Destroy
    <2>14. ASSUME Destroyed PROVE Inv'
      BY <2>14 DEF Destroyed
    <2>15. ASSUME Register PROVE Inv'
      BY <2>15 DEF Register
    <2>16. ASSUME Remove PROVE Inv'
      BY <2>16 DEF Remove
    <2> HIDE DEF Inv
    <2> QED
      BY <1>1, NextCases, <2>1, <2>2, <2>3, <2>4, <2>5, <2>6, <2>7, <2>8,
         <2>9, <2>10, <2>11, <2>12, <2>13, <2>14, <2>15, <2>16
  <1>2. CASE UNCHANGED vars
    BY <1>2 DEF vars
  <1> QED
    BY <1>1, <1>2

(* What a step that touches neither the table nor what t has keeps for t.   *)
LEMMA CoveredStays ==
    ASSUME NEW t \in Reporters, CoveredBy(t), Entries \subseteq Entries',
           section'[t] = section[t], collected'[t] = collected[t],
           stable'[t] = stable[t] \/ stable'[t] = {},
           \/ pc'[t] = pc[t]
           \/ /\ pc[t] # "collect" /\ pc'[t] # "collect"
              /\ Reporting(t)' => Reporting(t)
    PROVE  CoveredBy(t)'
  BY DEF CoveredBy, Reporting

(* One getMetrics adds the entries of its type: those that are stable are   *)
(* in the table.                                                            *)
LEMMA CollectCovers ==
    ASSUME TypeInv, StableIsCollected, NEW t \in Reporters, Collect(t)
    PROVE  CoveredBy(t)'
  <1> DEFINE s == section[t]
  <1> USE DEF TypeInv, Goto
  <1>1. s \in Sections /\ CoveredBy(t) /\ pc[t] = "collect"
    BY DEF StableIsCollected, Collect
  <1>2. /\ stable' = stable /\ Entries' = Entries
        /\ section'[t] = (s % TotalTypes) + 1
        /\ collected'[t] = collected[t] \cup
               {e \in Entries : e.binding.type = TypeOfSection(s)}
    BY DEF Collect, Entries, Entry, lifecycle, Registry!Bound
  <1>3. \A e \in stable[t], i \in 1 .. s :
            e.binding.type = TypeOfSection(i) => e \in collected'[t]
    <2> TAKE e \in stable[t], i \in 1 .. s
    <2> HAVE e.binding.type = TypeOfSection(i)
    <2>1. i = s \/ i \in 1 .. s - 1
      BY <1>1 DEF Sections
    <2> QED
      BY <1>1, <1>2, <2>1 DEF CoveredBy
  <1>4. CASE s < TotalTypes
    <2>1. pc'[t] = "collect" /\ section'[t] = s + 1
      BY <1>1, <1>2, <1>4, SectionsCoverTypes DEF Collect
    <2>2. 1 .. section'[t] - 1 = 1 .. s
      BY <1>1, <2>1 DEF Sections
    <2> QED
      BY <1>1, <1>2, <1>3, <2>1, <2>2 DEF CoveredBy
  <1>5. CASE s = TotalTypes
    <2>1. pc'[t] # "collect" /\ section'[t] = 1
      <3>1. ~(section[t] < TotalTypes)
        BY <1>5, ReportingAssumption
      <3>2. section'[t] = 1
        BY <1>1, <1>2, <1>5, SectionsCoverTypes
      <3> QED
        BY <3>1, <3>2 DEF Collect
    <2>2. ASSUME NEW e \in stable[t] PROVE e \in collected'[t]
      <3>1. e.binding.type \in Registry!Types
        BY <2>2 DEF AllEntries, Bindings
      <3>2. PICK i \in Sections : TypeOfSection(i) = e.binding.type
        BY <3>1, SectionsCoverTypes
      <3> QED
        BY <1>3, <1>5, <2>2, <3>2 DEF Sections
    <2> QED
      BY <1>1, <1>2, <2>1, <2>2 DEF CoveredBy
  <1> QED
    BY <1>1, <1>4, <1>5, ReportingAssumption DEF Sections

(* Registering a name adds its entry and leaves the others.                 *)
LEMMA RegisterAddsEntries ==
    ASSUME TypeInv, Register
    PROVE  Entries \subseteq Entries'
  <1>0. PICK n \in Names, type \in Registry!Types :
            \E m \in Registry!ObjectsOf(type) :
                ~Registry!Bound(n) /\ Registry!Bind(n, type, m)
    BY DEF Register
  <1>1. PICK m \in Registry!ObjectsOf(type) :
            ~Registry!Bound(n) /\ Registry!Bind(n, type, m)
    BY <1>0
  <1>2. \A other \in Names : Registry!Bound(other) =>
            table'[other] = table[other] /\ Registry!Bound(other)'
    BY <1>1 DEF TypeInv, Registry!Bind, Registry!Bound
  <1> QED
    BY <1>2 DEF Entries, Entry

(* Removing a name takes its entry out of the table and of what is stable.  *)
LEMMA RemoveTakesEntry ==
    ASSUME TypeInv, StableIsCollected, Remove, NEW t \in Reporters
    PROVE  CoveredBy(t)'
  <1>1. PICK n \in Names :
            /\ table' = [table EXCEPT ![n] = Registry!Unbound]
            /\ stable' = [u \in Reporters |-> stable[u] \ {Entry(n)}]
    BY DEF Remove
  <1>2. Entries \ {Entry(n)} \subseteq Entries'
    <2>1. \A other \in Names \ {n} :
              Entry(other)' = Entry(other)
                  /\ Registry!Bound(other)' = Registry!Bound(other)
      BY <1>1 DEF TypeInv, Entry, Registry!Bound
    <2> QED
      BY <2>1 DEF Entries
  <1>3. stable'[t] = stable[t] \ {Entry(n)}
    BY <1>1
  <1> QED
    BY <1>2, <1>3 DEF StableIsCollected, CoveredBy, Remove, maps, Reporting

LEMMA StableStep ==
    TypeInv /\ StableIsCollected /\ [Next]_vars => StableIsCollected'
  <1> SUFFICES ASSUME TypeInv, StableIsCollected, [Next]_vars,
                      NEW u \in Reporters
               PROVE  CoveredBy(u)'
    BY DEF StableIsCollected
  <1>0. CoveredBy(u)
    BY DEF StableIsCollected
  <1>9. table' = table => Entries' = Entries
    BY DEF Entries, Entry, Registry!Bound
  <1> USE DEF TypeInv, Goto, lifecycle, maps, Reporting
  <1>1. CASE Next
    <2>1. ASSUME NEW t \in Reporters, Collect(t) PROVE CoveredBy(u)'
      <3>1. CASE u = t
        BY <2>1, <3>1, CollectCovers
      <3>2. CASE u # t
        BY <1>0, <1>9, <2>1, <3>2, CoveredStays DEF Collect
      <3> QED
        BY <3>1, <3>2
    <2>2. ASSUME NEW t \in Reporters, Connect(t) PROVE CoveredBy(u)'
      BY <1>0, <1>9, <2>2, CoveredStays DEF Connect, Fail
    <2>3. ASSUME NEW t \in Reporters, Send(t) PROVE CoveredBy(u)'
      BY <1>0, <1>9, <2>3, CoveredStays DEF Send, Fail
    <2>4. ASSUME NEW t \in Reporters, Close(t) PROVE CoveredBy(u)'
      BY <1>0, <1>9, <2>4 DEF Close, Return, CoveredBy
    <2>5. ASSUME NEW t \in Reporters, PrintEntry(t) PROVE CoveredBy(u)'
      BY <1>0, <1>9, <2>5 DEF PrintEntry, Return, CoveredBy
    <2>6. ASSUME PollerReports PROVE CoveredBy(u)'
      BY <1>0, <1>9, <2>6 DEF PollerReports, Begin, CoveredBy
    <2>7. ASSUME PollerDrops PROVE CoveredBy(u)'
      BY <1>0, <1>9, <2>7, CoveredStays DEF PollerDrops
    <2>8. ASSUME PollerEnds PROVE CoveredBy(u)'
      BY <1>0, <1>9, <2>8, CoveredStays DEF PollerEnds
    <2>9. ASSUME Start PROVE CoveredBy(u)'
      BY <1>0, <1>9, <2>9, CoveredStays DEF Start
    <2>10. ASSUME Stop PROVE CoveredBy(u)'
      BY <1>0, <1>9, <2>10, CoveredStays DEF Stop
    <2>11. ASSUME Join PROVE CoveredBy(u)'
      BY <1>0, <1>9, <2>11, CoveredStays DEF Join
    <2>12. ASSUME OwnerReports PROVE CoveredBy(u)'
      BY <1>0, <1>9, <2>12 DEF OwnerReports, Begin, CoveredBy
    <2>13. ASSUME Destroy PROVE CoveredBy(u)'
      BY <1>0, <1>9, <2>13, CoveredStays DEF Destroy
    <2>14. ASSUME Destroyed PROVE CoveredBy(u)'
      BY <1>0, <1>9, <2>14, CoveredStays DEF Destroyed
    <2>15. ASSUME Register PROVE CoveredBy(u)'
      BY <1>0, <2>15, RegisterAddsEntries, CoveredStays DEF Register
    <2>16. ASSUME Remove PROVE CoveredBy(u)'
      BY <2>16, RemoveTakesEntry
    <2> QED
      BY <1>1, NextCases, <2>1, <2>2, <2>3, <2>4, <2>5, <2>6, <2>7, <2>8,
         <2>9, <2>10, <2>11, <2>12, <2>13, <2>14, <2>15, <2>16
  <1>2. CASE UNCHANGED vars
    BY <1>0, <1>2, <1>9, CoveredStays DEF vars
  <1> QED
    BY <1>1, <1>2

-----------------------------------------------------------------------------
(* What holds of a reporter and its poller at each moment, whatever the      *)
(* network and the application do.                                          *)
THEOREM ReportingInvariant == Spec => []ReportingInv
  <1>1. ReportingInv /\ [Next]_vars => ReportingInv'
    BY TypeInvStep, PollerAtRestStep, ConnectionStep, StableStep
    DEF ReportingInv
  <1> QED
    BY ReportingInit, <1>1, PTL DEF Spec

(* However a report fails, and whoever made it, the sender is closed when   *)
(* no report is between its connect and its close.                          *)
THEOREM SenderIsClosed == Spec => []ConnectionEndsWithReport
  <1>1. ReportingInv => ConnectionEndsWithReport
    BY DEF ReportingInv
  <1> QED
    BY <1>1, ReportingInvariant, PTL

(* The owner's reports and the poller's never meet, however often the       *)
(* reporter is started and stopped, and none outlives the reporter.         *)
THEOREM ReportsDoNotMeet == Spec => []OneReportAtATime
  <1>1. ReportingInv => OneReportAtATime
    BY DEF ReportingInv, PollerIsAtRest, OneReportAtATime, Reporting
  <1> QED
    BY <1>1, ReportingInvariant, PTL

(* Whatever is registered and removed while a report collects, and for any  *)
(* number of metric types, every metric that stays is in the report.        *)
THEOREM ReportsAreComplete == Spec => []ReportCoversStable
  <1>1. ReportingInv => ReportCoversStable
    BY DEF ReportingInv, StableIsCollected, CoveredBy, ReportCoversStable
  <1> QED
    BY <1>1, ReportingInvariant, PTL
=============================================================================
