---------------------------- MODULE UniformSample ----------------------------
(***************************************************************************)
(* cppmetrics::core::UniformSample: a reservoir of the values recorded.    *)
(* update() takes its place in the count before it takes the mutex,        *)
(* getSnapshot() holds the mutex while it copies, clear() takes no mutex.  *)
(*                                                                         *)
(* One action per access to count_ or to an element of values_; elements   *)
(* are machine words, so an access that races with another sees the old    *)
(* value or the new one.                                                   *)
(***************************************************************************)
EXTENDS Naturals, Sequences, FiniteSets

CONSTANTS
    Threads,
    Values,           \* what is recorded; never 0, the value of a free place
    reservoir_size_,
    MaxCount,         \* bound: no update takes count_ beyond it
    None              \* nobody

ASSUME SampleAssumption ==
    /\ IsFiniteSet(Threads) /\ None \notin Threads
    /\ Values \subseteq Nat \ {0}
    /\ reservoir_size_ \in Nat \ {0} /\ MaxCount \in Nat

VARIABLES
    values_,
    count_,
    mutex_,    \* the thread that holds it
    pc,        \* per thread: the next step of its call
    local,     \* per thread: arguments and locals of its call
    alone,     \* history, per thread: its clear() has met no update or clear
    tainted,   \* history: the last clear() was not alone
    recorded   \* history: how often each value was stored since then

sampleVars == <<values_, count_, mutex_, pc, local, alone, tainted, recorded>>

-----------------------------------------------------------------------------
Places == 1 .. reservoir_size_
NoLocals == [value |-> 0, count |-> 0, i |-> 0, size |-> 0, copy |-> <<>>]

Updating(t) == pc[t] \in {"take", "store"}
Clearing(t) == pc[t] = "clear"
Size == IF count_ < reservoir_size_ THEN count_ ELSE reservoir_size_

SampleInit ==
    /\ values_ = [i \in Places |-> 0]
    /\ count_ = 0
    /\ mutex_ = None
    /\ pc = [t \in Threads |-> "idle"]
    /\ local = [t \in Threads |-> NoLocals]
    /\ alone = [t \in Threads |-> TRUE]
    /\ tainted = FALSE
    /\ recorded = [v \in Values |-> 0]

Goto(t, step) == pc' = [pc EXCEPT ![t] = step]
Enter(t, step, locals) ==
    /\ pc[t] = "idle"
    /\ Goto(t, step)
    /\ local' = [local EXCEPT ![t] = locals]
    /\ UNCHANGED <<values_, count_, mutex_, tainted, recorded>>
Leave(t) ==
    /\ Goto(t, "idle")
    /\ local' = [local EXCEPT ![t] = NoLocals]

-----------------------------------------------------------------------------
(* update *)

EnterUpdate(t, v) ==
    /\ count_ + Cardinality({u \in Threads : pc[u] = "take"}) < MaxCount
    /\ Enter(t, "take", [NoLocals EXCEPT !.value = v])
    /\ alone' = [u \in Threads |-> FALSE]

TakePlace(t) ==
    /\ pc[t] = "take"
    /\ count_' = count_ + 1
    /\ local' = [local EXCEPT ![t].count = count_ + 1]
    /\ Goto(t, "store")
    /\ UNCHANGED <<values_, mutex_, alone, tainted, recorded>>

Put(t, i) == values_' = [values_ EXCEPT ![i] = local[t].value]

\* A store at the place of the latest update instead of this one's.
StoreAtLatest(t) ==
    LET count == count_
    IN /\ pc[t] = "store" /\ mutex_ = None
       /\ \/ count \in Places /\ Put(t, count)
          \/ /\ count \notin Places
             /\ \E rand \in 1 .. count :
                   IF rand <= reservoir_size_ THEN Put(t, rand)
                                              ELSE UNCHANGED values_
       /\ recorded' = [recorded EXCEPT ![local[t].value] = @ + 1]
       /\ Leave(t)
       /\ UNCHANGED <<count_, mutex_, alone, tainted>>

\* Under the mutex: the first values go to their own place, a later one
\* replaces the value at a random place or none.
Store(t) ==
    LET count == local[t].count
    IN /\ pc[t] = "store" /\ mutex_ = None
       /\ \/ count <= reservoir_size_ /\ Put(t, count)
          \/ /\ count > reservoir_size_
             /\ \E rand \in 1 .. count :
                   IF rand <= reservoir_size_ THEN Put(t, rand)
                                              ELSE UNCHANGED values_
       /\ recorded' = [recorded EXCEPT ![local[t].value] = @ + 1]
       /\ Leave(t)
       /\ UNCHANGED <<count_, mutex_, alone, tainted>>

-----------------------------------------------------------------------------
(* clear *)

EnterClear(t) ==
    /\ Enter(t, "clear", [NoLocals EXCEPT !.i = 1])
    /\ alone' = [u \in Threads |->
           u = t /\ \A w \in Threads : ~Updating(w) /\ ~Clearing(w)]

ClearPlace(t) ==
    /\ pc[t] = "clear" /\ local[t].i \in Places
    /\ values_' = [values_ EXCEPT ![local[t].i] = 0]
    /\ local' = [local EXCEPT ![t].i = @ + 1]
    /\ UNCHANGED <<count_, mutex_, pc, alone, tainted, recorded>>

\* A clear() that leaves the count.
ClearNoCount(t) ==
    /\ pc[t] = "clear" /\ local[t].i \notin Places
    /\ tainted' = ~alone[t]
    /\ recorded' = [v \in Values |-> 0]
    /\ Leave(t)
    /\ UNCHANGED <<values_, count_, mutex_, alone>>

ClearCount(t) ==
    /\ pc[t] = "clear" /\ local[t].i \notin Places
    /\ count_' = 0
    /\ tainted' = ~alone[t]
    /\ recorded' = [v \in Values |-> 0]
    /\ Leave(t)
    /\ UNCHANGED <<values_, mutex_, alone>>

-----------------------------------------------------------------------------
(* getSnapshot *)

EnterSnapshot(t) == Enter(t, "lock", NoLocals) /\ UNCHANGED alone

LockAndSize(t) ==
    /\ pc[t] = "lock" /\ mutex_ = None
    /\ mutex_' = t
    /\ local' = [local EXCEPT ![t].size = Size]
    /\ Goto(t, "copy")
    /\ UNCHANGED <<values_, count_, alone, tainted, recorded>>

Copied(t) == Len(local[t].copy)

CopyValue(t) ==
    /\ pc[t] = "copy" /\ Copied(t) < local[t].size
    /\ local' = [local EXCEPT ![t].copy = Append(@, values_[Copied(t) + 1])]
    /\ UNCHANGED <<values_, count_, mutex_, pc, alone, tainted, recorded>>

EndSnapshot(t) ==
    /\ pc[t] = "copy" /\ Copied(t) = local[t].size
    /\ mutex_' = None
    /\ Leave(t)
    /\ UNCHANGED <<values_, count_, alone, tainted, recorded>>

SampleStep(t) ==
    \/ TakePlace(t) \/ Store(t)
    \/ ClearPlace(t) \/ ClearCount(t)
    \/ LockAndSize(t) \/ CopyValue(t) \/ EndSnapshot(t)

-----------------------------------------------------------------------------
Settled == ~tainted /\ \A t \in Threads : ~Clearing(t)

\* Until the reservoir is full it holds every value recorded, each as often
\* as it was: no update overwrites another, however many are under way.
EveryValueIsKept ==
    Settled /\ count_ <= reservoir_size_ =>
        \A v \in Values :
            recorded[v] = Cardinality({i \in Places : values_[i] = v})

\* A place that counts as filled but holds no value is one an update that has
\* taken it is about to fill; so when no update is under way a snapshot holds
\* recorded values only.
FreePlacesAreClaimed ==
    Settled => \A i \in 1 .. Size :
        values_[i] = 0 =>
            \E t \in Threads : pc[t] = "store" /\ local[t].count = i

\* "@return a snapshot of the sample's values" (sample.h:53): every value of a
\* finished snapshot was recorded.
SnapshotIsOfRecordedValues ==
    \A t \in Threads : pc[t] = "copy" /\ Copied(t) = local[t].size =>
        \A i \in 1 .. Copied(t) : local[t].copy[i] # 0
=============================================================================
