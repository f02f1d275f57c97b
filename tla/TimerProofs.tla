----------------------------- MODULE TimerProofs -----------------------------
(***************************************************************************)
(* The safety invariants of Timer for any events, intervals and threads.   *)
(***************************************************************************)
EXTENDS Timer, WellFoundedInduction, TLAPS

(* The multimap and the timer's batch have one entry of a one-shot event,  *)
(* at the arrival time the event has, from its addition to its run.        *)
OneEntry ==
  \A e \in Events \ Repeated :
    /\ \A x \in m_pending_events \cup tasks : x.ev = e => x = Entry(e)
    /\ stage[e] \in {"none", "made"} => \A x \in m_pending_events \cup tasks : x.ev # e
    /\ stage[e] \in {"none", "made"} => runs[e] = 0

(* Only a repeated event is added again.                                   *)
Readds ==
  /\ \A e \in Events : m_is_repeated[e] => e \in Repeated
  /\ loop_pc = "insert" => readding \in Repeated
  /\ \A t \in Threads : IF thread_pc[t] = "erase" THEN deleting[t] \in Events
                                                  ELSE deleting[t] = NoEvent
  /\ \A t \in Threads : thread_pc[t] = "settime" => snapshot[t] \in Nat
  /\ loop_pc \notin {"tasks", "in_task"} /\ tasks # {} => loop_pc \in {"readd", "insert"}
  /\ loop_pc \notin {"epoll", "tasks", "in_task"} => thread_pc[Loop] = "idle"

IInv == TypeOK /\ NeverEarly /\ OneShotOnce /\ DeletedIsGone /\ OneEntry /\ Readds

USE DEF Threads, Entries

-----------------------------------------------------------------------------
LEMMA LeastNatural ==
  ASSUME NEW S \in SUBSET Nat, S # {}
  PROVE  \E m \in S : \A n \in S : m <= n
<1>1. PICK m \in S : \A n \in S : ~(<<n, m>> \in OpToRel(<, Nat))
  BY WFMin, NatLessThanWellFounded
<1>2. \A n \in S : ~(n < m)
  BY <1>1 DEF OpToRel
<1> QED
  BY <1>2

(* The earliest of some entries has one of their times.                    *)
LEMMA EarliestType ==
  ASSUME NEW S \in SUBSET Entries, S # {}
  PROVE  Earliest(S) \in Nat
<1> DEFINE T == {x.at : x \in S}
<1>1. T \in SUBSET Nat /\ T # {}
  OBVIOUS
<1>2. PICK m \in T : \A t \in T : m <= t
  <2> HIDE DEF T
  <2> QED
    BY <1>1, LeastNatural
<1>3. Earliest(S) \in T
  BY <1>2 DEF Earliest
<1> QED
  BY <1>1, <1>3

LEMMA InitInv == TimerAssumption /\ Init => IInv
<1> SUFFICES ASSUME TimerAssumption, Init PROVE IInv
  OBVIOUS
<1> USE DEF TimerAssumption, Init
<1>1. TypeOK
  <2>1. \A e \in Events : (e \in Repeated) \in BOOLEAN
    OBVIOUS
  <2>2. m_is_repeated \in [Events -> BOOLEAN]
    BY <2>1, Zenon
  <2> QED
    BY <2>2 DEF TypeOK
<1>2. NeverEarly /\ OneShotOnce /\ DeletedIsGone /\ OneEntry
  BY DEF NeverEarly, OneShotOnce, DeletedIsGone, OneEntry
<1>3. Readds
  BY DEF Readds
<1> QED
  BY <1>1, <1>2, <1>3 DEF IInv

LEMMA TickInv ==
  ASSUME TimerAssumption, IInv, Tick /\ UNCHANGED users
  PROVE  IInv'
<1> USE DEF TimerAssumption, IInv, objects, timerfd, calling, locals
<1> USE DEF Tick
<1>1. TypeOK'
  BY DEF TypeOK
<1>2. NeverEarly'
  BY DEF TypeOK, NeverEarly
<1>3. OneShotOnce'
  BY DEF TypeOK, OneShotOnce, OneEntry, Entry
<1>4. DeletedIsGone'
  BY DEF TypeOK, DeletedIsGone, OneEntry, Entry
<1>5. OneEntry'
  BY DEF TypeOK, OneEntry, OneShotOnce, Entry
<1>6. Readds'
  BY DEF TypeOK, Readds
<1> QED
  BY <1>1, <1>2, <1>3, <1>4, <1>5, <1>6

LEMMA MakeEventInv ==
  ASSUME TimerAssumption, IInv, NEW t \in Threads, NEW e \in Events, MakeEvent(t, e) /\ UNCHANGED users
  PROVE  IInv'
<1> USE DEF TimerAssumption, IInv, objects, timerfd, calling, locals
<1> USE DEF MakeEvent, MayCall
<1>1. TypeOK'
  BY DEF TypeOK
<1>2. NeverEarly'
  BY DEF TypeOK, NeverEarly
<1>3. OneShotOnce'
  BY DEF TypeOK, OneShotOnce, OneEntry, Readds
<1>4. DeletedIsGone'
  BY DEF TypeOK, DeletedIsGone, OneEntry, Entry
<1>5. OneEntry'
  BY DEF TypeOK, OneEntry, OneShotOnce, Entry
<1>6. Readds'
  BY DEF TypeOK, Readds
<1> QED
  BY <1>1, <1>2, <1>3, <1>4, <1>5, <1>6

LEMMA AddTimerEventInv ==
  ASSUME TimerAssumption, IInv, NEW t \in Threads, NEW e \in Events, AddTimerEvent(t, e) /\ UNCHANGED users
  PROVE  IInv'
<1> USE DEF TimerAssumption, IInv, objects, timerfd, calling, locals
<1> USE DEF AddTimerEvent, MayCall, IsEarliest, Entry
<1>1. TypeOK'
  BY DEF TypeOK
<1>2. NeverEarly'
  BY DEF TypeOK, NeverEarly
<1>3. OneShotOnce'
  BY DEF TypeOK, OneShotOnce, OneEntry, Entry
<1>4. DeletedIsGone'
  BY DEF TypeOK, DeletedIsGone, OneEntry, Entry
<1>5. OneEntry'
  BY DEF TypeOK, OneEntry, OneShotOnce, Entry
<1>6. Readds'
  BY DEF TypeOK, Readds
<1> QED
  BY <1>1, <1>2, <1>3, <1>4, <1>5, <1>6

LEMMA DelTimerEventInv ==
  ASSUME TimerAssumption, IInv, NEW t \in Threads, NEW e \in Events, DelTimerEvent(t, e) /\ UNCHANGED users
  PROVE  IInv'
<1> USE DEF TimerAssumption, IInv, objects, timerfd, calling, locals
<1> USE DEF DelTimerEvent, MayCall
<1>1. TypeOK'
  BY DEF TypeOK
<1>2. NeverEarly'
  BY DEF TypeOK, NeverEarly
<1>3. OneShotOnce'
  BY DEF TypeOK, OneShotOnce, OneEntry, Entry
<1>4. DeletedIsGone'
  BY DEF TypeOK, DeletedIsGone, OneEntry, Readds, NoEvent
<1>5. OneEntry'
  BY DEF TypeOK, OneEntry, OneShotOnce, Entry
<1>6. Readds'
  BY DEF TypeOK, Readds
<1> QED
  BY <1>1, <1>2, <1>3, <1>4, <1>5, <1>6

LEMMA CancelInv ==
  ASSUME TimerAssumption, IInv, NEW t \in Threads, NEW e \in Events, Cancel(t, e) /\ UNCHANGED users
  PROVE  IInv'
<1> USE DEF TimerAssumption, IInv, objects, timerfd, calling, locals
<1> USE DEF Cancel, MayCall
<1>1. TypeOK'
  BY DEF TypeOK
<1>2. NeverEarly'
  BY DEF TypeOK, NeverEarly
<1>3. OneShotOnce'
  BY DEF TypeOK, OneShotOnce, OneEntry, Entry
<1>4. DeletedIsGone'
  BY DEF TypeOK, DeletedIsGone, OneEntry, Entry
<1>5. OneEntry'
  BY DEF TypeOK, OneEntry, OneShotOnce, Entry
<1>6. Readds'
  BY DEF TypeOK, Readds
<1> QED
  BY <1>1, <1>2, <1>3, <1>4, <1>5, <1>6

LEMMA CancelRepeatedInv ==
  ASSUME TimerAssumption, IInv, NEW t \in Threads, NEW e \in Events, CancelRepeated(t, e) /\ UNCHANGED users
  PROVE  IInv'
<1> USE DEF TimerAssumption, IInv, objects, timerfd, calling, locals
<1> USE DEF CancelRepeated, MayCall
<1>1. TypeOK'
  BY DEF TypeOK
<1>2. NeverEarly'
  BY DEF TypeOK, NeverEarly
<1>3. OneShotOnce'
  BY DEF TypeOK, OneShotOnce, OneEntry, Entry
<1>4. DeletedIsGone'
  BY DEF TypeOK, DeletedIsGone, OneEntry, Entry
<1>5. OneEntry'
  BY DEF TypeOK, OneEntry, OneShotOnce, Entry
<1>6. Readds'
  BY DEF TypeOK, Readds
<1> QED
  BY <1>1, <1>2, <1>3, <1>4, <1>5, <1>6

LEMMA EraseTimerEventInv ==
  ASSUME TimerAssumption, IInv, NEW t \in Threads, EraseTimerEvent(t) /\ UNCHANGED users
  PROVE  IInv'
<1> USE DEF TimerAssumption, IInv, objects, timerfd, calling, locals
<1> USE DEF EraseTimerEvent
<1>a. m_pending_events' \subseteq m_pending_events
  BY DEF Later
<1>1. TypeOK'
  BY <1>a DEF TypeOK
<1>2. NeverEarly'
  BY DEF NeverEarly
<1>3. OneShotOnce'
  BY <1>a DEF OneShotOnce
<1>4. DeletedIsGone'
  <2>1. Entry(deleting[t]) \notin m_pending_events'
    BY DEF Later, Entry
  <2> QED
    BY <1>a, <2>1 DEF TypeOK, DeletedIsGone, OneEntry, Entry, Readds, NoEvent
<1>5. OneEntry'
  BY <1>a DEF OneEntry, Entry
<1>6. Readds'
  BY DEF TypeOK, Readds, NoEvent
<1> QED
  BY <1>1, <1>2, <1>3, <1>4, <1>5, <1>6

LEMMA ResetSnapshotInv ==
  ASSUME TimerAssumption, IInv, NEW t \in Threads, ResetSnapshot(t) /\ UNCHANGED users
  PROVE  IInv'
<1> USE DEF TimerAssumption, IInv, objects, timerfd, calling, locals
<1> USE DEF ResetSnapshot
<1>1. TypeOK'
  BY EarliestType DEF TypeOK
<1>2. NeverEarly'
  BY DEF TypeOK, NeverEarly
<1>3. OneShotOnce'
  BY DEF TypeOK, OneShotOnce, OneEntry, Entry
<1>4. DeletedIsGone'
  BY DEF TypeOK, DeletedIsGone, OneEntry, Entry
<1>5. OneEntry'
  BY DEF TypeOK, OneEntry, OneShotOnce, Entry
<1>6. Readds'
  BY EarliestType DEF TypeOK, Readds
<1> QED
  BY <1>1, <1>2, <1>3, <1>4, <1>5, <1>6

LEMMA ResetSettimeInv ==
  ASSUME TimerAssumption, IInv, NEW t \in Threads, ResetSettime(t) /\ UNCHANGED users
  PROVE  IInv'
<1> USE DEF TimerAssumption, IInv, objects, timerfd, calling, locals
<1> USE DEF ResetSettime, TimerfdSettime
<1>1. TypeOK'
  <2>1. missed' \in BOOLEAN
    BY Zenon DEF TypeOK
  <2>2. snapshot[t] \in Nat /\ clock \in Nat
    BY DEF TypeOK, Readds
  <2>3. CASE snapshot[t] < clock
    BY <2>1, <2>3 DEF TypeOK
  <2>4. CASE ~(snapshot[t] < clock)
    <3>1. snapshot[t] - clock \in Nat /\ clock + (snapshot[t] - clock) \in Nat
      BY <2>2, <2>4
    <3>2. armed' \in Nat \cup {NoTime} /\ expired' \in BOOLEAN
      BY <2>4, <3>1
    <3> QED
      BY <2>1, <3>2 DEF TypeOK
  <2> QED
    BY <2>3, <2>4
<1>2. NeverEarly'
  BY DEF TypeOK, NeverEarly
<1>3. OneShotOnce'
  BY DEF TypeOK, OneShotOnce, OneEntry, Entry
<1>4. DeletedIsGone'
  BY DEF TypeOK, DeletedIsGone, OneEntry, Entry
<1>5. OneEntry'
  BY DEF TypeOK, OneEntry, OneShotOnce, Entry
<1>6. Readds'
  BY DEF TypeOK, Readds
<1> QED
  BY <1>1, <1>2, <1>3, <1>4, <1>5, <1>6

LEMMA EpollReportsInv ==
  ASSUME TimerAssumption, IInv, EpollReports /\ UNCHANGED users
  PROVE  IInv'
<1> USE DEF TimerAssumption, IInv, objects, timerfd, calling, locals
<1> USE DEF EpollReports
<1>1. TypeOK'
  BY DEF TypeOK
<1>2. NeverEarly'
  BY DEF TypeOK, NeverEarly
<1>3. OneShotOnce'
  BY DEF TypeOK, OneShotOnce, OneEntry, Entry
<1>4. DeletedIsGone'
  BY DEF TypeOK, DeletedIsGone, OneEntry, Entry
<1>5. OneEntry'
  BY DEF TypeOK, OneEntry, OneShotOnce, Entry
<1>6. Readds'
  BY DEF TypeOK, Readds
<1> QED
  BY <1>1, <1>2, <1>3, <1>4, <1>5, <1>6

LEMMA DrainTimerfdInv ==
  ASSUME TimerAssumption, IInv, DrainTimerfd /\ UNCHANGED users
  PROVE  IInv'
<1> USE DEF TimerAssumption, IInv, objects, timerfd, calling, locals
<1> USE DEF DrainTimerfd
<1>1. TypeOK'
  BY DEF TypeOK
<1>2. NeverEarly'
  BY DEF TypeOK, NeverEarly
<1>3. OneShotOnce'
  BY DEF TypeOK, OneShotOnce, OneEntry, Entry
<1>4. DeletedIsGone'
  BY DEF TypeOK, DeletedIsGone, OneEntry, Entry
<1>5. OneEntry'
  BY DEF TypeOK, OneEntry, OneShotOnce, Entry
<1>6. Readds'
  BY DEF TypeOK, Readds
<1> QED
  BY <1>1, <1>2, <1>3, <1>4, <1>5, <1>6

LEMMA CollectInv ==
  ASSUME TimerAssumption, IInv, Collect /\ UNCHANGED users
  PROVE  IInv'
<1> USE DEF TimerAssumption, IInv, objects, timerfd, calling, locals
<1> USE DEF Collect, Collected, Due
<1>1. TypeOK'
  BY DEF TypeOK
<1>2. NeverEarly'
  BY DEF TypeOK, NeverEarly
<1>3. OneShotOnce'
  BY DEF TypeOK, OneShotOnce, OneEntry, Entry
<1>4. DeletedIsGone'
  BY DEF TypeOK, DeletedIsGone, OneEntry, Entry
<1>5. OneEntry'
  BY DEF TypeOK, OneEntry, OneShotOnce, Entry
<1>6. Readds'
  BY DEF TypeOK, Readds
<1> QED
  BY <1>1, <1>2, <1>3, <1>4, <1>5, <1>6

LEMMA ReinsertInv ==
  ASSUME TimerAssumption, IInv, Reinsert /\ UNCHANGED users
  PROVE  IInv'
<1> USE DEF TimerAssumption, IInv, objects, timerfd, calling, locals
<1> USE DEF Reinsert, Entry
<1>1. TypeOK'
  <2>1. readding \in Events
    BY DEF Readds
  <2>2. Entry(readding) \in Entries
    BY <2>1 DEF TypeOK
  <2> QED
    BY <2>2 DEF TypeOK
<1>2. NeverEarly'
  BY DEF TypeOK, NeverEarly
<1>3. OneShotOnce'
  BY DEF OneShotOnce, Readds
<1>4. DeletedIsGone'
  BY DEF DeletedIsGone, Readds
<1>5. OneEntry'
  BY DEF OneEntry, Readds
<1>6. Readds'
  BY DEF TypeOK, Readds
<1> QED
  BY <1>1, <1>2, <1>3, <1>4, <1>5, <1>6

LEMMA ReaddedInv ==
  ASSUME TimerAssumption, IInv, Readded /\ UNCHANGED users
  PROVE  IInv'
<1> USE DEF TimerAssumption, IInv, objects, timerfd, calling, locals
<1> USE DEF Readded
<1>1. TypeOK'
  BY DEF TypeOK
<1>2. NeverEarly'
  BY DEF TypeOK, NeverEarly
<1>3. OneShotOnce'
  BY DEF TypeOK, OneShotOnce, OneEntry, Entry
<1>4. DeletedIsGone'
  BY DEF TypeOK, DeletedIsGone, OneEntry, Entry
<1>5. OneEntry'
  BY DEF TypeOK, OneEntry, OneShotOnce, Entry
<1>6. Readds'
  BY DEF TypeOK, Readds
<1> QED
  BY <1>1, <1>2, <1>3, <1>4, <1>5, <1>6

LEMMA RunTaskInv ==
  ASSUME TimerAssumption, IInv, RunTask /\ UNCHANGED users
  PROVE  IInv'
<1> USE DEF TimerAssumption, IInv, objects, timerfd, calling, locals
<1> USE DEF RunTask
<1>1. TypeOK'
  BY DEF TypeOK
<1>2. NeverEarly'
  BY DEF TypeOK, NeverEarly
<1>3. OneShotOnce'
  BY DEF TypeOK, OneShotOnce, OneEntry, Entry
<1>4. DeletedIsGone'
  BY DEF TypeOK, DeletedIsGone, OneEntry, Entry
<1>5. OneEntry'
  BY DEF TypeOK, OneEntry, OneShotOnce, Entry
<1>6. Readds'
  BY DEF TypeOK, Readds
<1> QED
  BY <1>1, <1>2, <1>3, <1>4, <1>5, <1>6

LEMMA TaskReturnsInv ==
  ASSUME TimerAssumption, IInv, TaskReturns /\ UNCHANGED users
  PROVE  IInv'
<1> USE DEF TimerAssumption, IInv, objects, timerfd, calling, locals
<1> USE DEF TaskReturns
<1>1. TypeOK'
  BY DEF TypeOK
<1>2. NeverEarly'
  BY DEF TypeOK, NeverEarly
<1>3. OneShotOnce'
  BY DEF TypeOK, OneShotOnce, OneEntry, Entry
<1>4. DeletedIsGone'
  BY DEF TypeOK, DeletedIsGone, OneEntry, Entry
<1>5. OneEntry'
  BY DEF TypeOK, OneEntry, OneShotOnce, Entry
<1>6. Readds'
  BY DEF TypeOK, Readds
<1> QED
  BY <1>1, <1>2, <1>3, <1>4, <1>5, <1>6

LEMMA OnTimerReturnsInv ==
  ASSUME TimerAssumption, IInv, OnTimerReturns /\ UNCHANGED users
  PROVE  IInv'
<1> USE DEF TimerAssumption, IInv, objects, timerfd, calling, locals
<1> USE DEF OnTimerReturns
<1>1. TypeOK'
  BY DEF TypeOK
<1>2. NeverEarly'
  BY DEF TypeOK, NeverEarly
<1>3. OneShotOnce'
  BY DEF TypeOK, OneShotOnce, OneEntry, Entry
<1>4. DeletedIsGone'
  BY DEF TypeOK, DeletedIsGone, OneEntry, Entry
<1>5. OneEntry'
  BY DEF TypeOK, OneEntry, OneShotOnce, Entry
<1>6. Readds'
  BY DEF TypeOK, Readds
<1> QED
  BY <1>1, <1>2, <1>3, <1>4, <1>5, <1>6

LEMMA ResetTimeInv ==
  ASSUME TimerAssumption, IInv, NEW e \in Events, ResetTime(e) /\ UNCHANGED users
  PROVE  IInv'
<1> USE DEF TimerAssumption, IInv, objects, timerfd, calling, locals
<1> USE DEF ResetTime
<1>1. TypeOK'
  <2>1. clock + m_interval[e] \in Nat
    BY DEF TypeOK
  <2>2. CASE m_is_repeated[e]
    <3> DEFINE at == clock + m_interval[e]
    <3>1. at \in Nat /\ m_arrive_time' = [m_arrive_time EXCEPT ![e] = at]
      BY <2>1, <2>2
    <3>2. m_arrive_time' \in [Events -> Nat]
      <4> HIDE DEF at
      <4> QED
        BY <3>1 DEF TypeOK
    <3>3. m_is_canceled' \in [Events -> BOOLEAN]
      BY <2>2 DEF TypeOK
    <3> QED
      BY <2>2, <3>2, <3>3 DEF TypeOK
  <2>3. CASE ~m_is_repeated[e]
    BY <2>3 DEF TypeOK
  <2> QED
    BY <2>2, <2>3
<1>2. NeverEarly'
  BY DEF TypeOK, NeverEarly
<1>3. OneShotOnce'
  BY DEF TypeOK, OneShotOnce, OneEntry, Entry
<1>4. DeletedIsGone'
  BY DEF TypeOK, DeletedIsGone, OneEntry, Entry
<1>5. OneEntry'
  BY DEF TypeOK, OneEntry, Readds, Entry
<1>6. Readds'
  BY DEF TypeOK, Readds
<1> QED
  BY <1>1, <1>2, <1>3, <1>4, <1>5, <1>6

-----------------------------------------------------------------------------
LEMMA NextInv == TimerAssumption /\ IInv /\ [Next]_vars => IInv'
<1> SUFFICES ASSUME TimerAssumption, IInv, [Next]_vars PROVE IInv'
  OBVIOUS
<1>1. CASE Tick /\ UNCHANGED users
  BY <1>1, TickInv
<1>2. CASE OnTimer /\ UNCHANGED users
  BY <1>2, EpollReportsInv, DrainTimerfdInv, CollectInv, ReinsertInv, ReaddedInv, RunTaskInv,
     TaskReturnsInv, OnTimerReturnsInv, ResetTimeInv DEF OnTimer
<1>3. ASSUME NEW t \in Threads, CallSteps(t), UNCHANGED users PROVE IInv'
  BY <1>3, EraseTimerEventInv, ResetSnapshotInv, ResetSettimeInv DEF CallSteps
<1>4. ASSUME NEW t \in Threads, NewCalls(t), UNCHANGED users PROVE IInv'
  BY <1>4, MakeEventInv, AddTimerEventInv, DelTimerEventInv, CancelInv, CancelRepeatedInv
  DEF NewCalls
<1>5. CASE UNCHANGED vars
  <2> USE <1>5 DEF vars, objects, timerfd, calling, locals, IInv
  <2>1. TypeOK' /\ NeverEarly' /\ OneShotOnce' /\ Readds'
    BY DEF TypeOK, NeverEarly, OneShotOnce, Readds
  <2>2. DeletedIsGone' /\ OneEntry'
    BY DEF DeletedIsGone, OneEntry, Entry
  <2> QED
    BY <2>1, <2>2
<1> QED
  BY <1>1, <1>2, <1>3, <1>4, <1>5 DEF Next

(* IInv is the invariant; the theorems below are parts of it.              *)
THEOREM Invariant == Spec => []IInv
BY TimerAssumption, InitInv, NextInv, PTL DEF Spec

(* Every variable keeps its type: what resetArriveTime() copies has an     *)
(* earliest entry, and delTimerEvent looks for an event.                   *)
THEOREM TypeCorrect == Spec => []TypeOK
<1>1. IInv => TypeOK
  BY DEF IInv
<1> QED
  BY <1>1, Invariant, PTL

(* No task runs before its time, for any intervals and any calls.          *)
THEOREM RunsWhenDue == Spec => []NeverEarly
<1>1. IInv => NeverEarly
  BY DEF IInv
<1> QED
  BY <1>1, Invariant, PTL

(* A one-shot event runs at most once, and is then in no container: each   *)
(* has one entry at most, in the multimap or in the batch (OneEntry).      *)
THEOREM RunsOnce == Spec => []OneShotOnce
<1>1. IInv => OneShotOnce
  BY DEF IInv
<1> QED
  BY <1>1, Invariant, PTL

(* delTimerEvent leaves nothing of a one-shot event behind.                *)
THEOREM DeletionIsFinal == Spec => []DeletedIsGone
<1>1. IInv => DeletedIsGone
  BY DEF IInv
<1> QED
  BY <1>1, Invariant, PTL
==============================================================================
