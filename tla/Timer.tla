------------------------------- MODULE Timer -------------------------------
(***************************************************************************)
(* A reactor's Timer (src/src/network/timer.cpp): a multimap from arrival  *)
(* times to TimerEvents, one timerfd that is armed for the earliest, and   *)
(* the callback onTimer() that the loop thread runs when the timerfd is    *)
(* readable.  addTimerEvent and delTimerEvent are called from the loop     *)
(* thread (tasks, coroutines, the timer's own tasks) and from the threads  *)
(* that a coroutine of this reactor has moved to.                          *)
(*                                                                         *)
(* A critical section of m_event_mutex is one action; the clock may        *)
(* advance between any two.  The wall clock and the timerfd's clock tick   *)
(* together.                                                               *)
(***************************************************************************)
EXTENDS Integers, FiniteSets

CONSTANTS
  Events,       (* TimerEvent objects                                        *)
  m_interval,   (* of each event, ms                                         *)
  Repeated,     (* the events made with is_repeated                          *)
  Loop,         (* the loop thread                                           *)
  Others,       (* the other threads that may use this timer                 *)
  Calls,        (* the calls that threads make                               *)
  MaxTime       (* bound: the last instant of the clock                      *)

NoTime  == -1
NoEvent == "none"
Threads == Others \cup {Loop}

TimerAssumption ==
  /\ m_interval \in [Events -> Nat] /\ Repeated \subseteq Events
  /\ Loop \notin Others /\ NoEvent \notin Events
  /\ Calls \subseteq {"add", "del", "cancel", "cancelRepeated"}
  /\ MaxTime \in Nat

ASSUME TimerAssumption

VARIABLES
  users,               \* the other threads that use it
  clock,               \* getCurrentMs()
  stage,               \* of each event: not made, made, added, deleted
  m_arrive_time, m_is_canceled, m_is_repeated,
  m_pending_events,    \* the multimap, as a set of entries
  armed,               \* the instant the timerfd is set for
  expired,             \* the timerfd is readable
  thread_pc, snapshot, deleting,   \* each thread's call in progress
  loop_pc,             \* where the loop thread is
  tmps, tasks,         \* locals of onTimer()
  readding,            \* the repeated event onTimer() is adding again
  runs, missed         \* history: executions; a reset found its event due

objects == <<stage, m_arrive_time, m_is_canceled, m_is_repeated>>
timerfd == <<armed, expired>>
calling == <<thread_pc, snapshot, deleting>>
locals  == <<loop_pc, tmps, tasks, readding>>
vars == <<users, clock, objects, m_pending_events, timerfd, calling, locals, runs, missed>>

moves == <<objects, m_pending_events, timerfd, calling, locals>>

Entry(e) == [at |-> m_arrive_time[e], ev |-> e]
Entries == [at : Nat, ev : Events]
Earliest(s) == CHOOSE t \in {x.at : x \in s} : \A x \in s : t <= x.at

TypeOK ==
  /\ users \subseteq Others /\ clock \in Nat
  /\ stage \in [Events -> {"none", "made", "added", "deleted"}]
  /\ m_arrive_time \in [Events -> Nat]
  /\ m_is_canceled \in [Events -> BOOLEAN] /\ m_is_repeated \in [Events -> BOOLEAN]
  /\ m_pending_events \in SUBSET Entries
  /\ armed \in Nat \cup {NoTime} /\ expired \in BOOLEAN
  /\ thread_pc \in [Threads -> {"idle", "erase", "snapshot", "settime"}]
  /\ snapshot \in [Threads -> Nat \cup {NoTime}]
  /\ deleting \in [Threads -> Events \cup {NoEvent}]
  /\ loop_pc \in {"epoll", "onTimer", "collect", "readd", "insert", "tasks", "in_task"}
  /\ tmps \in SUBSET Events /\ tasks \in SUBSET Entries
  /\ readding \in Events \cup {NoEvent}
  /\ runs \in [Events -> Nat] /\ missed \in BOOLEAN

Init ==
  /\ users \in SUBSET Others
  /\ clock = 0
  /\ stage = [e \in Events |-> "none"]
  /\ m_arrive_time = [e \in Events |-> 0]
  /\ m_is_canceled = [e \in Events |-> FALSE]
  /\ m_is_repeated = [e \in Events |-> e \in Repeated]
  /\ m_pending_events = {}
  /\ armed = NoTime /\ expired = FALSE
  /\ thread_pc = [t \in Threads |-> "idle"]
  /\ snapshot = [t \in Threads |-> NoTime]
  /\ deleting = [t \in Threads |-> NoEvent]
  /\ loop_pc = "epoll" /\ tmps = {} /\ tasks = {} /\ readding = NoEvent
  /\ runs = [e \in Events |-> 0] /\ missed = FALSE

-----------------------------------------------------------------------------
(* The clock, and the kernel's timer *)

Tick ==
  /\ clock < MaxTime
  /\ clock' = clock + 1
  /\ LET fires == armed # NoTime /\ armed <= clock'
     IN  /\ expired' = (expired \/ fires)
         /\ armed' = IF fires THEN NoTime ELSE armed
  /\ UNCHANGED <<objects, m_pending_events, calling, locals, runs, missed>>

(* A thread makes a call when it makes no other; the loop thread is then   *)
(* outside onTimer() or in one of the tasks that onTimer() runs.           *)
MayCall(t) ==
  /\ thread_pc[t] = "idle"
  /\ IF t = Loop THEN loop_pc \in {"epoll", "in_task"} ELSE t \in users

(* The constructor of TimerEvent *)
MakeEvent(t, e) ==
  /\ MayCall(t) /\ stage[e] = "none"
  /\ stage' = [stage EXCEPT ![e] = "made"]
  /\ m_arrive_time' = [m_arrive_time EXCEPT ![e] = clock + m_interval[e]]
  /\ UNCHANGED <<clock, m_is_canceled, m_is_repeated, m_pending_events, timerfd, calling,
                 locals, runs, missed>>

IsEarliest(e) == \A x \in m_pending_events : m_arrive_time[e] < x.at

(* The critical section of addTimerEvent; the caller's need_reset is TRUE. *)
AddTimerEvent(t, e) ==
  /\ "add" \in Calls /\ MayCall(t) /\ stage[e] = "made"
  /\ stage' = [stage EXCEPT ![e] = "added"]
  /\ m_pending_events' = m_pending_events \cup {Entry(e)}
  /\ thread_pc' = [thread_pc EXCEPT ![t] = IF IsEarliest(e) THEN "snapshot" ELSE "idle"]
  /\ UNCHANGED <<clock, m_arrive_time, m_is_canceled, m_is_repeated, timerfd, snapshot,
                 deleting, locals, runs, missed>>

(* delTimerEvent raises m_is_canceled before it takes the lock.            *)
DelTimerEvent(t, e) ==
  /\ "del" \in Calls /\ MayCall(t) /\ stage[e] \in {"made", "added"}
  /\ stage' = [stage EXCEPT ![e] = "deleted"]
  /\ m_is_canceled' = [m_is_canceled EXCEPT ![e] = TRUE]
  /\ thread_pc' = [thread_pc EXCEPT ![t] = "erase"]
  /\ deleting' = [deleting EXCEPT ![t] = e]
  /\ UNCHANGED <<clock, m_arrive_time, m_is_repeated, m_pending_events, timerfd, snapshot,
                 locals, runs, missed>>

(* When the event is not found among the entries of its arrival time the   *)
(* iterator is left on the first later entry, and that one is erased.      *)
Later(e) == {x \in m_pending_events : x.at > m_arrive_time[e]}

(* Mutant: the entry at lower_bound is erased without comparing events.    *)
EraseLowerBound(t) ==
  /\ thread_pc[t] = "erase"
  /\ LET from == {x \in m_pending_events : x.at >= m_arrive_time[deleting[t]]} IN
     IF from = {} THEN UNCHANGED m_pending_events
     ELSE \E x \in from : /\ x.at = Earliest(from)
                          /\ m_pending_events' = m_pending_events \ {x}
  /\ thread_pc' = [thread_pc EXCEPT ![t] = "idle"]
  /\ deleting' = [deleting EXCEPT ![t] = NoEvent]
  /\ UNCHANGED <<clock, objects, timerfd, snapshot, locals, runs, missed>>

EraseTimerEvent(t) ==
  /\ thread_pc[t] = "erase"
  /\ LET e == deleting[t] IN
     IF Entry(e) \in m_pending_events
     THEN m_pending_events' = m_pending_events \ {Entry(e)}
     ELSE IF Later(e) = {} THEN UNCHANGED m_pending_events
     ELSE \E x \in Later(e) : /\ x.at = Earliest(Later(e))
                              /\ m_pending_events' = m_pending_events \ {x}
  /\ thread_pc' = [thread_pc EXCEPT ![t] = "idle"]
  /\ deleting' = [deleting EXCEPT ![t] = NoEvent]
  /\ UNCHANGED <<clock, objects, timerfd, snapshot, locals, runs, missed>>

(* TimerEvent::cancel() and cancelRepeated() set a flag and nothing else.  *)
Cancel(t, e) ==
  /\ "cancel" \in Calls /\ MayCall(t) /\ stage[e] = "added"
  /\ m_is_canceled' = [m_is_canceled EXCEPT ![e] = TRUE]
  /\ UNCHANGED <<clock, stage, m_arrive_time, m_is_repeated, m_pending_events, timerfd,
                 calling, locals, runs, missed>>

CancelRepeated(t, e) ==
  /\ "cancelRepeated" \in Calls /\ MayCall(t) /\ stage[e] = "added"
  /\ m_is_repeated' = [m_is_repeated EXCEPT ![e] = FALSE]
  /\ UNCHANGED <<clock, stage, m_arrive_time, m_is_canceled, m_pending_events, timerfd,
                 calling, locals, runs, missed>>

(* resetArriveTime copies the multimap under the lock, to use its earliest *)
(* entry ...                                                               *)
ResetSnapshot(t) ==
  /\ thread_pc[t] = "snapshot"
  /\ IF m_pending_events = {}
     THEN /\ thread_pc' = [thread_pc EXCEPT ![t] = "idle"]
          /\ UNCHANGED snapshot
     ELSE /\ thread_pc' = [thread_pc EXCEPT ![t] = "settime"]
          /\ snapshot' = [snapshot EXCEPT ![t] = Earliest(m_pending_events)]
  /\ UNCHANGED <<clock, objects, m_pending_events, timerfd, deleting, locals, runs, missed>>

(* ... and sets the timerfd outside it.  An earliest event in the past     *)
(* sets nothing; one that is due now has interval 0, which disarms.        *)
TimerfdSettime(interval) ==
  /\ armed' = IF interval = 0 THEN NoTime ELSE clock + interval
  /\ expired' = FALSE

ResetSettime(t) ==
  /\ thread_pc[t] = "settime"
  /\ LET first == snapshot[t] IN
     /\ IF first < clock THEN UNCHANGED timerfd ELSE TimerfdSettime(first - clock)
     /\ missed' = (missed \/ first <= clock)
  /\ thread_pc' = [thread_pc EXCEPT ![t] = "idle"]
  /\ snapshot' = [snapshot EXCEPT ![t] = NoTime]
  /\ UNCHANGED <<clock, objects, m_pending_events, deleting, locals, runs>>

-----------------------------------------------------------------------------
(* The loop thread: onTimer() *)

EpollReports ==
  /\ loop_pc = "epoll" /\ thread_pc[Loop] = "idle"
  /\ expired
  /\ loop_pc' = "onTimer"
  /\ UNCHANGED <<clock, objects, m_pending_events, timerfd, calling, tmps, tasks, readding,
                 runs, missed>>

DrainTimerfd ==
  /\ loop_pc = "onTimer" /\ loop_pc' = "collect"
  /\ expired' = FALSE
  /\ UNCHANGED <<clock, objects, m_pending_events, armed, calling, tmps, tasks, readding,
                 runs, missed>>

(* Mutant: an event is collected a millisecond before its time.            *)
DueSoon == {x \in m_pending_events : x.at <= clock + 1}

Due == {x \in m_pending_events : x.at <= clock}

(* The due entries from the front, up to the first that is canceled.       *)
Collected(batch) ==
  LET canceled == {x \in Due : m_is_canceled[x.ev]}
  IN  /\ batch \subseteq Due \ canceled
      /\ \A x \in Due \ canceled :
           /\ (\A y \in canceled : x.at < y.at) => x \in batch
           /\ (\E y \in canceled : y.at < x.at) => x \notin batch

Collect ==
  /\ loop_pc = "collect" /\ loop_pc' = "readd"
  /\ \E batch \in SUBSET Due :
       /\ Collected(batch)
       /\ m_pending_events' = m_pending_events \ batch
       /\ tasks' = batch
       /\ tmps' = {x.ev : x \in batch}
  /\ UNCHANGED <<clock, objects, timerfd, calling, readding, runs, missed>>

(* Mutant: every event of the batch is added again.                        *)
ResetTimeAlways(e) ==
  /\ loop_pc = "readd" /\ e \in tmps
  /\ tmps' = tmps \ {e}
  /\ m_arrive_time' = [m_arrive_time EXCEPT ![e] = clock + m_interval[e]]
  /\ m_is_canceled' = [m_is_canceled EXCEPT ![e] = FALSE]
  /\ readding' = e /\ loop_pc' = "insert"
  /\ UNCHANGED <<clock, stage, m_is_repeated, m_pending_events, timerfd, calling, tasks,
                 runs, missed>>

(* A repeated event of the batch gets a new arrival time and is no longer  *)
(* canceled; then it is inserted without a reset.                          *)
ResetTime(e) ==
  /\ loop_pc = "readd" /\ e \in tmps
  /\ tmps' = tmps \ {e}
  /\ IF m_is_repeated[e]
     THEN /\ m_arrive_time' = [m_arrive_time EXCEPT ![e] = clock + m_interval[e]]
          /\ m_is_canceled' = [m_is_canceled EXCEPT ![e] = FALSE]
          /\ readding' = e /\ loop_pc' = "insert"
     ELSE UNCHANGED <<m_arrive_time, m_is_canceled, readding, loop_pc>>
  /\ UNCHANGED <<clock, stage, m_is_repeated, m_pending_events, timerfd, calling, tasks,
                 runs, missed>>

Reinsert ==
  /\ loop_pc = "insert" /\ loop_pc' = "readd"
  /\ m_pending_events' = m_pending_events \cup {Entry(readding)}
  /\ readding' = NoEvent
  /\ UNCHANGED <<clock, objects, timerfd, calling, tmps, tasks, runs, missed>>

(* Mutant: onTimer() runs the tasks without resetting the timerfd.         *)
ReaddedWithoutReset ==
  /\ loop_pc = "readd" /\ tmps = {}
  /\ loop_pc' = "tasks"
  /\ UNCHANGED <<clock, objects, m_pending_events, timerfd, calling, tmps, tasks, readding,
                 runs, missed>>

(* onTimer() calls resetArriveTime() and then runs the tasks.              *)
Readded ==
  /\ loop_pc = "readd" /\ tmps = {}
  /\ loop_pc' = "tasks"
  /\ thread_pc' = [thread_pc EXCEPT ![Loop] = "snapshot"]
  /\ UNCHANGED <<clock, objects, m_pending_events, timerfd, snapshot, deleting, tmps, tasks,
                 readding, runs, missed>>

RunTask ==
  /\ loop_pc = "tasks" /\ thread_pc[Loop] = "idle" /\ loop_pc' = "in_task"
  /\ \E x \in tasks :
       /\ \A y \in tasks : x.at <= y.at
       /\ tasks' = tasks \ {x}
       /\ runs' = [runs EXCEPT ![x.ev] = @ + 1]
  /\ UNCHANGED <<clock, objects, m_pending_events, timerfd, calling, tmps, readding, missed>>

TaskReturns ==
  /\ loop_pc = "in_task" /\ thread_pc[Loop] = "idle" /\ loop_pc' = "tasks"
  /\ UNCHANGED <<clock, objects, m_pending_events, timerfd, calling, tmps, tasks, readding,
                 runs, missed>>

OnTimerReturns ==
  /\ loop_pc = "tasks" /\ thread_pc[Loop] = "idle" /\ tasks = {}
  /\ loop_pc' = "epoll"
  /\ UNCHANGED <<clock, objects, m_pending_events, timerfd, calling, tmps, tasks, readding,
                 runs, missed>>

-----------------------------------------------------------------------------
CallSteps(t) == EraseTimerEvent(t) \/ ResetSnapshot(t) \/ ResetSettime(t)

NewCalls(t) == \E e \in Events :
  \/ MakeEvent(t, e) \/ AddTimerEvent(t, e) \/ DelTimerEvent(t, e)
  \/ Cancel(t, e) \/ CancelRepeated(t, e)

OnTimer ==
  \/ EpollReports \/ DrainTimerfd \/ Collect \/ Reinsert \/ Readded
  \/ RunTask \/ TaskReturns \/ OnTimerReturns
  \/ \E e \in Events : ResetTime(e)

Next ==
  /\ Tick \/ OnTimer \/ \E t \in Threads : CallSteps(t) \/ NewCalls(t)
  /\ UNCHANGED users

Spec == Init /\ [][Next]_vars

(* Time passes, a call that began is finished, and the loop thread serves  *)
(* a readable timerfd.                                                     *)
FairSpec ==
  /\ Spec /\ WF_clock(Tick) /\ WF_moves(OnTimer)
  /\ \A t \in Threads : WF_moves(CallSteps(t))

-----------------------------------------------------------------------------
(* No task runs before the arrival time its event was added with: what     *)
(* onTimer() has collected is due, whatever threads add meanwhile.         *)
NeverEarly == \A x \in tasks : x.at <= clock

(* An event that is not repeated runs at most once, and once it runs or is *)
(* about to nothing is left of it in the multimap.                         *)
OneShotOnce ==
  \A e \in Events \ Repeated :
    /\ runs[e] <= 1
    /\ runs[e] = 1 => \A x \in m_pending_events \cup tasks : x.ev # e
    /\ \A x \in tasks : x.ev = e => \A y \in m_pending_events : y.ev # e

(* Deleting an event takes its entry out for good: a one-shot event whose  *)
(* delTimerEvent has returned is not pending, in whatever order the        *)
(* deletion, an onTimer() and a reset come.                                *)
DeletedIsGone ==
  \A e \in Events \ Repeated :
    stage[e] = "deleted" /\ (\A t \in Threads : deleting[t] # e)
      => \A x \in m_pending_events : x.ev # e

(* "when time arrive, m_task execute" (timer.h:67): an added event does    *)
(* not stay pending for ever once its time has come, unless some           *)
(* resetArriveTime() found its event already due, or other threads use the *)
(* timer and reset it too.                                                 *)
DueEventsRunUnlessMissed ==
  \A e \in Events : (\E x \in m_pending_events : x.ev = e /\ x.at <= clock)
                      ~> (Entry(e) \notin m_pending_events \/ missed \/ users # {})
=============================================================================
