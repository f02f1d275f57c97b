--------------------------- MODULE ReactorProofs ---------------------------
(***************************************************************************)
(* Theorems about one reactor, for every set of threads, tasks and         *)
(* descriptors and for both types of reactor.                              *)
(***************************************************************************)
EXTENDS Reactor, SequenceTheorems, TLAPS

USE DEF Elements, Callbacks, IOEvents, EpollEvents, NotRegistered, WakeEvent, NoFd

-----------------------------------------------------------------------------
(* Lemmas about the operators that several actions use *)

LEMMA AddEventType ==
  ASSUME TypeOK, NEW fd \in Fds, NEW ev \in SUBSET IOEvents,
         addEventInLoopThread(fd, EventsOf(fd, ev))
  PROVE  /\ m_fds' \in SUBSET Fds /\ epoll' \in [Fds -> EpollEvents \cup {NotRegistered}]
         /\ hung_up' \in SUBSET Fds
BY DEF TypeOK, addEventInLoopThread, EventsOf

LEMMA DelEventType ==
  ASSUME TypeOK, NEW fd \in Fds, delEventInLoopThread(fd)
  PROVE  m_fds' \in SUBSET Fds /\ epoll' \in [Fds -> EpollEvents \cup {NotRegistered}]
BY DEF TypeOK, delEventInLoopThread

LEMMA PushTaskType ==
  ASSUME TypeOK, NEW e \in Elements, PushTask(e)
  PROVE  m_pending_tasks' \in Seq(Elements) /\ pushed' \in Seq(Elements)
BY DEF TypeOK, PushTask

LEMMA ResumeType ==
  ASSUME TypeOK, NEW fd \in CorFds, resume(fd)
  PROVE  /\ m_fds' \in SUBSET Fds /\ epoll' \in [Fds -> EpollEvents \cup {NotRegistered}]
         /\ hung_up' \in SUBSET Fds /\ waiting' \in SUBSET CorFds
<1>1. fd \in Fds
  BY ReactorAssumption DEF ReactorAssumption
<1>2. PICK ev \in SUBSET IOEvents : addEventInLoopThread(fd, EventsOf(fd, ev))
  BY DEF resume
<1>3. waiting' \in SUBSET CorFds
  BY DEF resume, TypeOK
<1> QED BY <1>1, <1>2, <1>3, AddEventType

UserVarsOK ==
  /\ m_stop_flag \in BOOLEAN /\ wake_fd \in BOOLEAN
  /\ m_pending_tasks \in Seq(Elements) /\ pushed \in Seq(Elements)
  /\ m_fds \in SUBSET Fds /\ epoll \in [Fds -> EpollEvents \cup {NotRegistered}]
  /\ hung_up \in SUBSET Fds
  /\ waiting \in SUBSET CorFds /\ owner \in [CorFds -> {"self", "other", "none"}]

LEMMA UserCodeType ==
  ASSUME TypeOK, UserCode
  PROVE  UserVarsOK'
<1>1. CASE UNCHANGED <<m_stop_flag, queues, wake_fd, kernel, cors>>
  BY <1>1 DEF TypeOK, UserVarsOK, queues, kernel, cors
<1>2. CASE /\ \E t \in Tasks : PushTask(t)
           /\ wakeup /\ UNCHANGED <<m_stop_flag, kernel, cors>>
  BY <1>2, PushTaskType DEF TypeOK, UserVarsOK, kernel, cors, wakeup
<1>3. CASE /\ \E fd \in CallbackFds, events \in SUBSET IOEvents :
                addEventInLoopThread(fd, EventsOf(fd, events))
           /\ UNCHANGED <<m_stop_flag, queues, wake_fd, cors>>
  BY <1>3, AddEventType, ReactorAssumption
     DEF TypeOK, UserVarsOK, queues, cors, ReactorAssumption
<1>4. CASE /\ \E fd \in CallbackFds : delEventInLoopThread(fd)
           /\ UNCHANGED <<hung_up, m_stop_flag, queues, wake_fd, cors>>
  BY <1>4, DelEventType, ReactorAssumption
     DEF TypeOK, UserVarsOK, queues, cors, ReactorAssumption
<1>5. CASE /\ m_stop_flag' = TRUE /\ wakeup
           /\ UNCHANGED <<queues, kernel, cors>>
  BY <1>5 DEF TypeOK, UserVarsOK, queues, kernel, cors, wakeup
<1>6. CASE /\ StartCoroutine
           /\ UNCHANGED <<m_stop_flag, queues, wake_fd>>
  <2>1. PICK fd \in CorFds : /\ owner' = [owner EXCEPT ![fd] = "self"]
                             /\ waiting' = waiting \cup {fd}
                             /\ addEventInLoopThread(fd, EventsOf(fd, {"read"}))
    BY <1>6 DEF StartCoroutine
  <2>2. fd \in Fds /\ {"read"} \in SUBSET IOEvents
    BY ReactorAssumption DEF ReactorAssumption
  <2> QED BY <1>6, <2>1, <2>2, AddEventType DEF TypeOK, UserVarsOK, queues
<1> QED BY <1>1, <1>2, <1>3, <1>4, <1>5, <1>6 DEF UserCode

-----------------------------------------------------------------------------
(* The type invariant *)

LEMMA InitType == Init => TypeOK
<1> SUFFICES ASSUME Init PROVE TypeOK
  OBVIOUS
<1>1. epoll \in [Fds -> EpollEvents \cup {NotRegistered}]
  BY DEF Init
<1>2. /\ m_pending_tasks \in Seq(Elements) /\ tmp_tasks \in Seq(Elements)
      /\ pushed \in Seq(Elements) /\ executed \in Seq(Elements)
      /\ m_pending_del_fds \in Seq(Fds) /\ coroutine_tasks \in Seq(CorFds)
  BY DEF Init
<1>3. owner \in [CorFds -> {"self", "other", "none"}] /\ caller_pc \in [Callers -> {"idle", "wakeup"}]
  BY DEF Init
<1> QED BY <1>1, <1>2, <1>3 DEF Init, TypeOK

LEMMA CallersType == ASSUME TypeOK, CallerSteps PROVE TypeOK'
<1>0. PICK c \in Callers : addTask(c) \/ addEvent(c) \/ delEvent(c) \/ stop(c) \/ Wakeup(c)
  BY DEF CallerSteps
<1>1. CASE addTask(c)
  BY <1>1, PushTaskType
     DEF addTask, TypeOK, flags, fdreqs, kernel, cors
<1>2. CASE addEvent(c)
  <2>1. PICK fd \in ForeignFds : InsertPendingAdd(fd, {"read"})
                                 /\ waiting' = waiting \cup (CorFds \cap {fd})
    BY <1>2 DEF addEvent
  <2>a. fd \in Fds
    BY ReactorAssumption DEF ReactorAssumption
  <2>b. EventsOf(fd, {"read"}) \in EpollEvents
    BY <2>a DEF EventsOf
  <2>2. m_pending_add_fds' \in SUBSET EpollEvents /\ waiting' \in SUBSET CorFds
    BY <2>1, <2>b DEF TypeOK, InsertPendingAdd
  <2>3. UNCHANGED <<flags, queues, m_pending_del_fds, kernel, wake_fd, loop_pc, tmp_tasks,
                    re_events, first_coroutine, owner, coroutine_tasks, executed>>
    BY <1>2 DEF addEvent
  <2>4. caller_pc' \in [Callers -> {"idle", "wakeup"}]
    BY <1>2 DEF addEvent, TypeOK
  <2> QED BY <2>2, <2>3, <2>4 DEF TypeOK, flags, queues, kernel
<1>3. CASE delEvent(c)
  BY <1>3, ReactorAssumption
     DEF ReactorAssumption, delEvent, TypeOK, flags, queues, kernel, cors
<1>4. CASE stop(c)
  BY <1>4 DEF stop, TypeOK, queues, fdreqs, kernel, cors
<1>5. CASE Wakeup(c)
  BY <1>5 DEF Wakeup, wakeup, TypeOK, flags, queues, fdreqs, kernel, cors
<1> QED BY <1>0, <1>1, <1>2, <1>3, <1>4, <1>5

LEMMA OthersType == ASSUME TypeOK, OtherReactors PROVE TypeOK'
<1>1. ASSUME NEW fd \in CorFds, OtherBlocks(fd) PROVE TypeOK'
  BY <1>1 DEF OtherBlocks, OtherUnchanged, TypeOK, flags, queues, fdreqs, kernel
<1>2. ASSUME NEW fd \in CorFds, OtherPushes(fd) PROVE TypeOK'
  BY <1>2 DEF OtherPushes, OtherUnchanged, TypeOK, flags, queues, fdreqs, kernel
<1>3. ASSUME OtherSteals PROVE TypeOK'
  BY <1>3 DEF OtherSteals, OtherUnchanged, TypeOK, flags, queues, fdreqs, kernel
<1> QED BY <1>1, <1>2, <1>3 DEF OtherReactors

LEMMA DispatchType == ASSUME TypeOK, Dispatch PROVE TypeOK'
<1> USE DEF LoopUnchanged, fdreqs
<1>0. PICK e \in re_events \ {WakeEvent} :
        DispatchUnknown(e) \/ DispatchCoroutine(e) \/ DispatchCallback(e)
  BY DEF Dispatch
<1>a. e \in EpollEvents /\ e.ptr \in Fds /\ e.events \in SUBSET IOEvents
  BY <1>0 DEF TypeOK
<1>b. UNCHANGED <<m_reactor_type, m_is_looping, loop_pc, tmp_tasks, executed,
                  m_pending_add_fds, m_pending_del_fds, caller_pc>>
  BY DEF Dispatch
<1>1. CASE DispatchUnknown(e)
  BY <1>1, <1>a, <1>b, DelEventType DEF DispatchUnknown, TypeOK, queues, cors
<1>2. CASE DispatchCoroutine(e)
  <2>0. e.ptr \in CorFds /\ re_events' = re_events \ {e}
        /\ UNCHANGED <<m_stop_flag, queues, wake_fd>>
    BY <1>2 DEF DispatchCoroutine, TypeOK
  <2>1. CASE first_coroutine' = e.ptr /\ UNCHANGED <<kernel, cors, coroutine_tasks>>
    BY <2>0, <2>1, <1>b DEF TypeOK, queues, kernel, cors
  <2>2. CASE /\ delEventInLoopThread(e.ptr)
             /\ owner' = [owner EXCEPT ![e.ptr] = "none"]
             /\ coroutine_tasks' = Append(coroutine_tasks, e.ptr)
             /\ UNCHANGED <<hung_up, first_coroutine, waiting>>
    BY <2>0, <2>2, <1>a, <1>b, DelEventType DEF TypeOK, queues
  <2>3. CASE resume(e.ptr) /\ first_coroutine' = NoFd /\ UNCHANGED <<owner, coroutine_tasks>>
    BY <2>0, <2>3, <1>b, ResumeType DEF TypeOK, queues
  <2> QED BY <1>2, <2>1, <2>2, <2>3 DEF DispatchCoroutine
<1>3. CASE DispatchCallback(e)
  <2>0. UNCHANGED <<first_coroutine, coroutine_tasks>>
    BY <1>3 DEF DispatchCallback
  <2>1. CASE re_events' = re_events \ {e} /\ UserCode
    BY <2>0, <2>1, <1>b, UserCodeType DEF TypeOK, UserVarsOK
  <2>2. CASE re_events' = re_events \ {e}
             /\ UNCHANGED <<m_stop_flag, queues, wake_fd, kernel, cors>>
    BY <2>0, <2>2, <1>b DEF TypeOK, queues, kernel, cors
  <2>3. CASE /\ LET event == IF "read" \in e.events THEN "read" ELSE "write"
                    rest  == e.events \ {event}
                IN  /\ PushTask(<<e.ptr, event>>)
                    /\ re_events' = (re_events \ {e})
                         \cup (IF rest = {} THEN {} ELSE {EventsOf(e.ptr, rest)})
             /\ UNCHANGED <<m_stop_flag, wake_fd, kernel, cors>>
    <3> DEFINE event == IF "read" \in e.events THEN "read" ELSE "write"
               rest  == e.events \ {event}
    <3>1. <<e.ptr, event>> \in Elements /\ rest \in SUBSET IOEvents
      BY <1>a
    <3>2. EventsOf(e.ptr, rest) \in EpollEvents
      BY <3>1, <1>a DEF EventsOf
    <3>3. re_events' \in SUBSET ({WakeEvent} \cup EpollEvents)
      BY <2>3, <3>2 DEF TypeOK
    <3>4. PushTask(<<e.ptr, event>>)
      BY <2>3
    <3> QED BY <2>0, <2>3, <3>1, <3>3, <3>4, <1>b, PushTaskType DEF TypeOK, kernel, cors
  <2> QED BY <1>3, <2>1, <2>2, <2>3 DEF DispatchCallback
<1> QED BY <1>0, <1>1, <1>2, <1>3

LEMMA LoopType == ASSUME TypeOK, LoopSteps PROVE TypeOK'
<1> USE DEF LoopUnchanged, flags, queues, fdreqs, kernel, cors
<1>1. CASE LoopEnter
  BY <1>1 DEF LoopEnter, TypeOK
<1>2. CASE LoopReset
  BY <1>2 DEF LoopReset, TypeOK
<1>3. CASE LoopEnd
  BY <1>3 DEF LoopEnd, TypeOK
<1>4. CASE LoopBegin
  <2>1. UserVarsOK'
    BY <1>4, ResumeType DEF LoopBegin, TypeOK, UserVarsOK
  <2> QED BY <1>4, <2>1, ReactorAssumption
          DEF ReactorAssumption, LoopBegin, TypeOK, UserVarsOK
<1>5. CASE StealCoroutine
  <2>1. CASE coroutine_tasks = <<>>
    BY <1>5, <2>1 DEF StealCoroutine, TypeOK
  <2>2. CASE coroutine_tasks # <<>>
    <3>1. Head(coroutine_tasks) \in CorFds /\ Tail(coroutine_tasks) \in Seq(CorFds)
      BY <2>2 DEF TypeOK
    <3> QED BY <1>5, <2>2, <3>1, ResumeType DEF StealCoroutine, TypeOK
  <2> QED BY <2>1, <2>2
<1>6. CASE SwapTasks
  BY <1>6 DEF SwapTasks, TypeOK
<1>7. CASE RunTask
  <2>1. Head(tmp_tasks) \in Elements /\ Tail(tmp_tasks) \in Seq(Elements)
    BY <1>7 DEF RunTask, TypeOK
  <2> QED BY SMTT(30), <1>7, <2>1, UserCodeType DEF RunTask, TypeOK, UserVarsOK
<1>8. CASE TasksDone
  BY <1>8 DEF TasksDone, TypeOK
<1>9. CASE EpollReturns
  <2>1. PICK batch \in SUBSET ReadySources : re_events' = batch
    BY <1>9 DEF EpollReturns
  <2>2. ASSUME NEW f \in Fds, epoll[f] # NotRegistered
        PROVE  Reports(epoll[f]) \subseteq EpollEvents
    <3>1. epoll[f] \in EpollEvents
      BY <2>2 DEF TypeOK
    <3>2. ASSUME NEW ev \in SUBSET epoll[f].events
          PROVE  EventsOf(epoll[f].ptr, ev) \in EpollEvents
      BY <3>1 DEF EventsOf
    <3> QED BY <3>2 DEF Reports
  <2>3. ReadySources \subseteq {WakeEvent} \cup EpollEvents
    BY <2>2 DEF ReadySources
  <2> QED BY <1>9, <2>1, <2>3 DEF EpollReturns, TypeOK
<1>10. CASE EpollTimeout
  BY <1>10 DEF EpollTimeout, TypeOK
<1>11. CASE DrainWakeFd
  BY <1>11 DEF DrainWakeFd, TypeOK
<1>12. CASE Dispatch
  BY <1>12, DispatchType
<1>13. CASE DispatchDone
  BY <1>13 DEF DispatchDone, TypeOK
<1>14. CASE PendingFds
  <2> DEFINE key(e) == PendingAddKey(e.ptr)
             adds   == {e \in m_pending_add_fds :
                          (key(e) \in m_fds) = (epoll[key(e)] # NotRegistered)}
             added  == [f \in Fds |-> IF \E e \in adds : key(e) = f
                                      THEN CHOOSE e \in adds : key(e) = f ELSE epoll[f]]
             fds    == m_fds \cup {key(e) : e \in adds}
             dels   == Elems(m_pending_del_fds) \cap fds
  <2>1. adds \subseteq EpollEvents /\ epoll \in [Fds -> EpollEvents \cup {NotRegistered}]
    BY DEF TypeOK
  <2>2. added \in [Fds -> EpollEvents \cup {NotRegistered}]
    <3> SUFFICES ASSUME NEW f \in Fds PROVE added[f] \in EpollEvents \cup {NotRegistered}
      OBVIOUS
    <3>1. CASE \E e \in adds : key(e) = f
      <4> HIDE DEF adds, key
      <4>1. (CHOOSE e \in adds : key(e) = f) \in adds
        BY <3>1
      <4> QED BY <3>1, <4>1, <2>1
    <3>2. CASE ~ \E e \in adds : key(e) = f
      BY <3>2, <2>1
    <3> QED BY <3>1, <3>2
  <2>3. fds \in SUBSET Fds
    BY ReactorAssumption DEF ReactorAssumption, PendingAddKey, TypeOK
  <2>4. /\ epoll' = [f \in Fds |-> IF f \in dels THEN NotRegistered ELSE added[f]]
        /\ m_fds' = fds \ dels
    BY <1>14 DEF PendingFds
  <2>5. epoll' \in [Fds -> EpollEvents \cup {NotRegistered}] /\ m_fds' \in SUBSET Fds
    <3> HIDE DEF added, fds, dels
    <3> QED BY <2>2, <2>3, <2>4
  <2> HIDE DEF added, fds, dels, adds, key
  <2> QED BY <1>14, <2>5 DEF PendingFds, TypeOK
<1> QED BY <1>1, <1>2, <1>3, <1>4, <1>5, <1>6, <1>7, <1>8, <1>9, <1>10, <1>11, <1>12, <1>13,
           <1>14 DEF LoopSteps, LoopRuns

LEMMA NextType == TypeOK /\ [Next]_vars => TypeOK'
<1> SUFFICES ASSUME TypeOK, [Next]_vars PROVE TypeOK'
  OBVIOUS
<1>1. CASE Next
  BY <1>1, CallersType, OthersType, LoopType DEF Next
<1>2. CASE UNCHANGED vars
  BY <1>2 DEF vars, flags, queues, fdreqs, kernel, cors, TypeOK
<1> QED BY <1>1, <1>2

(* Every variable keeps its type, whatever the threads do in any order:    *)
(* the fds the loop resumes have a coroutine's FdEvent, the queues hold    *)
(* what their consumers expect.                                            *)
THEOREM TypeCorrect == Spec => []TypeOK
BY InitType, NextType, PTL DEF Spec

-----------------------------------------------------------------------------
(* No lost wakeup *)

Woken == wake_fd \/ \E c \in Callers : caller_pc[c] = "wakeup"

(* NoLostWakeup is about epoll_wait only.  What keeps it is the order of   *)
(* the loop: m_is_looping is raised before the tasks are taken, the stop   *)
(* flag is read before them, and the eventfd is drained only after         *)
(* epoll_wait, so that whoever comes later finds m_is_looping raised.      *)
WakeInv ==
  /\ loop_pc \in {"tasks", "epoll_wait"} /\ m_pending_tasks # <<>> => Woken
  /\ loop_pc \in {"steal", "swap", "tasks", "epoll_wait"} /\ m_stop_flag => Woken
  /\ loop_pc \notin {"created", "ended"} => m_is_looping

LEMMA UserCodeWakes ==
  ASSUME UserCode, m_is_looping
  PROVE  /\ m_pending_tasks' = m_pending_tasks \/ wake_fd'
         /\ m_stop_flag' = m_stop_flag \/ wake_fd'
         /\ wake_fd => wake_fd'
<1>1. wakeup => wake_fd'
  BY DEF wakeup
<1>2. wake_fd' \/ UNCHANGED <<m_pending_tasks, wake_fd, m_stop_flag>>
  BY <1>1 DEF UserCode, queues
<1> QED BY <1>2

LEMMA CallersWake == ASSUME TypeOK, WakeInv, CallerSteps PROVE WakeInv'
<1>0. PICK c \in Callers : addTask(c) \/ addEvent(c) \/ delEvent(c) \/ stop(c) \/ Wakeup(c)
  BY DEF CallerSteps
<1>1. CASE addTask(c) \/ addEvent(c) \/ delEvent(c) \/ stop(c)
  <2>1. caller_pc'[c] = "wakeup" /\ UNCHANGED <<loop_pc, m_is_looping>>
    BY <1>1 DEF addTask, addEvent, delEvent, stop, TypeOK, flags
  <2> QED BY <2>1 DEF WakeInv, Woken
<1>2. CASE Wakeup(c)
  <2>1. /\ UNCHANGED <<loop_pc, m_is_looping, m_stop_flag, m_pending_tasks>>
        /\ wake_fd' = (wake_fd \/ m_is_looping)
    BY <1>2 DEF Wakeup, wakeup, flags, queues
  <2>2. CASE loop_pc \in {"created", "ended"}
    BY <2>1, <2>2 DEF WakeInv
  <2>3. CASE loop_pc \notin {"created", "ended"}
    <3>1. m_is_looping
      BY <2>3 DEF WakeInv
    <3>2. wake_fd' /\ m_is_looping'
      BY <2>1, <3>1
    <3> QED BY <3>2 DEF WakeInv, Woken
  <2> QED BY <2>2, <2>3
<1> QED BY <1>0, <1>1, <1>2

LEMMA LoopWakes == ASSUME TypeOK, WakeInv, LoopSteps PROVE WakeInv'
<1> USE DEF LoopUnchanged, flags, queues
<1>1. CASE LoopEnter \/ LoopReset \/ LoopEnd \/ TasksDone
  BY <1>1 DEF LoopEnter, LoopReset, LoopEnd, TasksDone, WakeInv, Woken
<1>2. CASE LoopBegin \/ StealCoroutine \/ SwapTasks
  BY <1>2 DEF LoopBegin, StealCoroutine, SwapTasks, WakeInv, Woken
<1>3. CASE RunTask
  <2>1. loop_pc = "tasks" /\ m_is_looping /\ UserCode
        /\ UNCHANGED <<loop_pc, m_is_looping, caller_pc>>
    BY <1>3 DEF RunTask, WakeInv
  <2>2. CASE wake_fd'
    BY <2>1, <2>2 DEF WakeInv, Woken
  <2>3. CASE ~wake_fd'
    <3>1. UNCHANGED <<m_pending_tasks, m_stop_flag>> /\ ~wake_fd
      BY <2>1, <2>3, UserCodeWakes
    <3> QED BY <2>1, <3>1 DEF WakeInv, Woken
  <2> QED BY <2>2, <2>3
<1>4. CASE EpollReturns \/ EpollTimeout \/ DrainWakeFd \/ DispatchDone \/ PendingFds
  BY <1>4 DEF EpollReturns, EpollTimeout, DrainWakeFd, DispatchDone, PendingFds, WakeInv
<1>5. CASE Dispatch
  BY <1>5 DEF Dispatch, WakeInv
<1> QED BY <1>1, <1>2, <1>3, <1>4, <1>5 DEF LoopSteps, LoopRuns

LEMMA NextWakes == TypeOK /\ WakeInv /\ [Next]_vars => WakeInv'
<1> SUFFICES ASSUME TypeOK, WakeInv, [Next]_vars PROVE WakeInv'
  OBVIOUS
<1>1. CASE OtherReactors
  BY <1>1 DEF OtherReactors, OtherBlocks, OtherPushes, OtherSteals, OtherUnchanged, WakeInv,
              Woken, flags, queues
<1>2. CASE UNCHANGED vars
  BY <1>2 DEF vars, flags, queues, WakeInv, Woken
<1> QED BY <1>1, <1>2, CallersWake, LoopWakes DEF Next

(* Whoever hands the reactor a task, or stops it, while the loop blocks in *)
(* epoll_wait has written the eventfd or is about to: for any number of    *)
(* threads, in any interleaving with loop().                               *)
THEOREM WakeupNotLost == Spec => []NoLostWakeup
<1>1. Init => WakeInv
  BY DEF Init, WakeInv
<1>2. WakeInv => NoLostWakeup
  BY DEF WakeInv, NoLostWakeup, Woken
<1> QED BY <1>1, <1>2, NextWakes, TypeCorrect, PTL DEF Spec

-----------------------------------------------------------------------------
(* Tasks in order, and the refinement of Executor *)

LEMMA MoveHead ==
  ASSUME NEW S, NEW a \in Seq(S), NEW b \in Seq(S), NEW c \in Seq(S), b # <<>>
  PROVE  Append(a, Head(b)) \o Tail(b) \o c = a \o b \o c
<1>1. Append(a, Head(b)) \o Tail(b) = a \o b
  BY SMTT(30)
<1> QED BY <1>1

LEMMA HeadAt ==
  ASSUME NEW S, NEW a \in Seq(S), NEW b \in Seq(S), NEW c \in Seq(S), b # <<>>
  PROVE  /\ Len(a) < Len(a \o b \o c)
         /\ (a \o b \o c)[Len(a) + 1] = Head(b)
OBVIOUS

(* The executed, the taken and the pending tasks make up what was pushed;  *)
(* the loop's vector is empty outside the loop over it.                    *)
OrderInv ==
  /\ TasksInOrder
  /\ loop_pc # "tasks" => tmp_tasks = <<>>

LEMMA PushKeepsOrder ==
  ASSUME TypeOK, OrderInv, NEW e \in Elements, PushTask(e)
  PROVE  pushed' = executed \o tmp_tasks \o m_pending_tasks'
<1> HIDE DEF Elements
<1>e. e \in Elements
  OBVIOUS
<1>1. executed \in Seq(Elements) /\ tmp_tasks \in Seq(Elements)
      /\ m_pending_tasks \in Seq(Elements)
  BY DEF TypeOK
<1>2. Append(executed \o tmp_tasks \o m_pending_tasks, e)
        = executed \o tmp_tasks \o Append(m_pending_tasks, e)
  <2>1. /\ executed \o tmp_tasks \in Seq(Elements) /\ <<e>> \in Seq(Elements)
        /\ executed \o tmp_tasks \o m_pending_tasks \in Seq(Elements)
    BY <1>1, <1>e
  <2>2. Append(executed \o tmp_tasks \o m_pending_tasks, e)
          = (executed \o tmp_tasks \o m_pending_tasks) \o <<e>>
    BY <1>e, <2>1, AppendIsConcat
  <2>3. Append(m_pending_tasks, e) = m_pending_tasks \o <<e>>
    BY <1>1, <1>e, AppendIsConcat
  <2> QED BY SMTT(30), <1>1, <2>1, <2>2, <2>3, ConcatAssociative
<1>3. pushed = executed \o tmp_tasks \o m_pending_tasks
  BY DEF OrderInv, TasksInOrder
<1>4. pushed' = Append(pushed, e) /\ m_pending_tasks' = Append(m_pending_tasks, e)
  BY DEF PushTask
<1> QED BY <1>2, <1>3, <1>4

(* What user code does to the queue is nothing, or one push.               *)
LEMMA UserCodePushes ==
  ASSUME UserCode
  PROVE  UNCHANGED queues \/ \E e \in Elements : PushTask(e)
<1>1. UNCHANGED queues \/ \E t \in Tasks : PushTask(t)
  <2> HIDE DEF Elements
  <2> QED BY Zenon DEF UserCode, queues
<1> QED BY <1>1

LEMMA UserCodeOrder ==
  ASSUME TypeOK, OrderInv, UserCode
  PROVE  pushed' = executed \o tmp_tasks \o m_pending_tasks'
<1>1. CASE UNCHANGED queues
  BY <1>1 DEF queues, OrderInv, TasksInOrder
<1>2. CASE \E e \in Elements : PushTask(e)
  BY <1>2, PushKeepsOrder
<1> QED BY <1>1, <1>2, UserCodePushes

LEMMA CallersOrder == ASSUME TypeOK, OrderInv, CallerSteps PROVE OrderInv'
<1>0. PICK c \in Callers : addTask(c) \/ addEvent(c) \/ delEvent(c) \/ stop(c) \/ Wakeup(c)
  BY DEF CallerSteps
<1>1. CASE addTask(c)
  <2>1. pushed' = executed \o tmp_tasks \o m_pending_tasks'
    BY <1>1, PushKeepsOrder DEF addTask
  <2> QED BY <1>1, <2>1 DEF addTask, OrderInv, TasksInOrder
<1>2. CASE addEvent(c) \/ delEvent(c) \/ stop(c) \/ Wakeup(c)
  BY <1>2 DEF addEvent, delEvent, stop, Wakeup, OrderInv, TasksInOrder, queues
<1> QED BY <1>0, <1>1, <1>2

LEMMA DispatchPushes ==
  ASSUME TypeOK, Dispatch
  PROVE  UNCHANGED queues \/ \E x \in Elements : PushTask(x)
<1>0. PICK e \in re_events \ {WakeEvent} :
        DispatchUnknown(e) \/ DispatchCoroutine(e) \/ DispatchCallback(e)
  BY DEF Dispatch
<1>1. CASE DispatchUnknown(e) \/ DispatchCoroutine(e)
  BY <1>1 DEF DispatchUnknown, DispatchCoroutine
<1>2. CASE DispatchCallback(e)
  <2>1. e \in EpollEvents
    BY <1>0 DEF TypeOK
  <2>2. CASE UserCode
    BY <2>2, UserCodePushes
  <2>3. CASE UNCHANGED queues
    BY <2>3
  <2>4. CASE \E event \in IOEvents : PushTask(<<e.ptr, event>>)
    BY <2>1, <2>4
  <2> QED BY <1>2, <2>2, <2>3, <2>4 DEF DispatchCallback
<1> QED BY <1>0, <1>1, <1>2

LEMMA DispatchOrder == ASSUME TypeOK, OrderInv, Dispatch PROVE OrderInv'
<1>1. UNCHANGED <<loop_pc, tmp_tasks, executed>>
  BY DEF Dispatch
<1>2. UNCHANGED queues \/ \E e \in Elements : PushTask(e)
  BY DispatchPushes
<1>3. pushed' = executed \o tmp_tasks \o m_pending_tasks'
  BY <1>2, PushKeepsOrder DEF queues, OrderInv, TasksInOrder
<1> QED BY <1>1, <1>3 DEF OrderInv, TasksInOrder

LEMMA LoopOrder == ASSUME TypeOK, OrderInv, LoopSteps PROVE OrderInv'
<1> USE DEF OrderInv, TasksInOrder, queues
<1>1. CASE LoopEnter \/ LoopReset \/ LoopEnd \/ LoopBegin \/ StealCoroutine
  BY <1>1 DEF LoopEnter, LoopReset, LoopEnd, LoopBegin, StealCoroutine
<1>2. CASE SwapTasks
  <2>1. /\ tmp_tasks = <<>> /\ tmp_tasks' = m_pending_tasks /\ m_pending_tasks' = <<>>
        /\ UNCHANGED <<pushed, executed>> /\ loop_pc' = "tasks"
    BY <1>2 DEF SwapTasks
  <2>2. executed \o tmp_tasks \o m_pending_tasks = executed \o m_pending_tasks
    BY <2>1 DEF TypeOK
  <2>3. executed' \o tmp_tasks' \o m_pending_tasks' = executed \o m_pending_tasks
    BY <2>1 DEF TypeOK
  <2> QED BY <2>1, <2>2, <2>3
<1>3. CASE RunTask
  <2>1. pushed' = executed \o tmp_tasks \o m_pending_tasks'
    BY <1>3, UserCodeOrder DEF RunTask
  <2>2. m_pending_tasks' \in Seq(Elements)
    BY <1>3, UserCodeType DEF RunTask, UserVarsOK
  <2>3. executed' \o tmp_tasks' \o m_pending_tasks' = executed \o tmp_tasks \o m_pending_tasks'
    <3>1. executed \in Seq(Elements) /\ tmp_tasks \in Seq(Elements) /\ tmp_tasks # <<>>
      BY <1>3 DEF RunTask, TypeOK
    <3>2. executed' = Append(executed, Head(tmp_tasks)) /\ tmp_tasks' = Tail(tmp_tasks)
      BY <1>3 DEF RunTask
    <3> HIDE DEF Elements
    <3>3. Append(executed, Head(tmp_tasks)) \o Tail(tmp_tasks) \o m_pending_tasks'
            = executed \o tmp_tasks \o m_pending_tasks'
      BY <3>1, <2>2, MoveHead
    <3> QED BY <3>2, <3>3
  <2> QED BY <1>3, <2>1, <2>3 DEF RunTask
<1>4. CASE TasksDone \/ EpollReturns \/ EpollTimeout \/ DrainWakeFd \/ DispatchDone \/ PendingFds
  BY <1>4 DEF TasksDone, EpollReturns, EpollTimeout, DrainWakeFd, DispatchDone, PendingFds
<1>5. CASE Dispatch
  BY <1>5, DispatchOrder
<1> QED BY <1>1, <1>2, <1>3, <1>4, <1>5 DEF LoopSteps, LoopRuns

LEMMA NextOrder == TypeOK /\ OrderInv /\ [Next]_vars => OrderInv'
<1> SUFFICES ASSUME TypeOK, OrderInv, [Next]_vars PROVE OrderInv'
  OBVIOUS
<1>1. CASE OtherReactors
  BY <1>1 DEF OtherReactors, OtherBlocks, OtherPushes, OtherSteals, OtherUnchanged, OrderInv,
              TasksInOrder, queues
<1>2. CASE UNCHANGED vars
  BY <1>2 DEF vars, queues, OrderInv, TasksInOrder
<1> QED BY <1>1, <1>2, CallersOrder, LoopOrder DEF Next

LEMMA InitOrder == Init => OrderInv
BY DEF Init, OrderInv, TasksInOrder

(* Every task pushed to the reactor is in exactly one of three places, in  *)
(* the order of the pushes: executed, taken by the loop, or pending.       *)
THEOREM NoTaskLost == Spec => []TasksInOrder
<1>1. OrderInv => TasksInOrder
  BY DEF OrderInv
<1> QED BY <1>1, InitOrder, NextOrder, TypeCorrect, PTL DEF Spec

(* A step of the reactor is a step of the executor, or none: this is what  *)
(* lets callers of addTask reason about a queue and forget the loop.       *)
LEMMA StepRefines ==
  ASSUME TypeOK, OrderInv, [Next]_vars
  PROVE  [Exec!ExecNext]_<<pushed, executed>>
<1> USE DEF queues
<1>1. ASSUME NEW e \in Elements, PushTask(e), UNCHANGED executed
      PROVE  Exec!Submit
  BY <1>1 DEF PushTask, Exec!Submit
<1>2. CASE CallerSteps
  <2>1. (\E e \in Elements : PushTask(e) /\ UNCHANGED executed) \/ UNCHANGED <<pushed, executed>>
    BY <1>2 DEF CallerSteps, addTask, addEvent, delEvent, stop, Wakeup
  <2> QED BY <2>1, <1>1 DEF Exec!ExecNext
<1>3. CASE RunTask
  <2>1. /\ Len(executed) < Len(pushed)
        /\ pushed[Len(executed) + 1] = Head(tmp_tasks)
    <3> HIDE DEF Elements
    <3>1. /\ executed \in Seq(Elements) /\ tmp_tasks \in Seq(Elements) /\ tmp_tasks # <<>>
          /\ m_pending_tasks \in Seq(Elements)
      BY <1>3 DEF RunTask, TypeOK
    <3>2. pushed = executed \o tmp_tasks \o m_pending_tasks
      BY DEF OrderInv, TasksInOrder
    <3> QED BY <3>1, <3>2, HeadAt
  <2>2. executed' = Append(executed, pushed[Len(executed) + 1])
    BY <1>3, <2>1 DEF RunTask
  <2>3. UNCHANGED queues \/ \E e \in Elements : PushTask(e)
    BY <1>3, UserCodePushes DEF RunTask
  <2>4. CASE UNCHANGED queues
    BY <2>1, <2>2, <2>4 DEF Exec!ExecNext, Exec!Execute
  <2>5. CASE \E e \in Elements : PushTask(e)
    BY <2>1, <2>2, <2>5 DEF Exec!ExecNext, Exec!ExecuteAndSubmit, PushTask
  <2> QED BY <2>3, <2>4, <2>5
<1>4. CASE Dispatch
  <2>1. UNCHANGED executed
    BY <1>4 DEF Dispatch
  <2>2. UNCHANGED queues \/ \E e \in Elements : PushTask(e)
    BY <1>4, DispatchPushes
  <2> QED BY <2>1, <2>2, <1>1 DEF Exec!ExecNext
<1>5. CASE LoopSteps /\ ~RunTask /\ ~Dispatch
  BY <1>5 DEF LoopSteps, LoopRuns, LoopEnter, LoopReset, LoopEnd, LoopBegin, StealCoroutine,
              SwapTasks, TasksDone, EpollReturns, EpollTimeout, DrainWakeFd, DispatchDone,
              PendingFds
<1>6. CASE OtherReactors
  BY <1>6 DEF OtherReactors, OtherBlocks, OtherPushes, OtherSteals, OtherUnchanged
<1>7. CASE UNCHANGED vars
  BY <1>7 DEF vars
<1> QED BY <1>2, <1>3, <1>4, <1>5, <1>6, <1>7 DEF Next

(* The reactor implements the executor for every set of threads, tasks and *)
(* descriptors.                                                            *)
THEOREM ReactorImplementsExecutor == Spec => ImplementsExecutor
<1>1. Init => Exec!ExecInit
  BY DEF Init, Exec!ExecInit
<1>2. TypeOK /\ OrderInv /\ [Next]_vars => [Exec!ExecNext]_<<pushed, executed>>
  BY StepRefines
<1>3. Spec => [](TypeOK /\ OrderInv)
  BY InitOrder, NextOrder, TypeCorrect, PTL DEF Spec
<1> QED BY <1>1, <1>2, <1>3, PTL DEF Spec, ImplementsExecutor, Exec!ExecSpec

-----------------------------------------------------------------------------
(* m_fds and the kernel's interest list *)

LEMMA EventIsEntry ==
  ASSUME NEW fd \in Fds, NEW ev
  PROVE  EventsOf(fd, ev) # NotRegistered
<1>1. fd # NoFd
  BY ReactorAssumption DEF ReactorAssumption
<1> QED
  BY <1>1 DEF EventsOf

LEMMA AddEventMirrors ==
  ASSUME TypeOK, FdsMirrorEpoll, NEW fd \in Fds, NEW ev, addEventInLoopThread(fd, EventsOf(fd, ev))
  PROVE  FdsMirrorEpoll'
<1>1. EventsOf(fd, ev) # NotRegistered
  BY EventIsEntry
<1>2. epoll' = [epoll EXCEPT ![fd] = EventsOf(fd, ev)] /\ m_fds' = m_fds \cup {fd}
  BY DEF addEventInLoopThread, FdsMirrorEpoll, TypeOK
<1> QED
  BY <1>1, <1>2 DEF FdsMirrorEpoll, TypeOK

LEMMA DelEventMirrors ==
  ASSUME TypeOK, FdsMirrorEpoll, NEW fd \in Fds, delEventInLoopThread(fd)
  PROVE  FdsMirrorEpoll'
BY DEF delEventInLoopThread, FdsMirrorEpoll, TypeOK

LEMMA ResumeMirrors ==
  ASSUME TypeOK, FdsMirrorEpoll, NEW fd \in CorFds, resume(fd)
  PROVE  FdsMirrorEpoll'
<1>1. fd \in Fds
  BY ReactorAssumption DEF ReactorAssumption
<1> QED
  BY <1>1, AddEventMirrors DEF resume

LEMMA UserCodeMirrors ==
  ASSUME TypeOK, FdsMirrorEpoll, UserCode
  PROVE  FdsMirrorEpoll'
<1>1. CASE UNCHANGED kernel
  BY <1>1 DEF kernel, FdsMirrorEpoll
<1>2. ASSUME NEW fd \in CallbackFds, NEW ev \in SUBSET IOEvents,
             addEventInLoopThread(fd, EventsOf(fd, ev))
      PROVE  FdsMirrorEpoll'
  BY <1>2, AddEventMirrors, ReactorAssumption DEF ReactorAssumption
<1>3. ASSUME NEW fd \in CallbackFds, delEventInLoopThread(fd) PROVE FdsMirrorEpoll'
  BY <1>3, DelEventMirrors, ReactorAssumption DEF ReactorAssumption
<1>4. CASE StartCoroutine
  <2>1. PICK fd \in CorFds : addEventInLoopThread(fd, EventsOf(fd, {"read"}))
    BY <1>4 DEF StartCoroutine
  <2>2. fd \in Fds
    BY ReactorAssumption DEF ReactorAssumption
  <2> QED
    BY <2>1, <2>2, AddEventMirrors
<1> QED
  BY <1>1, <1>2, <1>3, <1>4 DEF UserCode

LEMMA DispatchMirrors ==
  ASSUME TypeOK, FdsMirrorEpoll, Dispatch
  PROVE  FdsMirrorEpoll'
<1>1. PICK e \in re_events \ {WakeEvent} :
        DispatchUnknown(e) \/ DispatchCoroutine(e) \/ DispatchCallback(e)
  BY DEF Dispatch
<1>2. e.ptr \in Fds
  BY <1>1 DEF TypeOK
<1>3. CASE DispatchUnknown(e)
  BY <1>2, <1>3, DelEventMirrors DEF DispatchUnknown
<1>4. CASE DispatchCoroutine(e)
  <2>1. e.ptr \in CorFds
    BY <1>4 DEF DispatchCoroutine, TypeOK
  <2>2. UNCHANGED kernel \/ delEventInLoopThread(e.ptr) \/ resume(e.ptr)
    BY <1>4 DEF DispatchCoroutine
  <2>3. CASE UNCHANGED kernel
    BY <2>3 DEF kernel, FdsMirrorEpoll
  <2> QED
    BY <1>2, <2>1, <2>2, <2>3, DelEventMirrors, ResumeMirrors
<1>5. CASE DispatchCallback(e)
  <2>1. UNCHANGED kernel \/ UserCode
    BY <1>5 DEF DispatchCallback
  <2>2. CASE UNCHANGED kernel
    BY <2>2 DEF kernel, FdsMirrorEpoll
  <2> QED
    BY <2>1, <2>2, UserCodeMirrors
<1> QED
  BY <1>1, <1>3, <1>4, <1>5

LEMMA PendingFdsMirrors ==
  ASSUME TypeOK, FdsMirrorEpoll, PendingFds
  PROVE  FdsMirrorEpoll'
<1> DEFINE key(e) == PendingAddKey(e.ptr)
           adds   == {e \in m_pending_add_fds :
                        (key(e) \in m_fds) = (epoll[key(e)] # NotRegistered)}
           added  == [f \in Fds |-> IF \E e \in adds : key(e) = f
                                    THEN CHOOSE e \in adds : key(e) = f ELSE epoll[f]]
           fds    == m_fds \cup {key(e) : e \in adds}
           dels   == Elems(m_pending_del_fds) \cap fds
<1>1. \A e \in adds : e # NotRegistered
  <2>1. \A e \in EpollEvents : e.ptr # NoFd
    BY ReactorAssumption DEF ReactorAssumption
  <2>2. adds \subseteq EpollEvents
    BY DEF TypeOK
  <2> QED
    BY <2>1, <2>2
<1>2. \A f \in Fds : f \in fds <=> added[f] # NotRegistered
  <2> SUFFICES ASSUME NEW f \in Fds PROVE f \in fds <=> added[f] # NotRegistered
    OBVIOUS
  <2>1. CASE \E e \in adds : key(e) = f
    <3> HIDE DEF adds, key
    <3>1. (CHOOSE e \in adds : key(e) = f) \in adds
      BY <2>1
    <3>2. added[f] # NotRegistered
      BY <2>1, <3>1, <1>1
    <3> QED
      BY <2>1, <3>2
  <2>2. CASE ~ \E e \in adds : key(e) = f
    <3> HIDE DEF adds, key
    <3>1. added[f] = epoll[f] /\ (f \in fds <=> f \in m_fds)
      BY <2>2
    <3> QED
      BY <3>1 DEF FdsMirrorEpoll
  <2> QED
    BY <2>1, <2>2
<1>3. /\ epoll' = [f \in Fds |-> IF f \in dels THEN NotRegistered ELSE added[f]]
      /\ m_fds' = fds \ dels
  BY DEF PendingFds
<1> HIDE DEF added, fds, dels
<1> QED
  BY <1>2, <1>3 DEF FdsMirrorEpoll

LEMMA LoopMirrors ==
  ASSUME TypeOK, FdsMirrorEpoll, LoopSteps
  PROVE  FdsMirrorEpoll'
<1>1. CASE UNCHANGED kernel
  BY <1>1 DEF kernel, FdsMirrorEpoll
<1>2. CASE LoopBegin
  <2>1. first_coroutine # NoFd => first_coroutine \in CorFds
    BY DEF TypeOK
  <2> QED
    BY <1>1, <1>2, <2>1, ResumeMirrors DEF LoopBegin, kernel
<1>3. CASE StealCoroutine
  <2>1. coroutine_tasks # <<>> => Head(coroutine_tasks) \in CorFds
    BY DEF TypeOK
  <2> QED
    BY <1>1, <1>3, <2>1, ResumeMirrors DEF StealCoroutine
<1>4. CASE RunTask
  BY <1>4, UserCodeMirrors DEF RunTask
<1>5. CASE Dispatch
  BY <1>5, DispatchMirrors
<1>6. CASE PendingFds
  BY <1>6, PendingFdsMirrors
<1>7. CASE \/ LoopEnter \/ LoopReset \/ LoopEnd \/ SwapTasks \/ TasksDone
           \/ EpollReturns \/ EpollTimeout \/ DrainWakeFd \/ DispatchDone
  BY <1>1, <1>7 DEF LoopEnter, LoopReset, LoopEnd, SwapTasks, TasksDone,
     EpollReturns, EpollTimeout, DrainWakeFd, DispatchDone
<1> QED
  BY <1>2, <1>3, <1>4, <1>5, <1>6, <1>7 DEF LoopSteps, LoopRuns

LEMMA NextMirrors == TypeOK /\ FdsMirrorEpoll /\ [Next]_vars => FdsMirrorEpoll'
<1> SUFFICES ASSUME TypeOK, FdsMirrorEpoll, [Next]_vars PROVE FdsMirrorEpoll'
  OBVIOUS
<1>1. CASE UNCHANGED kernel
  BY <1>1 DEF kernel, FdsMirrorEpoll
<1>2. CASE CallerSteps
  BY <1>1, <1>2 DEF CallerSteps, addTask, addEvent, delEvent, stop, Wakeup
<1>3. CASE OtherReactors
  BY <1>1, <1>3 DEF OtherReactors, OtherBlocks, OtherPushes, OtherSteals, OtherUnchanged
<1>4. CASE LoopSteps
  BY <1>4, LoopMirrors
<1> QED
  BY <1>1, <1>2, <1>3, <1>4 DEF Next, vars

(* m_fds names exactly the entries of the kernel's list, so epoll_ctl is   *)
(* never asked to add an entry that is there or to change one that is not, *)
(* also when pending requests are registered under the key 1               *)
(* (reactor.cpp:85).                                                       *)
THEOREM FdsAgree == Spec => []FdsMirrorEpoll
<1>1. Init => FdsMirrorEpoll
  BY DEF Init, FdsMirrorEpoll
<1> QED
  BY <1>1, TypeCorrect, NextMirrors, PTL DEF Spec
-----------------------------------------------------------------------------
(* No coroutine is stranded *)

(* Coroutines that block on this reactor's fds do so on its own thread,    *)
(* and on descriptors other than 1, under which reactor.cpp:85 files the   *)
(* requests of other threads.                                              *)
LocalCoroutines == ForeignFds \cap CorFds = {} /\ 1 \notin CorFds

(* An entry of the kernel's list names its own fd, at least where a        *)
(* coroutine's fd is concerned, and only this reactor's fds have one.      *)
EntriesTrue ==
  /\ \A f \in m_fds : f \in CorFds => epoll[f].ptr = f
  /\ \A f \in m_fds : f \notin CorFds => epoll[f].ptr \notin CorFds
  /\ \A f \in CorFds \cap m_fds : owner[f] = "self"

(* What other threads asked for is about no coroutine.                     *)
RequestsApart ==
  /\ \A e \in m_pending_add_fds : e.ptr \notin CorFds
  /\ Elems(m_pending_del_fds) \cap CorFds = {}

(* An event of the batch is about a coroutine that is still at home, is    *)
(* the only one about it, and is not about the one the loop keeps.         *)
BatchFresh ==
  \A e \in re_events : e.ptr \in CorFds =>
    /\ owner[e.ptr] = "self" /\ e.ptr # first_coroutine
    /\ \A d \in re_events : d.ptr = e.ptr => d = e

(* The loop has no coroutine in hand when it may be given one.             *)
FirstUsed == loop_pc \in {"steal", "swap", "tasks", "epoll_wait"} => first_coroutine = NoFd

CorInv == /\ FdsMirrorEpoll /\ EntriesTrue /\ RequestsApart /\ BatchFresh /\ FirstUsed
          /\ NoStrandedCoroutine

LEMMA ElemsAppend ==
  ASSUME NEW S, NEW s \in Seq(S), NEW e \in S
  PROVE  Elems(Append(s, e)) = Elems(s) \cup {e}
<1>1. /\ Len(s) \in Nat /\ DOMAIN s = 1 .. Len(s) /\ DOMAIN Append(s, e) = 1 .. Len(s) + 1
      /\ Append(s, e)[Len(s) + 1] = e /\ \A i \in 1 .. Len(s) : Append(s, e)[i] = s[i]
  OBVIOUS
<1>2. DOMAIN Append(s, e) = DOMAIN s \cup {Len(s) + 1}
  BY <1>1
<1> QED BY <1>1, <1>2 DEF Elems

LEMMA ElemsAreIn == ASSUME NEW S, NEW s \in Seq(S) PROVE Elems(s) \subseteq S
BY DEF Elems

Once(s) == \A i, j \in DOMAIN s : s[i] = s[j] => i = j

LEMMA OnceAppend ==
  ASSUME NEW S, NEW s \in Seq(S), NEW e \in S, Once(s), e \notin Elems(s)
  PROVE  Once(Append(s, e))
BY DEF Elems, Once

LEMMA OnceTail ==
  ASSUME NEW S, NEW s \in Seq(S), s # <<>>, Once(s)
  PROVE  Once(Tail(s)) /\ Elems(Tail(s)) = Elems(s) \ {Head(s)}
<1>1. /\ Len(s) \in Nat \ {0} /\ Head(s) = s[1] /\ DOMAIN s = 1 .. Len(s)
      /\ DOMAIN Tail(s) = 1 .. Len(s) - 1 /\ \A i \in 1 .. Len(s) - 1 : Tail(s)[i] = s[i + 1]
  OBVIOUS
<1>2. Once(Tail(s))
  <2> SUFFICES ASSUME NEW i \in DOMAIN Tail(s), NEW j \in DOMAIN Tail(s), Tail(s)[i] = Tail(s)[j]
               PROVE  i = j
    BY DEF Once
  <2>1. i + 1 \in DOMAIN s /\ j + 1 \in DOMAIN s /\ s[i + 1] = s[j + 1]
    BY <1>1
  <2> QED BY <2>1, <1>1 DEF Once
<1>3. ASSUME NEW e \in Elems(Tail(s)) PROVE e \in Elems(s) \ {Head(s)}
  <2>1. PICK i \in DOMAIN Tail(s) : e = Tail(s)[i]
    BY <1>3 DEF Elems
  <2>2. i + 1 \in DOMAIN s /\ 1 \in DOMAIN s /\ i + 1 # 1 /\ e = s[i + 1]
    BY <2>1, <1>1
  <2> QED BY <2>2, <1>1 DEF Elems, Once
<1>4. ASSUME NEW e \in Elems(s) \ {Head(s)} PROVE e \in Elems(Tail(s))
  <2>1. PICK i \in DOMAIN s : e = s[i]
    BY <1>4 DEF Elems
  <2>2. i - 1 \in DOMAIN Tail(s) /\ e = Tail(s)[i - 1]
    BY <2>1, <1>1, <1>4
  <2> QED BY <2>2 DEF Elems
<1> QED BY <1>2, <1>3, <1>4

(* Who is in the queue waits and has no reactor.                           *)
LEMMA QueuedHasNone ==
  ASSUME TypeOK, InOnePlace, QueuedOnce, NEW f \in Elems(coroutine_tasks)
  PROVE  f \in waiting /\ f \in CorFds /\ owner[f] = "none"
<1>1. f \in waiting /\ f \in CorFds
  BY DEF QueuedOnce, TypeOK
<1> QED BY <1>1 DEF InOnePlace, HasOnePlace

(* epoll_ctl does what it is asked for.                                    *)
LEMMA AddEventDoes ==
  ASSUME TypeOK, FdsMirrorEpoll, NEW fd \in Fds, NEW ev \in SUBSET IOEvents,
         addEventInLoopThread(fd, EventsOf(fd, ev))
  PROVE  /\ epoll' = [epoll EXCEPT ![fd] = EventsOf(fd, ev)]
         /\ m_fds' = m_fds \cup {fd} /\ hung_up' = hung_up \ {fd}
BY DEF addEventInLoopThread, FdsMirrorEpoll, TypeOK

LEMMA CorFdsAreFds == CorFds \subseteq Fds /\ CallbackFds \subseteq Fds /\ CallbackFds \cap CorFds = {}
BY ReactorAssumption DEF ReactorAssumption

(* What a coroutine that runs on this thread, and then ends or blocks      *)
(* again, leaves behind: it is at home, and in no queue.                   *)
LEMMA RunsHere ==
  ASSUME TypeOK, FdsMirrorEpoll, EntriesTrue, InOnePlace, QueuedOnce,
         NEW fd \in CorFds, NEW ev \in SUBSET IOEvents,
         addEventInLoopThread(fd, EventsOf(fd, ev)),
         owner' = [owner EXCEPT ![fd] = "self"],
         \/ waiting' = waiting \ {fd}
         \/ waiting' = waiting \cup {fd} /\ "read" \in ev,
         Once(coroutine_tasks'), Elems(coroutine_tasks') = Elems(coroutine_tasks) \ {fd}
  PROVE  EntriesTrue' /\ InOnePlace' /\ QueuedOnce'
<1>0. fd \in Fds /\ waiting \subseteq CorFds /\ waiting' \subseteq CorFds /\ owner \in [CorFds -> {"self", "other", "none"}]
      /\ epoll \in [Fds -> EpollEvents \cup {NotRegistered}] /\ m_fds \subseteq Fds
  BY CorFdsAreFds DEF TypeOK
<1>1. /\ epoll' = [epoll EXCEPT ![fd] = EventsOf(fd, ev)]
      /\ m_fds' = m_fds \cup {fd} /\ hung_up' = hung_up \ {fd}
  BY <1>0, AddEventDoes
<1>2. EntriesTrue'
  BY <1>0, <1>1 DEF EntriesTrue, EventsOf
<1>3. InOnePlace'
  <2> SUFFICES ASSUME NEW f \in waiting' PROVE HasOnePlace(f)'
    BY DEF InOnePlace
  <2>1. CASE f = fd
    <3>1. owner'[f] = "self" /\ "read" \in ev /\ epoll'[f].events = ev /\ f \notin Elems(coroutine_tasks')
      BY <1>0, <1>1, <2>1 DEF EventsOf
    <3> QED BY <3>1 DEF HasOnePlace
  <2>2. CASE f # fd
    <3>1. f \in waiting /\ f \in CorFds /\ f \in Fds
      BY <1>0, <2>2, CorFdsAreFds
    <3>2. /\ owner'[f] = owner[f] /\ epoll'[f] = epoll[f] /\ (f \in m_fds' <=> f \in m_fds)
          /\ (f \in hung_up <=> f \in hung_up')
          /\ (f \in Elems(coroutine_tasks') <=> f \in Elems(coroutine_tasks))
      BY <1>0, <1>1, <2>2, <3>1
    <3>3. HasOnePlace(f)
      BY <3>1 DEF InOnePlace
    <3> QED BY <3>2, <3>3 DEF HasOnePlace
  <2> QED BY <2>1, <2>2
<1>4. QueuedOnce'
  BY <1>0 DEF QueuedOnce, Once
<1> QED BY <1>2, <1>3, <1>4

(* Changes of entries that are no coroutine's.                             *)
LEMMA OffCoroutines ==
  ASSUME TypeOK, EntriesTrue, InOnePlace, QueuedOnce, UNCHANGED <<cors, coroutine_tasks>>,
         \A f \in CorFds : /\ epoll'[f] = epoll[f] /\ (f \in m_fds' <=> f \in m_fds)
                           /\ (f \in hung_up' <=> f \in hung_up),
         \A f \in m_fds' \ CorFds : epoll'[f].ptr \notin CorFds
  PROVE  EntriesTrue' /\ InOnePlace' /\ QueuedOnce'
<1>1. UNCHANGED <<waiting, owner, coroutine_tasks>>
  BY DEF cors
<1>2. EntriesTrue'
  BY <1>1 DEF EntriesTrue
<1>3. \A f \in waiting : f \in CorFds /\ HasOnePlace(f)
  BY DEF InOnePlace, TypeOK
<1>4. InOnePlace'
  BY <1>1, <1>3 DEF InOnePlace, HasOnePlace, Elems
<1>5. QueuedOnce'
  BY <1>1 DEF QueuedOnce, Elems
<1> QED BY <1>2, <1>4, <1>5

LEMMA AddCallbackKeeps ==
  ASSUME TypeOK, FdsMirrorEpoll, EntriesTrue, InOnePlace, QueuedOnce,
         UNCHANGED <<cors, coroutine_tasks>>, NEW fd \in CallbackFds, NEW ev \in SUBSET IOEvents,
         addEventInLoopThread(fd, EventsOf(fd, ev))
  PROVE  EntriesTrue' /\ InOnePlace' /\ QueuedOnce'
<1>0. fd \in Fds /\ fd \notin CorFds
  BY CorFdsAreFds
<1>1. /\ epoll' = [epoll EXCEPT ![fd] = EventsOf(fd, ev)]
      /\ m_fds' = m_fds \cup {fd} /\ hung_up' = hung_up \ {fd}
  BY <1>0, AddEventDoes
<1>2. \A f \in CorFds : /\ epoll'[f] = epoll[f] /\ (f \in m_fds' <=> f \in m_fds)
                        /\ (f \in hung_up' <=> f \in hung_up)
  BY <1>0, <1>1 DEF TypeOK
<1>3. \A f \in m_fds' \ CorFds : epoll'[f].ptr \notin CorFds
  BY <1>0, <1>1 DEF TypeOK, EntriesTrue, EventsOf
<1> QED BY <1>2, <1>3, OffCoroutines

LEMMA DelOtherKeeps ==
  ASSUME TypeOK, FdsMirrorEpoll, EntriesTrue, InOnePlace, QueuedOnce,
         UNCHANGED <<cors, coroutine_tasks>>, NEW fd \in Fds \ CorFds,
         delEventInLoopThread(fd), hung_up' \in {hung_up, hung_up \cup {fd}}
  PROVE  EntriesTrue' /\ InOnePlace' /\ QueuedOnce'
<1>1. \A f \in Fds \ {fd} : epoll'[f] = epoll[f]
  BY DEF delEventInLoopThread, TypeOK
<1>2. m_fds' = m_fds \ {fd} /\ m_fds \subseteq Fds
  BY DEF delEventInLoopThread, TypeOK
<1>3. \A f \in CorFds : /\ epoll'[f] = epoll[f] /\ (f \in m_fds' <=> f \in m_fds)
                        /\ (f \in hung_up' <=> f \in hung_up)
  BY <1>1, <1>2, CorFdsAreFds
<1>4. \A f \in m_fds' \ CorFds : epoll'[f].ptr \notin CorFds
  BY <1>1, <1>2 DEF EntriesTrue
<1> QED BY <1>3, <1>4, OffCoroutines

(* What user code on the loop thread does to coroutines: it may start one. *)
LEMMA UserCodeKeeps ==
  ASSUME TypeOK, FdsMirrorEpoll, EntriesTrue, InOnePlace, QueuedOnce, UserCode,
         UNCHANGED coroutine_tasks
  PROVE  /\ EntriesTrue' /\ InOnePlace' /\ QueuedOnce' /\ waiting \subseteq waiting'
         /\ \A f \in CorFds : owner[f] = "self" => owner'[f] = "self"
<1>1. CASE UNCHANGED <<kernel, cors>>
  <2>1. UNCHANGED <<m_fds, epoll, hung_up, waiting, owner, coroutine_tasks>>
    BY <1>1 DEF kernel, cors
  <2> QED BY <2>1 DEF EntriesTrue, InOnePlace, HasOnePlace, QueuedOnce, Elems
<1>2. CASE \E fd \in CallbackFds, events \in SUBSET IOEvents :
             addEventInLoopThread(fd, EventsOf(fd, events)) /\ UNCHANGED cors
  BY <1>2, AddCallbackKeeps DEF cors
<1>3. CASE \E fd \in CallbackFds :
             delEventInLoopThread(fd) /\ UNCHANGED <<hung_up, cors>>
  BY <1>3, DelOtherKeeps, CorFdsAreFds DEF cors
<1>4. CASE StartCoroutine
  <2>1. PICK fd \in CorFds \ waiting :
          /\ owner[fd] # "other" /\ fd \notin Elems(coroutine_tasks)
          /\ owner' = [owner EXCEPT ![fd] = "self"]
          /\ waiting' = waiting \cup {fd}
          /\ addEventInLoopThread(fd, EventsOf(fd, {"read"}))
    BY <1>4 DEF StartCoroutine
  <2>2. Once(coroutine_tasks') /\ Elems(coroutine_tasks') = Elems(coroutine_tasks) \ {fd}
    BY <2>1 DEF QueuedOnce, Once
  <2>3. EntriesTrue' /\ InOnePlace' /\ QueuedOnce'
    BY <2>1, <2>2, RunsHere
  <2> QED BY <2>1, <2>3 DEF TypeOK
<1> QED BY <1>1, <1>2, <1>3, <1>4 DEF UserCode

(* A coroutine of this reactor that is resumed on its thread.              *)
LEMMA ResumeKeeps ==
  ASSUME TypeOK, FdsMirrorEpoll, EntriesTrue, InOnePlace, QueuedOnce,
         NEW fd \in CorFds, resume(fd), owner' = [owner EXCEPT ![fd] = "self"],
         Once(coroutine_tasks'), Elems(coroutine_tasks') = Elems(coroutine_tasks) \ {fd}
  PROVE  EntriesTrue' /\ InOnePlace' /\ QueuedOnce'
<1>1. CASE addEventInLoopThread(fd, EventsOf(fd, {})) /\ waiting' = waiting \ {fd}
  <2>1. {} \in SUBSET IOEvents
    OBVIOUS
  <2> QED BY <1>1, <2>1, RunsHere
<1>2. CASE addEventInLoopThread(fd, EventsOf(fd, {"read"})) /\ waiting' = waiting \cup {fd}
  <2>1. {"read"} \in SUBSET IOEvents
    OBVIOUS
  <2> QED BY <1>2, <2>1, RunsHere
<1> QED BY <1>1, <1>2 DEF resume

LEMMA ResumeAtHomeKeeps ==
  ASSUME TypeOK, FdsMirrorEpoll, EntriesTrue, InOnePlace, QueuedOnce,
         NEW fd \in CorFds, resume(fd), owner[fd] = "self", UNCHANGED <<owner, coroutine_tasks>>
  PROVE  EntriesTrue' /\ InOnePlace' /\ QueuedOnce'
<1>1. owner' = [owner EXCEPT ![fd] = "self"]
  BY DEF TypeOK
<1>2. fd \notin Elems(coroutine_tasks)
  BY QueuedHasNone
<1>3. Once(coroutine_tasks') /\ Elems(coroutine_tasks') = Elems(coroutine_tasks) \ {fd}
  BY <1>2 DEF QueuedOnce, Once
<1> QED BY <1>1, <1>3, ResumeKeeps

LEMMA DispatchCoroutineKeeps ==
  ASSUME TypeOK, CorInv, NEW e \in re_events \ {WakeEvent}, DispatchCoroutine(e)
  PROVE  EntriesTrue' /\ BatchFresh' /\ NoStrandedCoroutine'
<1> DEFINE p == e.ptr
<1>0. /\ FdsMirrorEpoll /\ EntriesTrue /\ BatchFresh /\ InOnePlace /\ QueuedOnce /\ FirstStillWaits
  BY DEF CorInv, NoStrandedCoroutine
<1>1. /\ p \in waiting /\ p \in CorFds /\ p \in Fds /\ owner[p] = "self" /\ p # first_coroutine
      /\ re_events' = re_events \ {e} /\ \A d \in re_events' : d.ptr # p
  BY <1>0, CorFdsAreFds DEF DispatchCoroutine, TypeOK, BatchFresh
<1>2. p \notin Elems(coroutine_tasks)
  BY <1>0, <1>1, QueuedHasNone
<1>3. CASE first_coroutine' = p /\ UNCHANGED <<kernel, cors, coroutine_tasks>>
  <2>1. UNCHANGED <<m_fds, epoll, hung_up, waiting, owner, coroutine_tasks>>
    BY <1>3 DEF kernel, cors
  <2>2. EntriesTrue' /\ InOnePlace' /\ QueuedOnce'
    BY <1>0, <2>1 DEF EntriesTrue, InOnePlace, HasOnePlace, QueuedOnce, Elems
  <2>3. FirstStillWaits'
    BY <1>1, <1>3, <2>1 DEF FirstStillWaits
  <2>4. BatchFresh'
    BY <1>0, <1>1, <1>3, <2>1 DEF BatchFresh
  <2> QED BY <2>2, <2>3, <2>4 DEF NoStrandedCoroutine
<1>4. CASE /\ delEventInLoopThread(p) /\ owner' = [owner EXCEPT ![p] = "none"]
           /\ coroutine_tasks' = Append(coroutine_tasks, p)
           /\ UNCHANGED <<hung_up, first_coroutine, waiting>>
  <2>1. /\ Elems(coroutine_tasks') = Elems(coroutine_tasks) \cup {p}
        /\ Once(coroutine_tasks')
    <3>1. coroutine_tasks \in Seq(CorFds) /\ Once(coroutine_tasks)
      BY <1>0 DEF TypeOK, QueuedOnce, Once
    <3> QED BY <1>1, <1>2, <1>4, <3>1, ElemsAppend, OnceAppend
  <2>2. \A f \in Fds \ {p} : epoll'[f] = epoll[f]
    BY <1>1, <1>4 DEF delEventInLoopThread, TypeOK
  <2>3. m_fds' = m_fds \ {p}
    BY <1>4 DEF delEventInLoopThread
  <2>4. EntriesTrue'
    BY <1>0, <1>4, <2>2, <2>3 DEF EntriesTrue, TypeOK
  <2>5. InOnePlace'
    <3> SUFFICES ASSUME NEW f \in waiting PROVE HasOnePlace(f)'
      BY <1>4 DEF InOnePlace
    <3>1. CASE f = p
      BY <1>1, <1>4, <2>1, <2>3, <3>1 DEF HasOnePlace, TypeOK
    <3>2. CASE f # p
      <4>1. f \in CorFds /\ f \in Fds
        BY CorFdsAreFds DEF TypeOK
      <4>2. /\ owner'[f] = owner[f] /\ epoll'[f] = epoll[f] /\ (f \in m_fds' <=> f \in m_fds)
            /\ (f \in Elems(coroutine_tasks') <=> f \in Elems(coroutine_tasks))
        BY <1>4, <2>1, <2>2, <2>3, <3>2, <4>1 DEF TypeOK
      <4> QED BY <1>0, <1>4, <4>2 DEF InOnePlace, HasOnePlace
    <3> QED BY <3>1, <3>2
  <2>6. QueuedOnce'
    BY <1>0, <1>1, <1>4, <2>1 DEF QueuedOnce, Once
  <2>7. \A f \in CorFds \ {p} : owner'[f] = owner[f]
    BY <1>4 DEF TypeOK
  <2>8. BatchFresh'
    BY <1>0, <1>1, <1>4, <2>7 DEF BatchFresh
  <2>9. FirstStillWaits'
    BY <1>0, <1>1, <1>4, <2>7 DEF FirstStillWaits, TypeOK
  <2> QED BY <2>4, <2>5, <2>6, <2>8, <2>9 DEF NoStrandedCoroutine
<1>5. CASE resume(p) /\ first_coroutine' = NoFd /\ UNCHANGED <<owner, coroutine_tasks>>
  <2>1. EntriesTrue' /\ InOnePlace' /\ QueuedOnce'
    BY <1>0, <1>1, <1>5, ResumeAtHomeKeeps
  <2>2. FirstStillWaits'
    BY <1>5 DEF FirstStillWaits
  <2>3. NoFd \notin CorFds
    BY CorFdsAreFds, ReactorAssumption DEF ReactorAssumption
  <2>4. BatchFresh'
    BY <1>0, <1>1, <1>5, <2>3 DEF BatchFresh
  <2> QED BY <2>1, <2>2, <2>4 DEF NoStrandedCoroutine
<1> QED BY <1>3, <1>4, <1>5 DEF DispatchCoroutine

LEMMA DispatchUnknownKeeps ==
  ASSUME TypeOK, CorInv, NEW e \in re_events \ {WakeEvent}, DispatchUnknown(e)
  PROVE  EntriesTrue' /\ BatchFresh' /\ NoStrandedCoroutine'
<1> DEFINE p == e.ptr
<1>0. /\ FdsMirrorEpoll /\ EntriesTrue /\ BatchFresh /\ InOnePlace /\ QueuedOnce /\ FirstStillWaits
  BY DEF CorInv, NoStrandedCoroutine
<1>1. /\ p \in Fds /\ delEventInLoopThread(p) /\ hung_up' = hung_up \cup {p}
      /\ re_events' = re_events \ {e} /\ UNCHANGED <<first_coroutine, cors, coroutine_tasks>>
  BY DEF DispatchUnknown, TypeOK
<1>2. UNCHANGED <<waiting, owner, coroutine_tasks>>
  BY <1>1 DEF cors
<1>3. ASSUME p \notin CorFds PROVE EntriesTrue' /\ InOnePlace' /\ QueuedOnce'
  BY <1>0, <1>1, <1>3, DelOtherKeeps
<1>4. ASSUME p \in CorFds PROVE EntriesTrue' /\ InOnePlace' /\ QueuedOnce'
  <2>1. owner[p] = "self"
    BY <1>0, <1>4 DEF BatchFresh
  <2>2. \A f \in Fds \ {p} : epoll'[f] = epoll[f]
    BY <1>1 DEF delEventInLoopThread, TypeOK
  <2>3. m_fds' = m_fds \ {p} /\ m_fds \subseteq Fds
    BY <1>1 DEF delEventInLoopThread, TypeOK
  <2>4. EntriesTrue'
    BY <1>0, <1>2, <2>2, <2>3 DEF EntriesTrue
  <2>5. InOnePlace'
    <3> SUFFICES ASSUME NEW f \in waiting PROVE HasOnePlace(f)'
      BY <1>2 DEF InOnePlace
    <3>1. HasOnePlace(f) /\ f \in Fds
      BY <1>0, CorFdsAreFds DEF InOnePlace, TypeOK
    <3>2. CASE f = p
      BY <1>1, <1>2, <2>1, <3>1, <3>2 DEF HasOnePlace, Elems
    <3>3. CASE f # p
      BY <1>1, <1>2, <2>2, <2>3, <3>1, <3>3 DEF HasOnePlace, Elems
    <3> QED BY <3>2, <3>3
  <2>6. QueuedOnce'
    BY <1>0, <1>2 DEF QueuedOnce, Elems
  <2> QED BY <2>4, <2>5, <2>6
<1>5. EntriesTrue' /\ InOnePlace' /\ QueuedOnce'
  BY <1>3, <1>4
<1>6. FirstStillWaits'
  BY <1>0, <1>1, <1>2 DEF FirstStillWaits
<1>7. BatchFresh'
  BY <1>0, <1>1, <1>2 DEF BatchFresh
<1> QED BY <1>5, <1>6, <1>7 DEF NoStrandedCoroutine

LEMMA DispatchCallbackKeeps ==
  ASSUME TypeOK, CorInv, NEW e \in re_events \ {WakeEvent}, DispatchCallback(e)
  PROVE  EntriesTrue' /\ BatchFresh' /\ NoStrandedCoroutine'
<1>0. /\ FdsMirrorEpoll /\ EntriesTrue /\ BatchFresh /\ InOnePlace /\ QueuedOnce /\ FirstStillWaits
  BY DEF CorInv, NoStrandedCoroutine
<1>1. UNCHANGED <<first_coroutine, coroutine_tasks>>
  BY DEF DispatchCallback
<1>2. /\ EntriesTrue' /\ InOnePlace' /\ QueuedOnce' /\ waiting \subseteq waiting'
      /\ \A f \in CorFds : owner[f] = "self" => owner'[f] = "self"
  <2>1. CASE UserCode
    BY <1>0, <1>1, <2>1, UserCodeKeeps
  <2>2. CASE UNCHANGED <<kernel, cors>>
    <3>1. UNCHANGED <<m_fds, epoll, hung_up, waiting, owner, coroutine_tasks>>
      BY <1>1, <2>2 DEF kernel, cors
    <3> QED BY <1>0, <3>1 DEF EntriesTrue, InOnePlace, HasOnePlace, QueuedOnce, Elems
  <2> QED BY <2>1, <2>2 DEF DispatchCallback
<1>3. FirstStillWaits'
  BY <1>0, <1>1, <1>2 DEF FirstStillWaits, TypeOK
<1>4. \A d \in re_events' : d.ptr \in CorFds => d \in re_events
  <2>1. CASE re_events' = re_events \ {e}
    BY <2>1
  <2>2. CASE e.ptr \in CallbackFds /\ \E rest :
               re_events' = (re_events \ {e})
                              \cup (IF rest = {} THEN {} ELSE {EventsOf(e.ptr, rest)})
    BY <2>2, CorFdsAreFds DEF EventsOf
  <2> QED BY <2>1, <2>2 DEF DispatchCallback
<1>5. BatchFresh'
  BY <1>0, <1>1, <1>2, <1>4 DEF BatchFresh
<1> QED BY <1>2, <1>3, <1>5 DEF NoStrandedCoroutine

LEMMA DispatchKeeps == ASSUME TypeOK, CorInv, Dispatch PROVE CorInv'
<1>1. PICK e \in re_events \ {WakeEvent} :
        DispatchUnknown(e) \/ DispatchCoroutine(e) \/ DispatchCallback(e)
  BY DEF Dispatch
<1>2. EntriesTrue' /\ BatchFresh' /\ NoStrandedCoroutine'
  BY <1>1, DispatchUnknownKeeps, DispatchCoroutineKeeps, DispatchCallbackKeeps
<1>3. RequestsApart'
  BY DEF CorInv, RequestsApart, Dispatch, LoopUnchanged, fdreqs, Elems
<1>4. FirstUsed'
  BY DEF Dispatch, FirstUsed
<1>5. FdsMirrorEpoll'
  BY DispatchMirrors DEF CorInv
<1> QED BY <1>2, <1>3, <1>4, <1>5 DEF CorInv

(* epoll_wait reports entries of the interest list, each once.             *)
LEMMA EpollReturnsKeeps == ASSUME TypeOK, CorInv, EpollReturns PROVE CorInv'
<1>0. /\ FdsMirrorEpoll /\ EntriesTrue /\ RequestsApart /\ FirstUsed /\ NoStrandedCoroutine
  BY DEF CorInv
<1>1. UNCHANGED <<m_fds, epoll, hung_up, waiting, owner, coroutine_tasks, first_coroutine,
                  m_pending_add_fds, m_pending_del_fds>>
  BY DEF EpollReturns, LoopUnchanged, kernel, cors, fdreqs
<1>2. first_coroutine = NoFd
  BY <1>0 DEF EpollReturns, FirstUsed
<1>3. /\ re_events' \subseteq ReadySources
      /\ \A d, e \in re_events' \ {WakeEvent} : d.ptr = e.ptr => d = e
  BY DEF EpollReturns
<1>4. ASSUME NEW e \in re_events', e.ptr \in CorFds
      PROVE  owner[e.ptr] = "self" /\ e # WakeEvent
  <2>1. NoFd \notin CorFds
    BY CorFdsAreFds, ReactorAssumption DEF ReactorAssumption
  <2>2. e # WakeEvent
    BY <1>4, <2>1
  <2>3. e \in UNION {Reports(epoll[f]) : f \in {g \in Fds : epoll[g] # NotRegistered}}
    BY <1>3, <2>2 DEF ReadySources
  <2>4. PICK f \in Fds : epoll[f] # NotRegistered /\ e \in Reports(epoll[f])
    BY <2>3
  <2>5. e.ptr = epoll[f].ptr
    BY <2>4 DEF Reports, EventsOf
  <2>6. f \in m_fds
    BY <1>0, <2>4 DEF FdsMirrorEpoll
  <2>7. f \in CorFds /\ e.ptr = f
    BY <1>0, <1>4, <2>5, <2>6 DEF EntriesTrue
  <2> QED BY <1>0, <2>2, <2>6, <2>7 DEF EntriesTrue
<1>5. BatchFresh'
  <2> SUFFICES ASSUME NEW e \in re_events', e.ptr \in CorFds
               PROVE  /\ owner[e.ptr] = "self" /\ e.ptr # first_coroutine
                      /\ \A d \in re_events' : d.ptr = e.ptr => d = e
    BY <1>1 DEF BatchFresh
  <2>1. e.ptr # NoFd
    BY CorFdsAreFds, ReactorAssumption DEF ReactorAssumption
  <2> QED BY <1>2, <1>3, <1>4, <2>1
<1>6. FdsMirrorEpoll' /\ EntriesTrue' /\ RequestsApart'
  BY <1>0, <1>1 DEF FdsMirrorEpoll, EntriesTrue, RequestsApart, Elems
<1>7. NoStrandedCoroutine'
  BY <1>0, <1>1 DEF NoStrandedCoroutine, InOnePlace, HasOnePlace, QueuedOnce, FirstStillWaits, Elems
<1>8. FirstUsed'
  BY DEF EpollReturns, FirstUsed
<1> QED BY <1>5, <1>6, <1>7, <1>8 DEF CorInv

LEMMA PendingFdsKeeps == ASSUME LocalCoroutines, TypeOK, CorInv, PendingFds PROVE CorInv'
<1>0. /\ FdsMirrorEpoll /\ EntriesTrue /\ RequestsApart /\ BatchFresh /\ FirstUsed
      /\ InOnePlace /\ QueuedOnce /\ FirstStillWaits
  BY DEF CorInv, NoStrandedCoroutine
<1>1. UNCHANGED <<hung_up, waiting, owner, coroutine_tasks, first_coroutine, re_events>>
  BY DEF PendingFds, cors
<1> DEFINE key(e) == PendingAddKey(e.ptr)
           adds   == {e \in m_pending_add_fds :
                        (key(e) \in m_fds) = (epoll[key(e)] # NotRegistered)}
           added  == [f \in Fds |-> IF \E e \in adds : key(e) = f
                                    THEN CHOOSE e \in adds : key(e) = f ELSE epoll[f]]
           fds    == m_fds \cup {key(e) : e \in adds}
           dels   == Elems(m_pending_del_fds) \cap fds
<1>2. /\ epoll' = [f \in Fds |-> IF f \in dels THEN NotRegistered ELSE added[f]]
      /\ m_fds' = fds \ dels
  BY DEF PendingFds
<1>3. /\ \A e \in adds : e.ptr \notin CorFds /\ key(e) \notin CorFds
      /\ dels \cap CorFds = {}
  BY <1>0 DEF RequestsApart, PendingAddKey, LocalCoroutines
<1>4. ASSUME NEW f \in Fds
      PROVE  \/ added[f] \in adds /\ f \notin CorFds
             \/ added[f] = epoll[f] /\ (f \in fds <=> f \in m_fds)
  <2>1. CASE \E e \in adds : key(e) = f
    <3> HIDE DEF adds, key
    <3>1. (CHOOSE e \in adds : key(e) = f) \in adds
      BY <2>1
    <3> QED BY <1>3, <2>1, <3>1
  <2>2. CASE ~ \E e \in adds : key(e) = f
    <3> HIDE DEF adds, key
    <3> QED BY <2>2
  <2> QED BY <2>1, <2>2
<1>5. fds \subseteq Fds
  BY ReactorAssumption DEF ReactorAssumption, PendingAddKey, TypeOK
<1> HIDE DEF key, adds, added, fds, dels
<1>6. \A f \in CorFds : /\ epoll'[f] = epoll[f] /\ (f \in m_fds' <=> f \in m_fds)
                        /\ (f \in hung_up' <=> f \in hung_up)
  BY <1>1, <1>2, <1>3, <1>4, CorFdsAreFds
<1>7. \A f \in m_fds' \ CorFds : epoll'[f].ptr \notin CorFds
  BY <1>0, <1>2, <1>3, <1>4, <1>5 DEF EntriesTrue
<1>8. EntriesTrue' /\ InOnePlace' /\ QueuedOnce'
  BY <1>0, <1>1, <1>6, <1>7, OffCoroutines DEF cors
<1>9. FirstStillWaits' /\ BatchFresh'
  BY <1>0, <1>1 DEF FirstStillWaits, BatchFresh
<1>10. RequestsApart' /\ FirstUsed'
  BY <1>1 DEF RequestsApart, FirstUsed, PendingFds, Elems
<1>11. FdsMirrorEpoll'
  BY <1>0, PendingFdsMirrors
<1> QED BY <1>8, <1>9, <1>10, <1>11 DEF CorInv, NoStrandedCoroutine

(* A step that changes nothing about descriptors and coroutines.           *)
LEMMA CorInvStutters ==
  ASSUME CorInv, UNCHANGED <<kernel, cors, coroutine_tasks, fdreqs, re_events>>,
         first_coroutine' \in {first_coroutine, NoFd},
         loop_pc' \in {"steal", "swap", "tasks", "epoll_wait"} => first_coroutine' = NoFd,
         TypeOK
  PROVE  CorInv'
<1>0. /\ FdsMirrorEpoll /\ EntriesTrue /\ RequestsApart /\ BatchFresh /\ FirstUsed
      /\ InOnePlace /\ QueuedOnce /\ FirstStillWaits
  BY DEF CorInv, NoStrandedCoroutine
<1>1. UNCHANGED <<m_fds, epoll, hung_up, waiting, owner, coroutine_tasks, re_events,
                  m_pending_add_fds, m_pending_del_fds>>
  BY DEF kernel, cors, fdreqs
<1>2. FdsMirrorEpoll' /\ EntriesTrue' /\ RequestsApart' /\ FirstUsed'
  BY <1>0, <1>1 DEF FdsMirrorEpoll, EntriesTrue, RequestsApart, FirstUsed, Elems
<1>3. InOnePlace' /\ QueuedOnce' /\ FirstStillWaits'
  BY <1>0, <1>1 DEF InOnePlace, HasOnePlace, QueuedOnce, FirstStillWaits, Elems
<1>4. BatchFresh'
  <2>1. NoFd \notin CorFds
    BY CorFdsAreFds, ReactorAssumption DEF ReactorAssumption
  <2> QED BY <1>0, <1>1, <2>1 DEF BatchFresh
<1> QED BY <1>2, <1>3, <1>4 DEF CorInv, NoStrandedCoroutine

LEMMA LoopBeginKeeps == ASSUME TypeOK, CorInv, LoopBegin PROVE CorInv'
<1>0. /\ FdsMirrorEpoll /\ EntriesTrue /\ RequestsApart /\ BatchFresh
      /\ InOnePlace /\ QueuedOnce /\ FirstStillWaits
  BY DEF CorInv, NoStrandedCoroutine
<1>1. UNCHANGED <<owner, coroutine_tasks, fdreqs, re_events>> /\ first_coroutine' = NoFd
  BY DEF LoopBegin, LoopUnchanged
<1>2. CASE first_coroutine = NoFd
  <2>1. UNCHANGED <<m_fds, epoll, hung_up, waiting>>
    BY <1>2 DEF LoopBegin, kernel
  <2> QED BY <1>1, <2>1, CorInvStutters DEF kernel, cors
<1>3. CASE first_coroutine # NoFd
  <2>1. first_coroutine \in CorFds /\ owner[first_coroutine] = "self" /\ resume(first_coroutine)
    BY <1>0, <1>3 DEF FirstStillWaits, LoopBegin, TypeOK
  <2>2. EntriesTrue' /\ InOnePlace' /\ QueuedOnce'
    BY <1>0, <1>1, <2>1, ResumeAtHomeKeeps
  <2>3. FdsMirrorEpoll'
    BY <1>0, <2>1, CorFdsAreFds, ResumeMirrors
  <2>4. NoFd \notin CorFds
    BY CorFdsAreFds, ReactorAssumption DEF ReactorAssumption
  <2>5. FirstStillWaits' /\ FirstUsed' /\ BatchFresh' /\ RequestsApart'
    BY <1>0, <1>1, <2>4
       DEF FirstStillWaits, FirstUsed, BatchFresh, RequestsApart, fdreqs, Elems
  <2> QED BY <2>2, <2>3, <2>5 DEF CorInv, NoStrandedCoroutine
<1> QED BY <1>2, <1>3

LEMMA StealKeeps == ASSUME TypeOK, CorInv, StealCoroutine PROVE CorInv'
<1> DEFINE h == Head(coroutine_tasks)
<1>0. /\ FdsMirrorEpoll /\ EntriesTrue /\ RequestsApart /\ BatchFresh
      /\ InOnePlace /\ QueuedOnce /\ FirstUsed
  BY DEF CorInv, NoStrandedCoroutine
<1>1. /\ UNCHANGED <<fdreqs, re_events, first_coroutine>> /\ first_coroutine = NoFd
  BY <1>0 DEF StealCoroutine, LoopUnchanged, FirstUsed
<1>2. CASE coroutine_tasks = <<>>
  <2>1. UNCHANGED <<kernel, cors, coroutine_tasks>>
    BY <1>2 DEF StealCoroutine
  <2> QED BY <1>1, <2>1, CorInvStutters
<1>3. CASE coroutine_tasks # <<>>
  <2>1. /\ coroutine_tasks' = Tail(coroutine_tasks) /\ owner' = [owner EXCEPT ![h] = "self"]
        /\ resume(h)
    BY <1>3 DEF StealCoroutine
  <2>2. coroutine_tasks \in Seq(CorFds) /\ Once(coroutine_tasks) /\ h \in CorFds
    BY <1>0, <1>3 DEF TypeOK, QueuedOnce, Once
  <2>3. Once(coroutine_tasks') /\ Elems(coroutine_tasks') = Elems(coroutine_tasks) \ {h}
    BY <1>3, <2>1, <2>2, OnceTail
  <2>4. EntriesTrue' /\ InOnePlace' /\ QueuedOnce'
    BY <1>0, <2>1, <2>2, <2>3, ResumeKeeps
  <2>5. FdsMirrorEpoll'
    BY <1>0, <2>1, <2>2, CorFdsAreFds, ResumeMirrors
  <2>6. BatchFresh'
    BY <1>0, <1>1, <2>1, <2>2 DEF BatchFresh, TypeOK
  <2>7. FirstStillWaits' /\ FirstUsed' /\ RequestsApart'
    BY <1>0, <1>1 DEF FirstStillWaits, FirstUsed, RequestsApart, fdreqs, Elems
  <2> QED BY <2>4, <2>5, <2>6, <2>7 DEF CorInv, NoStrandedCoroutine
<1> QED BY <1>2, <1>3

LEMMA RunTaskKeeps == ASSUME TypeOK, CorInv, RunTask PROVE CorInv'
<1>0. /\ FdsMirrorEpoll /\ EntriesTrue /\ RequestsApart /\ BatchFresh
      /\ InOnePlace /\ QueuedOnce /\ FirstUsed
  BY DEF CorInv, NoStrandedCoroutine
<1>1. /\ UserCode /\ UNCHANGED <<fdreqs, re_events, first_coroutine, coroutine_tasks>>
      /\ first_coroutine = NoFd
  BY <1>0 DEF RunTask, LoopUnchanged, FirstUsed
<1>2. /\ EntriesTrue' /\ InOnePlace' /\ QueuedOnce'
      /\ \A f \in CorFds : owner[f] = "self" => owner'[f] = "self"
  BY <1>0, <1>1, UserCodeKeeps
<1>3. FdsMirrorEpoll'
  BY <1>0, <1>1, UserCodeMirrors
<1>4. BatchFresh'
  BY <1>0, <1>1, <1>2 DEF BatchFresh
<1>5. FirstStillWaits' /\ FirstUsed' /\ RequestsApart'
  BY <1>0, <1>1 DEF FirstStillWaits, FirstUsed, RequestsApart, fdreqs, Elems
<1> QED BY <1>2, <1>3, <1>4, <1>5 DEF CorInv, NoStrandedCoroutine

LEMMA LoopKeeps == ASSUME LocalCoroutines, TypeOK, CorInv, LoopSteps PROVE CorInv'
<1>1. CASE \/ LoopEnter \/ LoopReset \/ LoopEnd \/ SwapTasks \/ TasksDone \/ EpollTimeout
           \/ DispatchDone
  <2>1. /\ UNCHANGED <<kernel, cors, coroutine_tasks, fdreqs, re_events>>
        /\ first_coroutine' \in {first_coroutine, NoFd}
    BY <1>1 DEF LoopEnter, LoopReset, LoopEnd, SwapTasks, TasksDone, EpollTimeout, DispatchDone,
                LoopUnchanged
  <2>2. loop_pc' \in {"steal", "swap", "tasks", "epoll_wait"} => first_coroutine' = NoFd
    BY <1>1 DEF LoopEnter, LoopReset, LoopEnd, SwapTasks, TasksDone, EpollTimeout, DispatchDone,
                CorInv, FirstUsed
  <2> QED BY <2>1, <2>2, CorInvStutters
<1>2. CASE DrainWakeFd
  <2>1. /\ UNCHANGED <<kernel, cors, coroutine_tasks, fdreqs, first_coroutine, loop_pc>>
        /\ re_events' = re_events \ {WakeEvent}
    BY <1>2 DEF DrainWakeFd, LoopUnchanged
  <2>2. UNCHANGED <<m_fds, epoll, hung_up, waiting, owner, m_pending_add_fds, m_pending_del_fds>>
    BY <2>1 DEF kernel, cors, fdreqs
  <2>3. FdsMirrorEpoll' /\ EntriesTrue' /\ RequestsApart' /\ FirstUsed' /\ BatchFresh'
    BY <2>1, <2>2
       DEF CorInv, FdsMirrorEpoll, EntriesTrue, RequestsApart, FirstUsed, BatchFresh, Elems
  <2>4. NoStrandedCoroutine'
    BY <2>1, <2>2 DEF CorInv, NoStrandedCoroutine, InOnePlace, HasOnePlace, QueuedOnce,
                      FirstStillWaits, Elems
  <2> QED BY <2>3, <2>4 DEF CorInv
<1> QED BY <1>1, <1>2, LoopBeginKeeps, StealKeeps, RunTaskKeeps, EpollReturnsKeeps, DispatchKeeps,
           PendingFdsKeeps DEF LoopSteps, LoopRuns

LEMMA CallersKeep == ASSUME LocalCoroutines, TypeOK, CorInv, CallerSteps PROVE CorInv'
<1>0. PICK c \in Callers : addTask(c) \/ addEvent(c) \/ delEvent(c) \/ stop(c) \/ Wakeup(c)
  BY DEF CallerSteps
<1>1. UNCHANGED <<kernel, coroutine_tasks, re_events, first_coroutine, loop_pc, owner>>
  BY <1>0 DEF addTask, addEvent, delEvent, stop, Wakeup, cors
<1>2. UNCHANGED waiting
  <2>1. ASSUME NEW fd \in ForeignFds, waiting' = waiting \cup (CorFds \cap {fd})
        PROVE  UNCHANGED waiting
    BY <2>1 DEF LocalCoroutines
  <2> QED BY <1>0, <2>1 DEF addTask, addEvent, delEvent, stop, Wakeup, cors
<1>3. RequestsApart'
  <2>0. RequestsApart
    BY DEF CorInv
  <2>1. CASE addTask(c) \/ stop(c) \/ Wakeup(c)
    BY <2>0, <2>1 DEF addTask, stop, Wakeup, fdreqs, RequestsApart, Elems
  <2>2. CASE addEvent(c)
    <3>1. PICK fd \in ForeignFds : InsertPendingAdd(fd, {"read"})
      BY <2>2 DEF addEvent
    <3>2. fd \notin CorFds
      BY DEF LocalCoroutines
    <3>3. UNCHANGED m_pending_del_fds
      BY <2>2 DEF addEvent
    <3> QED BY <2>0, <3>1, <3>2, <3>3 DEF InsertPendingAdd, EventsOf, RequestsApart, Elems
  <2>3. CASE delEvent(c)
    <3>1. PICK fd \in ForeignFds : m_pending_del_fds' = Append(m_pending_del_fds, fd)
      BY <2>3 DEF delEvent
    <3>2. fd \notin CorFds /\ fd \in Fds
      BY ReactorAssumption DEF LocalCoroutines, ReactorAssumption
    <3>3. Elems(m_pending_del_fds') = Elems(m_pending_del_fds) \cup {fd}
      BY <3>1, <3>2, ElemsAppend DEF TypeOK
    <3>4. UNCHANGED m_pending_add_fds
      BY <2>3 DEF delEvent
    <3> QED BY <2>0, <3>2, <3>3, <3>4 DEF RequestsApart
  <2> QED BY <1>0, <2>1, <2>2, <2>3
<1>4. UNCHANGED <<m_fds, epoll, hung_up, waiting, owner, coroutine_tasks, re_events,
                  first_coroutine, loop_pc>>
  BY <1>1, <1>2 DEF kernel
<1>5. FdsMirrorEpoll' /\ EntriesTrue' /\ FirstUsed' /\ BatchFresh'
  BY <1>4 DEF CorInv, FdsMirrorEpoll, EntriesTrue, FirstUsed, BatchFresh
<1>6. NoStrandedCoroutine'
  BY <1>4 DEF CorInv, NoStrandedCoroutine, InOnePlace, HasOnePlace, QueuedOnce, FirstStillWaits,
              Elems
<1> QED BY <1>3, <1>5, <1>6 DEF CorInv

(* The other reactors handle coroutines that this one does not have.       *)
LEMMA OthersKeep == ASSUME TypeOK, CorInv, OtherReactors PROVE CorInv'
<1>0. /\ FdsMirrorEpoll /\ EntriesTrue /\ RequestsApart /\ BatchFresh /\ FirstUsed
      /\ InOnePlace /\ QueuedOnce /\ FirstStillWaits
  BY DEF CorInv, NoStrandedCoroutine
<1>1. UNCHANGED <<m_fds, epoll, hung_up, re_events, first_coroutine, loop_pc,
                  m_pending_add_fds, m_pending_del_fds>>
  BY DEF OtherReactors, OtherBlocks, OtherPushes, OtherSteals, OtherUnchanged, kernel, fdreqs
<1>2. ASSUME NEW fd \in CorFds, owner[fd] # "self", NEW o \in {"other", "none"},
             owner' = [owner EXCEPT ![fd] = o],
             \A f \in CorFds \ {fd} : /\ f \in waiting' <=> f \in waiting
                                      /\ f \in Elems(coroutine_tasks') <=> f \in Elems(coroutine_tasks),
             waiting' \subseteq CorFds,
             fd \in waiting' => (o = "none" <=> fd \in Elems(coroutine_tasks')),
             QueuedOnce'
      PROVE  CorInv'
  <2>1. \A f \in CorFds \ {fd} : owner'[f] = owner[f]
    BY <1>2 DEF TypeOK
  <2>2. owner'[fd] = o /\ fd \notin m_fds
    BY <1>0, <1>2 DEF TypeOK, EntriesTrue
  <2>3. InOnePlace'
    <3> SUFFICES ASSUME NEW f \in waiting' PROVE HasOnePlace(f)'
      BY DEF InOnePlace
    <3>1. CASE f = fd
      BY <1>1, <1>2, <2>2, <3>1 DEF HasOnePlace
    <3>2. CASE f # fd
      <4>1. f \in waiting /\ f \in CorFds /\ owner'[f] = owner[f]
            /\ (f \in Elems(coroutine_tasks') <=> f \in Elems(coroutine_tasks))
        BY <1>2, <2>1, <3>2
      <4> QED BY <1>0, <1>1, <4>1 DEF InOnePlace, HasOnePlace
    <3> QED BY <3>1, <3>2
  <2>4. EntriesTrue'
    BY <1>0, <1>1, <2>1, <2>2 DEF EntriesTrue
  <2>5. BatchFresh'
    BY <1>0, <1>1, <1>2, <2>1 DEF BatchFresh
  <2>6. FirstStillWaits'
    BY <1>0, <1>1, <1>2, <2>1 DEF FirstStillWaits, TypeOK
  <2>7. FdsMirrorEpoll' /\ RequestsApart' /\ FirstUsed'
    BY <1>0, <1>1 DEF FdsMirrorEpoll, RequestsApart, FirstUsed, Elems
  <2> QED BY <1>2, <2>3, <2>4, <2>5, <2>6, <2>7 DEF CorInv, NoStrandedCoroutine
<1>3. ASSUME NEW fd \in CorFds, OtherBlocks(fd) PROVE CorInv'
  <2>1. /\ fd \notin waiting /\ owner[fd] # "self" /\ owner' = [owner EXCEPT ![fd] = "other"]
        /\ waiting' = waiting \cup {fd} /\ coroutine_tasks' = coroutine_tasks
    BY <1>3 DEF OtherBlocks
  <2>2. Elems(coroutine_tasks') = Elems(coroutine_tasks) /\ fd \notin Elems(coroutine_tasks)
    BY <1>0, <2>1 DEF QueuedOnce
  <2>3. QueuedOnce'
    BY <1>0, <2>1 DEF QueuedOnce, Elems
  <2>4. waiting' \subseteq CorFds
    BY <2>1 DEF TypeOK
  <2> QED BY <1>2, <2>1, <2>2, <2>3, <2>4
<1>4. ASSUME NEW fd \in CorFds, OtherPushes(fd) PROVE CorInv'
  <2>1. /\ fd \in waiting /\ owner[fd] = "other" /\ owner' = [owner EXCEPT ![fd] = "none"]
        /\ waiting' = waiting /\ coroutine_tasks' = Append(coroutine_tasks, fd)
    BY <1>4 DEF OtherPushes
  <2>2. coroutine_tasks \in Seq(CorFds) /\ Once(coroutine_tasks)
    BY <1>0 DEF TypeOK, QueuedOnce, Once
  <2>3. fd \notin Elems(coroutine_tasks)
    BY <1>0, <2>1, QueuedHasNone
  <2>4. /\ Elems(coroutine_tasks') = Elems(coroutine_tasks) \cup {fd}
        /\ Once(coroutine_tasks')
    BY <2>1, <2>2, <2>3, ElemsAppend, OnceAppend
  <2>5. QueuedOnce'
    BY <1>0, <2>1, <2>4 DEF QueuedOnce, Once
  <2>6. waiting' \subseteq CorFds
    BY <2>1 DEF TypeOK
  <2> QED BY <1>2, <2>1, <2>4, <2>5, <2>6
<1>5. ASSUME OtherSteals PROVE CorInv'
  <2> DEFINE h == Head(coroutine_tasks)
  <2>1. /\ coroutine_tasks # <<>> /\ coroutine_tasks' = Tail(coroutine_tasks)
        /\ owner' = [owner EXCEPT ![h] = "other"]
        /\ waiting' = waiting \/ waiting' = waiting \ {h}
    BY <1>5 DEF OtherSteals
  <2>2. coroutine_tasks \in Seq(CorFds) /\ Once(coroutine_tasks) /\ h \in CorFds
    BY <1>0, <2>1 DEF TypeOK, QueuedOnce, Once
  <2>3. h \in Elems(coroutine_tasks)
    BY <2>1, <2>2 DEF Elems
  <2>4. owner[h] # "self"
    BY <1>0, <2>3, QueuedHasNone
  <2>5. Once(coroutine_tasks') /\ Elems(coroutine_tasks') = Elems(coroutine_tasks) \ {h}
    BY <2>1, <2>2, OnceTail
  <2>6. QueuedOnce'
    BY <1>0, <2>1, <2>5 DEF QueuedOnce, Once
  <2>7. waiting' \subseteq CorFds
    BY <2>1 DEF TypeOK
  <2> QED BY <1>2, <2>1, <2>2, <2>4, <2>5, <2>6, <2>7
<1> QED BY <1>3, <1>4, <1>5 DEF OtherReactors

LEMMA NextKeeps == ASSUME LocalCoroutines, TypeOK, CorInv, [Next]_vars PROVE CorInv'
<1>1. CASE UNCHANGED vars
  <2>1. UNCHANGED <<kernel, cors, coroutine_tasks, fdreqs, re_events, first_coroutine, loop_pc>>
    BY <1>1 DEF vars
  <2>2. loop_pc' \in {"steal", "swap", "tasks", "epoll_wait"} => first_coroutine' = NoFd
    BY <2>1 DEF CorInv, FirstUsed
  <2> QED BY <2>1, <2>2, CorInvStutters
<1> QED BY <1>1, CallersKeep, OthersKeep, LoopKeeps DEF Next

(* A blocked coroutine is always in exactly one place that will resume it, *)
(* whatever the threads, the other reactors and the kernel do: this        *)
(* reactor listens on its fd, or the fd is in the shared queue once and    *)
(* nobody listens, or another reactor has it; only an event with neither   *)
(* EPOLLIN nor EPOLLOUT takes it off (reactor.cpp:214).  The hypothesis    *)
(* leaves out requests that come from other threads about coroutines,      *)
(* which reactor.cpp:85 files under one key and may drop.                  *)
THEOREM CoroutinesKept == ASSUME LocalCoroutines PROVE Spec => []NoStrandedCoroutine
<1>1. Init => CorInv
  <2> SUFFICES ASSUME Init PROVE CorInv
    OBVIOUS
  <2>1. FdsMirrorEpoll /\ EntriesTrue /\ RequestsApart /\ BatchFresh /\ FirstUsed
    BY DEF Init, FdsMirrorEpoll, EntriesTrue, RequestsApart, BatchFresh, FirstUsed, Elems
  <2>2. NoStrandedCoroutine
    BY DEF Init, NoStrandedCoroutine, InOnePlace, QueuedOnce, FirstStillWaits, Elems
  <2> QED BY <2>1, <2>2 DEF CorInv
<1>2. TypeOK /\ CorInv /\ [Next]_vars => CorInv'
  BY NextKeeps
<1>3. CorInv => NoStrandedCoroutine
  BY DEF CorInv
<1> QED BY <1>1, <1>2, <1>3, TypeCorrect, PTL DEF Spec
==============================================================================
