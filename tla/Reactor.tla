------------------------------ MODULE Reactor ------------------------------
(***************************************************************************)
(* One Reactor (src/src/network/reactor.cpp) and everything that touches   *)
(* it: the thread that runs Reactor::loop(), the other threads that call   *)
(* addTask, addEvent, delEvent and stop, the kernel (epoll set, eventfd),  *)
(* and the other reactors, seen through the shared CoroutineTaskQueue.     *)
(*                                                                         *)
(* A critical section of m_mutex is one action; between two critical       *)
(* sections, and around the unlocked flags m_is_looping and m_stop_flag,   *)
(* the threads interleave.  User code that the loop runs (a task, a timer  *)
(* callback) makes at most one call on its own reactor.                    *)
(***************************************************************************)
EXTENDS Integers, Sequences, FiniteSets

CONSTANTS
  Callers,      (* threads other than the loop thread                        *)
  Tasks,        (* std::function objects handed to addTask, each once        *)
  Fds,          (* file descriptors, as numbers                              *)
  CorFds,       (* fds on which coroutines block                             *)
  CallbackFds,  (* fds whose FdEvent has callbacks and no coroutine          *)
  TimerFd,      (* m_timer_fd, one of CallbackFds                            *)
  ForeignFds,   (* fds that other threads pass to addEvent and delEvent      *)
  ReactorTypes, (* what m_reactor_type may be                                *)
  LoopCalls,    (* the calls user code makes on the loop thread              *)
  MaxCallbacks, (* bound: callbacks pushed to m_pending_tasks                *)
  MaxDels       (* bound: length of m_pending_del_fds                        *)

IOEvents == {"read", "write"}

ReactorAssumption ==
  /\ Fds \subseteq Nat /\ 1 \in Fds
  /\ CorFds \subseteq Fds /\ CallbackFds \subseteq Fds \ CorFds
  /\ TimerFd \in CallbackFds /\ ForeignFds \subseteq CorFds \cup CallbackFds
  /\ Tasks \cap (Fds \X IOEvents) = {}
  /\ ReactorTypes \subseteq {"MainReactor", "SubReactor"} /\ MaxCallbacks \in Nat /\ MaxDels \in Nat

ASSUME ReactorAssumption

NoFd == -1
EpollEvents == [ptr : Fds, events : SUBSET IOEvents]
NotRegistered == [ptr |-> NoFd, events |-> {}]
WakeEvent == [ptr |-> NoFd, events |-> {"read"}]   \* reported for m_wake_fd

Callbacks == Fds \X IOEvents
Elements == Tasks \cup Callbacks          \* what m_pending_tasks holds

VARIABLES
  m_reactor_type, m_is_looping, m_stop_flag,
  m_pending_tasks, m_pending_add_fds, m_pending_del_fds,
  m_fds,             \* the fds the reactor believes it has registered
  epoll,             \* the kernel's interest list
  hung_up,           \* history: fds that an event without EPOLLIN and EPOLLOUT
                     \* unregistered, until they are registered again
  wake_fd,           \* the eventfd m_wake_fd is readable
  loop_pc,           \* where the loop thread is
  tmp_tasks, re_events, first_coroutine,   \* locals of loop()
  waiting,           \* the fds whose FdEvent::m_coroutine is set
  owner,             \* FdEvent::m_reactor of a coroutine's fd
  coroutine_tasks,   \* CoroutineTaskQueue, shared by all reactors
  caller_pc,         \* whether a caller thread still has to call wakeup()
  pushed, executed   \* history: what was pushed, what loop() has called

flags  == <<m_reactor_type, m_is_looping, m_stop_flag>>
queues == <<m_pending_tasks, pushed>>
fdreqs == <<m_pending_add_fds, m_pending_del_fds>>
kernel == <<m_fds, epoll, hung_up>>
cors   == <<waiting, owner>>
vars   == <<flags, queues, fdreqs, kernel, wake_fd, loop_pc, tmp_tasks, re_events,
            first_coroutine, cors, coroutine_tasks, caller_pc, executed>>

Elems(s) == {s[i] : i \in DOMAIN s}

IsMain == m_reactor_type = "MainReactor"

TypeOK ==
  /\ m_reactor_type \in ReactorTypes
  /\ m_is_looping \in BOOLEAN /\ m_stop_flag \in BOOLEAN /\ wake_fd \in BOOLEAN
  /\ m_pending_tasks \in Seq(Elements) /\ tmp_tasks \in Seq(Elements)
  /\ pushed \in Seq(Elements) /\ executed \in Seq(Elements)
  /\ m_pending_add_fds \in SUBSET EpollEvents
  /\ m_pending_del_fds \in Seq(Fds)
  /\ m_fds \in SUBSET Fds
  /\ epoll \in [Fds -> EpollEvents \cup {NotRegistered}]
  /\ hung_up \in SUBSET Fds
  /\ loop_pc \in {"created", "reset", "while", "steal", "swap", "tasks",
                  "epoll_wait", "dispatch", "pending", "ended"}
  /\ re_events \in SUBSET ({WakeEvent} \cup EpollEvents)
  /\ first_coroutine \in CorFds \cup {NoFd}
  /\ waiting \in SUBSET CorFds
  /\ owner \in [CorFds -> {"self", "other", "none"}]
  /\ coroutine_tasks \in Seq(CorFds)
  /\ caller_pc \in [Callers -> {"idle", "wakeup"}]

Init ==
  /\ m_reactor_type \in ReactorTypes
  /\ m_is_looping = FALSE /\ m_stop_flag = FALSE /\ wake_fd = FALSE
  /\ m_pending_tasks = <<>> /\ pushed = <<>> /\ executed = <<>>
  /\ m_pending_add_fds = {} /\ m_pending_del_fds = <<>>
  /\ m_fds = {} /\ epoll = [f \in Fds |-> NotRegistered] /\ hung_up = {}
  /\ loop_pc = "created"
  /\ tmp_tasks = <<>> /\ re_events = {} /\ first_coroutine = NoFd
  /\ waiting = {} /\ owner = [f \in CorFds |-> "none"]
  /\ coroutine_tasks = <<>>
  /\ caller_pc = [c \in Callers |-> "idle"]

-----------------------------------------------------------------------------
PushTask(e) ==
  /\ e \in Tasks => e \notin Elems(pushed)      \* each task is handed over once
  /\ m_pending_tasks' = Append(m_pending_tasks, e)
  /\ pushed' = Append(pushed, e)

(* Mutant: a reactor that was told to stop is not woken.                   *)
wakeupUnlessStopping == wake_fd' = (wake_fd \/ (m_is_looping /\ ~m_stop_flag))

(* The eventfd is written only for a reactor that loops.                   *)
wakeup == wake_fd' = (wake_fd \/ m_is_looping)

(* The interest list is changed on the loop thread only.  epoll_ctl adds   *)
(* an fd that has no entry, or modifies the entry that is there.           *)
addEventInLoopThread(fd, event) ==
  /\ epoll' = IF (fd \in m_fds) = (epoll[fd] # NotRegistered)
              THEN [epoll EXCEPT ![fd] = event] ELSE epoll
  /\ m_fds' = IF epoll[fd] = NotRegistered THEN m_fds \cup {fd} ELSE m_fds
  /\ hung_up' = hung_up \ {fd}

(* Mutant: the entry leaves the kernel's list and stays in m_fds.          *)
delEventKeepsFd(fd) ==
  /\ epoll' = IF fd \in m_fds THEN [epoll EXCEPT ![fd] = NotRegistered] ELSE epoll
  /\ UNCHANGED m_fds

delEventInLoopThread(fd) ==
  /\ epoll' = IF fd \in m_fds THEN [epoll EXCEPT ![fd] = NotRegistered] ELSE epoll
  /\ m_fds' = m_fds \ {fd}

EventsOf(fd, events) == [ptr |-> fd, events |-> events]

(* m_pending_add_fds is a map keyed by fd; every insertion uses the key 1, *)
(* and an insertion under a key that is taken leaves the map as it is.     *)
PendingAddKey(fd) == 1
InsertPendingAdd(fd, events) ==
  m_pending_add_fds' = IF m_pending_add_fds = {} THEN {EventsOf(fd, events)}
                       ELSE m_pending_add_fds

-----------------------------------------------------------------------------
(* The other threads: a critical section of m_mutex, then wakeup() *)

addTask(c) ==
  /\ caller_pc[c] = "idle"
  /\ \E t \in Tasks : PushTask(t)
  /\ caller_pc' = [caller_pc EXCEPT ![c] = "wakeup"]
  /\ UNCHANGED <<flags, fdreqs, kernel, wake_fd, loop_pc, tmp_tasks, re_events,
                 first_coroutine, cors, coroutine_tasks, executed>>

(* A coroutine of another thread blocks on an fd whose FdEvent still names *)
(* this reactor (the descriptor's number was used here before), or a       *)
(* thread registers an FdEvent with callbacks.                             *)
addEvent(c) ==
  /\ caller_pc[c] = "idle"
  /\ \E fd \in ForeignFds :
       /\ fd \in CorFds => owner[fd] = "self" /\ fd \notin waiting
       /\ InsertPendingAdd(fd, {"read"})
       /\ waiting' = waiting \cup (CorFds \cap {fd})
  /\ caller_pc' = [caller_pc EXCEPT ![c] = "wakeup"]
  /\ UNCHANGED <<flags, queues, m_pending_del_fds, kernel, wake_fd, loop_pc, tmp_tasks,
                 re_events, first_coroutine, owner, coroutine_tasks, executed>>

delEvent(c) ==
  /\ caller_pc[c] = "idle"
  /\ Len(m_pending_del_fds) < MaxDels
  /\ \E fd \in ForeignFds \ waiting : m_pending_del_fds' = Append(m_pending_del_fds, fd)
  /\ caller_pc' = [caller_pc EXCEPT ![c] = "wakeup"]
  /\ UNCHANGED <<flags, queues, m_pending_add_fds, kernel, wake_fd, loop_pc, tmp_tasks,
                 re_events, first_coroutine, cors, coroutine_tasks, executed>>

stop(c) ==
  /\ caller_pc[c] = "idle"
  /\ ~m_stop_flag /\ m_is_looping
  /\ m_stop_flag' = TRUE
  /\ caller_pc' = [caller_pc EXCEPT ![c] = "wakeup"]
  /\ UNCHANGED <<m_reactor_type, m_is_looping, queues, fdreqs, kernel, wake_fd, loop_pc, tmp_tasks,
                 re_events, first_coroutine, cors, coroutine_tasks, executed>>

Wakeup(c) ==
  /\ caller_pc[c] = "wakeup"
  /\ wakeup
  /\ caller_pc' = [caller_pc EXCEPT ![c] = "idle"]
  /\ UNCHANGED <<flags, queues, fdreqs, kernel, loop_pc, tmp_tasks, re_events,
                 first_coroutine, cors, coroutine_tasks, executed>>

-----------------------------------------------------------------------------
(* The other reactors: a coroutine of theirs blocks, its fd becomes ready  *)
(* and goes to the shared queue, and they steal from the queue too.        *)
OtherUnchanged == UNCHANGED <<flags, queues, fdreqs, kernel, wake_fd, loop_pc, tmp_tasks,
                              re_events, first_coroutine, caller_pc, executed>>

OtherBlocks(fd) ==
  /\ fd \notin waiting /\ owner[fd] # "self"
  /\ owner' = [owner EXCEPT ![fd] = "other"]
  /\ waiting' = waiting \cup {fd}
  /\ UNCHANGED coroutine_tasks /\ OtherUnchanged

OtherPushes(fd) ==
  /\ fd \in waiting /\ owner[fd] = "other"
  /\ owner' = [owner EXCEPT ![fd] = "none"]
  /\ coroutine_tasks' = Append(coroutine_tasks, fd)
  /\ UNCHANGED waiting /\ OtherUnchanged

OtherSteals ==
  /\ coroutine_tasks # <<>>
  /\ coroutine_tasks' = Tail(coroutine_tasks)
  /\ owner' = [owner EXCEPT ![Head(coroutine_tasks)] = "other"]
  /\ \/ UNCHANGED waiting
     \/ waiting' = waiting \ {Head(coroutine_tasks)}
  /\ OtherUnchanged

-----------------------------------------------------------------------------
(* What runs on the loop thread *)

(* Mutant: the coroutine blocks again without the delListenEvents before:  *)
(* addListenEvents finds its event in m_listen_events and skips the update.*)
resumeStillListening(fd) ==
  \/ /\ addEventInLoopThread(fd, EventsOf(fd, {}))
     /\ waiting' = waiting \ {fd}
  \/ /\ UNCHANGED kernel
     /\ waiting' = waiting \cup {fd}

(* A coroutine that yielded in read_hook runs again: it stops listening on *)
(* its fd and clears FdEvent::m_coroutine; then it ends or blocks again.   *)
resume(fd) ==
  \/ /\ addEventInLoopThread(fd, EventsOf(fd, {}))
     /\ waiting' = waiting \ {fd}
  \/ /\ addEventInLoopThread(fd, EventsOf(fd, {"read"}))
     /\ waiting' = waiting \cup {fd}

(* A coroutine started on this thread blocks on an fd for the first time,  *)
(* or again: read_hook takes the FdEvent if no reactor has it.             *)
StartCoroutine ==
  \E fd \in CorFds \ waiting :
    /\ owner[fd] # "other" /\ fd \notin Elems(coroutine_tasks)
    /\ owner' = [owner EXCEPT ![fd] = "self"]
    /\ waiting' = waiting \cup {fd}
    /\ addEventInLoopThread(fd, EventsOf(fd, {"read"}))

UserCode ==
  \/ UNCHANGED <<m_stop_flag, queues, wake_fd, kernel, cors>>
  \/ /\ "addTask" \in LoopCalls
     /\ \E t \in Tasks : PushTask(t)
     /\ wakeup
     /\ UNCHANGED <<m_stop_flag, kernel, cors>>
  \/ /\ "addEvent" \in LoopCalls
     /\ \E fd \in CallbackFds, events \in SUBSET IOEvents :
          addEventInLoopThread(fd, EventsOf(fd, events))
     /\ UNCHANGED <<m_stop_flag, queues, wake_fd, cors>>
  \/ /\ "delEvent" \in LoopCalls
     /\ \E fd \in CallbackFds : delEventInLoopThread(fd)
     /\ UNCHANGED <<hung_up, m_stop_flag, queues, wake_fd, cors>>
  \/ /\ "stop" \in LoopCalls
     /\ ~m_stop_flag /\ m_stop_flag' = TRUE
     /\ wakeup
     /\ UNCHANGED <<queues, kernel, cors>>
  \/ /\ "coroutine" \in LoopCalls
     /\ StartCoroutine
     /\ UNCHANGED <<m_stop_flag, queues, wake_fd>>

LoopUnchanged == UNCHANGED <<fdreqs, caller_pc>>

(* loop() raises m_is_looping, then lowers m_stop_flag: two writes that    *)
(* another thread may come between.                                        *)
LoopEnter ==
  /\ loop_pc = "created" /\ loop_pc' = "reset"
  /\ m_is_looping' = TRUE
  /\ UNCHANGED <<m_reactor_type, m_stop_flag, queues, kernel, wake_fd, tmp_tasks, re_events,
                 first_coroutine, cors, coroutine_tasks, executed>>
  /\ LoopUnchanged

LoopReset ==
  /\ loop_pc = "reset" /\ loop_pc' = "while"
  /\ m_stop_flag' = FALSE
  /\ first_coroutine' = NoFd
  /\ UNCHANGED <<m_reactor_type, m_is_looping, queues, kernel, wake_fd, tmp_tasks, re_events, cors,
                 coroutine_tasks, executed>>
  /\ LoopUnchanged

LoopEnd ==
  /\ loop_pc = "while" /\ loop_pc' = "ended"
  /\ m_stop_flag
  /\ m_is_looping' = FALSE
  /\ UNCHANGED <<m_reactor_type, m_stop_flag, queues, kernel, wake_fd, tmp_tasks, re_events,
                 first_coroutine, cors, coroutine_tasks, executed>>
  /\ LoopUnchanged

(* The head of the while body: the first coroutine of the last batch runs. *)
LoopBegin ==
  /\ loop_pc = "while"
  /\ loop_pc' = IF IsMain THEN "swap" ELSE "steal"
  /\ ~m_stop_flag
  /\ IF first_coroutine = NoFd THEN UNCHANGED <<kernel, waiting>> ELSE resume(first_coroutine)
  /\ first_coroutine' = NoFd
  /\ UNCHANGED <<flags, queues, wake_fd, tmp_tasks, re_events, owner, coroutine_tasks,
                 executed>>
  /\ LoopUnchanged

(* A sub reactor runs what any reactor put in the shared queue.            *)
StealCoroutine ==
  /\ loop_pc = "steal"
  /\ IF coroutine_tasks = <<>>
     THEN /\ loop_pc' = "swap"
          /\ UNCHANGED <<kernel, cors, coroutine_tasks>>
     ELSE /\ coroutine_tasks' = Tail(coroutine_tasks)
          /\ owner' = [owner EXCEPT ![Head(coroutine_tasks)] = "self"]
          /\ resume(Head(coroutine_tasks))
          /\ UNCHANGED loop_pc
  /\ UNCHANGED <<flags, queues, wake_fd, tmp_tasks, re_events, first_coroutine, executed>>
  /\ LoopUnchanged

(* Mutant: the pending tasks are copied, not swapped.                      *)
CopyTasks ==
  /\ loop_pc = "swap" /\ loop_pc' = "tasks"
  /\ tmp_tasks' = m_pending_tasks
  /\ UNCHANGED <<flags, queues, kernel, wake_fd, re_events, first_coroutine, cors,
                 coroutine_tasks, executed>>
  /\ LoopUnchanged

SwapTasks ==
  /\ loop_pc = "swap" /\ loop_pc' = "tasks"
  /\ tmp_tasks' = m_pending_tasks
  /\ m_pending_tasks' = <<>>
  /\ UNCHANGED <<flags, pushed, kernel, wake_fd, re_events, first_coroutine, cors,
                 coroutine_tasks, executed>>
  /\ LoopUnchanged

RunTask ==
  /\ loop_pc = "tasks" /\ tmp_tasks # <<>>
  /\ tmp_tasks' = Tail(tmp_tasks)
  /\ executed' = Append(executed, Head(tmp_tasks))
  /\ UserCode
  /\ UNCHANGED <<loop_pc, m_reactor_type, m_is_looping, re_events, first_coroutine,
                 coroutine_tasks>>
  /\ LoopUnchanged

(* Mutant: the pending tasks are cleared again after the loop over them.   *)
TasksDoneClears ==
  /\ loop_pc = "tasks" /\ tmp_tasks = <<>>
  /\ loop_pc' = "epoll_wait"
  /\ m_pending_tasks' = <<>>
  /\ UNCHANGED <<flags, pushed, kernel, wake_fd, tmp_tasks, re_events, first_coroutine, cors,
                 coroutine_tasks, executed>>
  /\ LoopUnchanged

TasksDone ==
  /\ loop_pc = "tasks" /\ tmp_tasks = <<>>
  /\ loop_pc' = "epoll_wait"
  /\ UNCHANGED <<flags, queues, kernel, wake_fd, tmp_tasks, re_events, first_coroutine, cors,
                 coroutine_tasks, executed>>
  /\ LoopUnchanged

-----------------------------------------------------------------------------
(* epoll_wait and the dispatch of its batch *)

(* What the kernel may report of an entry: a part of its interest, or a    *)
(* hang-up or an error alone, which it reports whatever the interest is.   *)
Reports(entry) == {EventsOf(entry.ptr, ev) : ev \in SUBSET entry.events}

ReadySources ==
  (IF wake_fd THEN {WakeEvent} ELSE {})
    \cup UNION {Reports(epoll[f]) : f \in {g \in Fds : epoll[g] # NotRegistered}}

CallbackCount(batch) ==
  Cardinality({p \in CallbackFds \X IOEvents :
                 \E e \in batch \ {WakeEvent} : e.ptr = p[1] /\ p[2] \in e.events})

EpollReturns ==
  /\ loop_pc = "epoll_wait" /\ loop_pc' = "dispatch"
  /\ \E batch \in SUBSET ReadySources \ {{}} :
       /\ Cardinality({i \in DOMAIN pushed : pushed[i] \in Callbacks})
            + CallbackCount(batch) <= MaxCallbacks
       /\ \A d, e \in batch \ {WakeEvent} : d.ptr = e.ptr => d = e
       /\ re_events' = batch
  /\ UNCHANGED <<flags, queues, kernel, wake_fd, tmp_tasks, first_coroutine, cors,
                 coroutine_tasks, executed>>
  /\ LoopUnchanged

(* The 10 s timeout returns no event; an error skips the pending fds.      *)
EpollTimeout ==
  /\ loop_pc = "epoll_wait" /\ loop_pc' \in {"pending", "while"}
  /\ UNCHANGED <<flags, queues, kernel, wake_fd, tmp_tasks, re_events, first_coroutine, cors,
                 coroutine_tasks, executed>>
  /\ LoopUnchanged

DrainWakeFd ==
  /\ loop_pc = "dispatch" /\ WakeEvent \in re_events
  /\ re_events' = re_events \ {WakeEvent}
  /\ wake_fd' = FALSE
  /\ UNCHANGED <<flags, queues, kernel, loop_pc, tmp_tasks, first_coroutine, cors,
                 coroutine_tasks, executed>>
  /\ LoopUnchanged

(* Neither EPOLLIN nor EPOLLOUT: the fd is unregistered.                   *)
DispatchUnknown(e) ==
  /\ e.events = {}
  /\ delEventInLoopThread(e.ptr)
  /\ hung_up' = hung_up \cup {e.ptr}
  /\ re_events' = re_events \ {e}
  /\ UNCHANGED <<m_stop_flag, queues, wake_fd, first_coroutine, cors, coroutine_tasks>>

(* The first coroutine of a batch is kept for the next turn of the loop;   *)
(* a sub reactor gives the others to the shared queue; the main reactor    *)
(* resumes them at once and forgets the one it kept.                       *)
DispatchCoroutine(e) ==
  /\ e.events # {} /\ e.ptr \in waiting
  /\ re_events' = re_events \ {e}
  /\ \/ /\ first_coroutine = NoFd
        /\ first_coroutine' = e.ptr
        /\ UNCHANGED <<kernel, cors, coroutine_tasks>>
     \/ /\ first_coroutine # NoFd /\ ~IsMain
        /\ delEventInLoopThread(e.ptr)
        /\ owner' = [owner EXCEPT ![e.ptr] = "none"]
        /\ coroutine_tasks' = Append(coroutine_tasks, e.ptr)
        /\ UNCHANGED <<hung_up, first_coroutine, waiting>>
     \/ /\ first_coroutine # NoFd /\ IsMain
        /\ resume(e.ptr)
        /\ first_coroutine' = NoFd
        /\ UNCHANGED <<owner, coroutine_tasks>>
  /\ UNCHANGED <<m_stop_flag, queues, wake_fd>>

(* The timer's callback runs at once; the others are pushed without a      *)
(* wakeup, the read callback in a critical section before the write one.   *)
(* The callbacks of a coroutine's FdEvent are null: nothing is called.     *)
DispatchCallback(e) ==
  /\ e.events # {} /\ e.ptr \notin waiting
  /\ \/ /\ e.ptr = TimerFd
        /\ re_events' = re_events \ {e}
        /\ UserCode
     \/ /\ e.ptr \in CorFds
        /\ re_events' = re_events \ {e}
        /\ UNCHANGED <<m_stop_flag, queues, wake_fd, kernel, cors>>
     \/ /\ e.ptr \in CallbackFds \ {TimerFd}
        /\ LET event == IF "read" \in e.events THEN "read" ELSE "write"
               rest  == e.events \ {event}
           IN  /\ PushTask(<<e.ptr, event>>)
               /\ re_events' = (re_events \ {e})
                               \cup (IF rest = {} THEN {} ELSE {EventsOf(e.ptr, rest)})
        /\ UNCHANGED <<m_stop_flag, wake_fd, kernel, cors>>
  /\ UNCHANGED <<first_coroutine, coroutine_tasks>>

Dispatch ==
  /\ loop_pc = "dispatch"
  /\ \E e \in re_events \ {WakeEvent} :
       DispatchUnknown(e) \/ DispatchCoroutine(e) \/ DispatchCallback(e)
  /\ UNCHANGED <<m_reactor_type, m_is_looping, loop_pc, tmp_tasks, executed>>
  /\ LoopUnchanged

DispatchDone ==
  /\ loop_pc = "dispatch" /\ re_events = {}
  /\ loop_pc' = "pending"
  /\ UNCHANGED <<flags, queues, kernel, wake_fd, tmp_tasks, re_events, first_coroutine, cors,
                 coroutine_tasks, executed>>
  /\ LoopUnchanged

(* Both vectors are taken under the lock; the additions, registered under  *)
(* their key in the map, go before the deletions.                          *)
PendingFds ==
  /\ loop_pc = "pending" /\ loop_pc' = "while"
  /\ m_pending_add_fds' = {} /\ m_pending_del_fds' = <<>>
  /\ LET key(e) == PendingAddKey(e.ptr)
         adds   == {e \in m_pending_add_fds :
                      (key(e) \in m_fds) = (epoll[key(e)] # NotRegistered)}
         added  == [f \in Fds |-> IF \E e \in adds : key(e) = f
                                  THEN CHOOSE e \in adds : key(e) = f ELSE epoll[f]]
         fds    == m_fds \cup {key(e) : e \in adds}
         dels   == Elems(m_pending_del_fds) \cap fds
     IN  /\ epoll' = [f \in Fds |-> IF f \in dels THEN NotRegistered ELSE added[f]]
         /\ m_fds' = fds \ dels
  /\ UNCHANGED <<flags, queues, hung_up, wake_fd, tmp_tasks, re_events, first_coroutine, cors,
                 coroutine_tasks, caller_pc, executed>>

-----------------------------------------------------------------------------
CallerSteps == \E c \in Callers :
  addTask(c) \/ addEvent(c) \/ delEvent(c) \/ stop(c) \/ Wakeup(c)

OtherReactors == (\E fd \in CorFds : OtherBlocks(fd) \/ OtherPushes(fd)) \/ OtherSteals

(* The steps of the loop thread that need no event from outside.           *)
LoopRuns ==
  \/ LoopEnter \/ LoopReset \/ LoopEnd \/ LoopBegin \/ StealCoroutine
  \/ SwapTasks \/ RunTask \/ TasksDone
  \/ DrainWakeFd \/ Dispatch \/ DispatchDone \/ PendingFds

LoopSteps == LoopRuns \/ EpollReturns \/ EpollTimeout

Next == CallerSteps \/ OtherReactors \/ LoopSteps

Spec == Init /\ [][Next]_vars

(* A running thread keeps running, and epoll_wait returns once it is woken *)
(* through the eventfd.  The 10 s timeout is not assumed to come.          *)
Fairness ==
  /\ WF_vars(LoopRuns)
  /\ WF_vars(EpollReturns /\ WakeEvent \in re_events')
  /\ \A c \in Callers : WF_vars(Wakeup(c))

FairSpec == Spec /\ Fairness

-----------------------------------------------------------------------------
(* Whoever gives the blocked loop work, or asks it to stop, has woken it   *)
(* or is about to: a task or a stop request never sleeps with epoll_wait   *)
(* until its 10 s timeout (addTask, stop, wakeup, loop).                   *)
NoLostWakeup ==
  loop_pc = "epoll_wait" /\ (m_pending_tasks # <<>> \/ m_stop_flag)
    => wake_fd \/ \E c \in Callers : caller_pc[c] = "wakeup"

(* No task is lost, run twice or overtaken on its way from m_pending_tasks *)
(* through the loop's private vector (addTask, swap, the task loop).       *)
TasksInOrder == pushed = executed \o tmp_tasks \o m_pending_tasks

(* The vector m_fds that decides between EPOLL_CTL_ADD and EPOLL_CTL_MOD   *)
(* agrees with the kernel's interest list, whatever path changed it.       *)
FdsMirrorEpoll == \A f \in Fds : f \in m_fds <=> epoll[f] # NotRegistered

(* A blocked coroutine is always in exactly one place that will resume it: *)
(* this reactor listens on its fd, or the fd is in the shared queue and no *)
(* reactor has it, or another reactor has it.  What the reactor has given  *)
(* up is the fd of a hang-up, lines 214-219.                               *)
HasOnePlace(f) ==
  /\ owner[f] = "self" => "read" \in epoll[f].events \/ f \in hung_up
  /\ owner[f] # "self" => f \notin m_fds
  /\ owner[f] = "none" <=> f \in Elems(coroutine_tasks)
InOnePlace == \A f \in waiting : HasOnePlace(f)

(* An fd is in the shared queue once, and only while its coroutine waits:  *)
(* no coroutine is resumed by two threads (the push in loop(), pop()).     *)
QueuedOnce ==
  /\ \A i, j \in DOMAIN coroutine_tasks : coroutine_tasks[i] = coroutine_tasks[j] => i = j
  /\ Elems(coroutine_tasks) \subseteq waiting

(* The coroutine the loop keeps for its next turn is still blocked on an   *)
(* fd of this reactor when it is resumed.                                  *)
FirstStillWaits ==
  first_coroutine # NoFd => first_coroutine \in waiting /\ owner[first_coroutine] = "self"

(* No coroutine is stranded and none is resumed twice, on its way between  *)
(* read_hook, the reactors and the shared queue.                           *)
NoStrandedCoroutine == InOnePlace /\ QueuedOnce /\ FirstStillWaits

(* The reactor implements the executor: addTask and the pushes of loop()   *)
(* submit, the task loop executes.                                         *)
Exec == INSTANCE Executor WITH Items <- Elements, submitted <- pushed, done <- executed
ImplementsExecutor == Exec!ExecSpec

(* A task handed to a reactor is executed unless the loop is stopped, and  *)
(* without the help of the epoll timeout.                                  *)
TaskEventuallyRuns ==
  \A t \in Tasks : t \in Elems(pushed) ~> (t \in Elems(executed) \/ loop_pc = "ended")

(* A stop that the loop has not yet reset ends it.                         *)
StopEndsLoop ==
  (m_stop_flag /\ loop_pc \notin {"created", "reset"}) ~> loop_pc = "ended"
=============================================================================
