----------------------------- MODULE Coroutine -----------------------------
(***************************************************************************)
(* Coroutines (src/src/coroutine/coroutine.cpp) and the threads that run   *)
(* them.  A thread executes its main coroutine (the reactor loop) or one   *)
(* that it resumed.  A coroutine that is about to yield first hands out a  *)
(* wake to the reactor of its own thread (toEpoll in hook.cpp), which      *)
(* resumes it or gives it to the shared queue.  Wakes that another thread  *)
(* holds while the coroutine still runs (the timers of tcp_client.cpp) are *)
(* not part of this module.                                                *)
(*                                                                         *)
(* yield() writes the coroutine's state before swapcontext saves its       *)
(* context: two actions.  A failed ZRPC_ASSERT ends the process.           *)
(***************************************************************************)
EXTENDS Naturals, FiniteSets

CONSTANTS
  Threads,
  HeapCors,     (* coroutines made with a callback, on a stack of their own  *)
  PoolCors,     (* coroutines made by the pool without a callback            *)
  MaxYields     (* bound: times a coroutine yields before it returns         *)

Coroutines == HeapCors \cup PoolCors
Main == "main"
Nobody == "nobody"

CoroutineAssumption ==
  /\ HeapCors \cap PoolCors = {} /\ {Main, Nobody} \cap Coroutines = {}
  /\ MaxYields \in Nat

ASSUME CoroutineAssumption

VARIABLES
  m_cor_state, m_cor_need_resume,
  m_cor_cb,             \* whether the coroutine has a callback
  t_current_coroutine,  \* thread_local: the coroutine the thread believes it runs
  executing,            \* what the thread's processor state belongs to
  leaving,              \* the thread is in yield(), before swapcontext
  wake,                 \* who may resume the coroutine
  home,                 \* the thread whose reactor has the coroutine's wake
  yields,               \* how often the coroutine has yielded
  aborted               \* the coroutine on which an assertion failed

state  == <<m_cor_state, m_cor_need_resume, m_cor_cb>>
thread == <<t_current_coroutine, executing, leaving>>
wakes  == <<wake, home>>
vars   == <<state, thread, wakes, yields, aborted>>

TypeOK ==
  /\ m_cor_state \in [Coroutines -> {"READY", "RUNNING", "TERM"}]
  /\ m_cor_need_resume \in [Coroutines -> BOOLEAN]
  /\ m_cor_cb \in [Coroutines -> BOOLEAN]
  /\ t_current_coroutine \in [Threads -> Coroutines \cup {Main}]
  /\ executing \in [Threads -> Coroutines \cup {Main}]
  /\ leaving \in [Threads -> BOOLEAN]
  /\ wake \in [Coroutines -> {"none", "reactor", "anyone"}]
  /\ home \in [Coroutines -> Threads]
  /\ yields \in [Coroutines -> Nat]
  /\ aborted \in Coroutines \cup {Nobody}

Init ==
  /\ m_cor_state = [c \in Coroutines |-> "READY"]
  /\ m_cor_need_resume = [c \in Coroutines |-> c \in HeapCors]
  /\ m_cor_cb = [c \in Coroutines |-> c \in HeapCors]
  /\ t_current_coroutine = [t \in Threads |-> Main]
  /\ executing = [t \in Threads |-> Main]
  /\ leaving = [t \in Threads |-> FALSE]
  /\ wake = [c \in Coroutines |-> IF c \in HeapCors THEN "anyone" ELSE "none"]
  /\ home \in [Coroutines -> Threads]
  /\ yields = [c \in Coroutines |-> 0]
  /\ aborted = Nobody

Running == aborted = Nobody

-----------------------------------------------------------------------------
(* resume() asserts that the coroutine is READY and still has work.        *)
Resumable(c) == m_cor_state[c] \notin {"RUNNING", "TERM"} /\ m_cor_need_resume[c]

(* Mutant: the reactor of any thread may resume the coroutine.             *)
MayResumeAnywhere(t, c) == Running /\ executing[t] = Main /\ wake[c] # "none"

(* A thread in its main coroutine uses up a wake.                          *)
MayResume(t, c) ==
  /\ Running /\ executing[t] = Main
  /\ wake[c] = "anyone" \/ (wake[c] = "reactor" /\ home[c] = t)

(* Mutant: resume() forgets t_current_coroutine.                           *)
resumeSameCurrent(t, c) ==
  /\ MayResume(t, c) /\ Resumable(c)
  /\ wake' = [wake EXCEPT ![c] = "none"]
  /\ m_cor_state' = [m_cor_state EXCEPT ![c] = "RUNNING"]
  /\ executing' = [executing EXCEPT ![t] = c]
  /\ UNCHANGED <<m_cor_need_resume, m_cor_cb, t_current_coroutine, leaving, home, yields,
                 aborted>>

(* Mutant: the wake stays after the resume, as if the fd stayed registered *)
(* with the coroutine's FdEvent.                                           *)
resumeKeepsWake(t, c) ==
  /\ MayResume(t, c) /\ Resumable(c)
  /\ m_cor_state' = [m_cor_state EXCEPT ![c] = "RUNNING"]
  /\ t_current_coroutine' = [t_current_coroutine EXCEPT ![t] = c]
  /\ executing' = [executing EXCEPT ![t] = c]
  /\ UNCHANGED <<m_cor_need_resume, m_cor_cb, leaving, wakes, yields, aborted>>

resume(t, c) ==
  /\ MayResume(t, c) /\ Resumable(c)
  /\ wake' = [wake EXCEPT ![c] = "none"]
  /\ m_cor_state' = [m_cor_state EXCEPT ![c] = "RUNNING"]
  /\ t_current_coroutine' = [t_current_coroutine EXCEPT ![t] = c]
  /\ executing' = [executing EXCEPT ![t] = c]
  /\ UNCHANGED <<m_cor_need_resume, m_cor_cb, leaving, home, yields, aborted>>

resumeAborts(t, c) ==
  /\ MayResume(t, c) /\ ~Resumable(c)
  /\ aborted' = c
  /\ UNCHANGED <<state, thread, wakes, yields>>

(* Mutant: the reactor lets go of the coroutine without the push.          *)
DropFromReactor(t, c) ==
  /\ Running /\ executing[t] = Main
  /\ wake[c] = "reactor" /\ home[c] = t
  /\ wake' = [wake EXCEPT ![c] = "none"]
  /\ UNCHANGED <<state, thread, home, yields, aborted>>

(* The reactor of the coroutine's thread pushes it to the shared queue.    *)
GiveToQueue(t, c) ==
  /\ Running /\ executing[t] = Main
  /\ wake[c] = "reactor" /\ home[c] = t
  /\ wake' = [wake EXCEPT ![c] = "anyone"]
  /\ UNCHANGED <<state, thread, home, yields, aborted>>

(* What runs in a coroutine: it arranges for a wake and calls yield().     *)
InCoroutine(t, c) == Running /\ executing[t] = c /\ ~leaving[t]

ArrangeWake(t, c) ==
  /\ InCoroutine(t, c)
  /\ wake[c] = "none" /\ yields[c] < MaxYields
  /\ wake' = [wake EXCEPT ![c] = "reactor"]
  /\ home' = [home EXCEPT ![c] = t]
  /\ yields' = [yields EXCEPT ![c] = @ + 1]
  /\ UNCHANGED <<state, thread, aborted>>

yield(t, c) ==
  /\ InCoroutine(t, c) /\ wake[c] # "none"
  /\ t_current_coroutine' = [t_current_coroutine EXCEPT ![t] = Main]
  /\ m_cor_need_resume' = [m_cor_need_resume EXCEPT ![c] = TRUE]
  /\ m_cor_state' = [m_cor_state EXCEPT ![c] = "READY"]
  /\ leaving' = [leaving EXCEPT ![t] = TRUE]
  /\ UNCHANGED <<m_cor_cb, executing, wakes, yields, aborted>>

(* The callback returned: MainFunc ends the coroutine and yields.          *)
MainFuncEnd(t, c) ==
  /\ InCoroutine(t, c) /\ wake[c] = "none"
  /\ m_cor_cb' = [m_cor_cb EXCEPT ![c] = FALSE]
  /\ m_cor_state' = [m_cor_state EXCEPT ![c] = "TERM"]
  /\ m_cor_need_resume' = [m_cor_need_resume EXCEPT ![c] = FALSE]
  /\ t_current_coroutine' = [t_current_coroutine EXCEPT ![t] = Main]
  /\ leaving' = [leaving EXCEPT ![t] = TRUE]
  /\ UNCHANGED <<executing, wakes, yields, aborted>>

swapcontext(t) ==
  /\ leaving[t]
  /\ leaving' = [leaving EXCEPT ![t] = FALSE]
  /\ executing' = [executing EXCEPT ![t] = Main]
  /\ UNCHANGED <<state, t_current_coroutine, wakes, yields, aborted>>

(* A pool coroutine gets a callback and is handed to a reactor, as         *)
(* TcpServer and addCoroutineToRandomThread do.                            *)
Resettable(c) == m_cor_state[c] = "TERM" \/ (m_cor_state[c] = "READY" /\ ~m_cor_need_resume[c])

resetCallBack(t, c) ==
  /\ Running /\ executing[t] = Main
  /\ wake[c] = "none" /\ ~m_cor_cb[c] /\ Resettable(c)
  /\ m_cor_cb' = [m_cor_cb EXCEPT ![c] = TRUE]
  /\ m_cor_state' = [m_cor_state EXCEPT ![c] = "READY"]
  /\ wake' = [wake EXCEPT ![c] = "anyone"]
  /\ UNCHANGED <<m_cor_need_resume, thread, home, yields, aborted>>

Steps(t) ==
  \/ \E c \in Coroutines :
       \/ resume(t, c) \/ resumeAborts(t, c) \/ GiveToQueue(t, c)
       \/ ArrangeWake(t, c) \/ yield(t, c) \/ MainFuncEnd(t, c)
  \/ swapcontext(t)

Next == \E t \in Threads : Steps(t) \/ \E c \in PoolCors : resetCallBack(t, c)

Spec == Init /\ [][Next]_vars

(* Each thread goes on; nobody has to use the pool.                        *)
FairSpec == Spec /\ \A t \in Threads : WF_vars(Steps(t))

-----------------------------------------------------------------------------
(* A coroutine's stack and context are in the hands of one thread: it is   *)
(* not resumed while another thread is still leaving it, though its state  *)
(* is READY before its context is saved (yield).                           *)
OneThreadPerCoroutine ==
  \A t, u \in Threads : t # u /\ executing[t] # Main => executing[t] # executing[u]

(* GetCurrentCoroutine() names the coroutine that calls it, on every       *)
(* thread it has moved to, as the hooks rely on; and RUNNING is the state  *)
(* of exactly the coroutines that run, as resume()'s assertion relies on.  *)
CurrentIsExecuting ==
  /\ \A t \in Threads : ~leaving[t] => t_current_coroutine[t] = executing[t]
  /\ \A c \in Coroutines :
       m_cor_state[c] = "RUNNING" <=> \E t \in Threads : executing[t] = c /\ ~leaving[t]

(* No wake is used twice or lost: a READY coroutine with work has one, and *)
(* no assertion fails on a coroutine that was made with its callback.      *)
WakeForReady ==
  /\ \A c \in HeapCors : m_cor_state[c] = "READY" <=> (wake[c] # "none" /\
                            \A t \in Threads : executing[t] = c => leaving[t])
  /\ aborted \notin HeapCors

(* Every coroutine made with a callback runs it to its end, through all    *)
(* its yields, the queue and the threads, unless the process aborts.       *)
EveryCoroutineEnds ==
  \A c \in HeapCors : <>(m_cor_state[c] = "TERM" \/ aborted # Nobody)

=============================================================================
