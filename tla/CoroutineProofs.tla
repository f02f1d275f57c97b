--------------------------- MODULE CoroutineProofs ---------------------------
(***************************************************************************)
(* Theorems about coroutines and about the pool that makes them            *)
(* (src/src/coroutine): the invariants of Coroutine for any threads, any   *)
(* coroutines and any number of yields, and those of CoroutinePool for any *)
(* borrowers, any size of a pool and any bound on the number of pools.     *)
(***************************************************************************)
EXTENDS Coroutine, CoroutinePool, FiniteSetTheorems, WellFoundedInduction, TLAPS

(* A coroutine that has a wake while a thread still executes it waits in   *)
(* that thread's own reactor: nobody else can resume it, and the thread    *)
(* itself does so from its main coroutine only.                            *)
WakeAtHome ==
  \A t \in Threads, c \in Coroutines :
    executing[t] = c /\ wake[c] # "none" => wake[c] = "reactor" /\ home[c] = t

(* Where a thread is, in the fields of the coroutine that it executes.     *)
Places ==
  \A t \in Threads :
    /\ leaving[t] => executing[t] # Main
    /\ leaving[t] => m_cor_state[executing[t]] # "RUNNING"
    /\ ~leaving[t] /\ executing[t] # Main => m_cor_state[executing[t]] = "RUNNING"
    /\ t_current_coroutine[t] = IF leaving[t] THEN Main ELSE executing[t]

(* A coroutine that was made without a callback is never resumed.          *)
PoolIdle ==
  \A c \in PoolCors : /\ ~m_cor_need_resume[c] /\ m_cor_state[c] # "RUNNING"
                      /\ \A t \in Threads : executing[t] # c

(* A coroutine that ends has no wake, and a wake resumes one that is READY *)
(* with work left.                                                         *)
HeapWakes ==
  \A c \in HeapCors :
    /\ m_cor_state[c] = "TERM" => wake[c] = "none"
    /\ m_cor_state[c] = "READY" => m_cor_need_resume[c]

IInv == TypeOK /\ OneThreadPerCoroutine /\ CurrentIsExecuting /\ WakeForReady
          /\ WakeAtHome /\ Places /\ PoolIdle /\ HeapWakes

-----------------------------------------------------------------------------
LEMMA InitInv == CoroutineAssumption /\ Init => IInv
<1> SUFFICES ASSUME CoroutineAssumption, Init PROVE IInv
  OBVIOUS
<1> USE DEF CoroutineAssumption, Init, Coroutines, Main, Nobody
<1>1. TypeOK
  BY DEF TypeOK
<1>2. OneThreadPerCoroutine /\ CurrentIsExecuting /\ WakeForReady
  BY DEF OneThreadPerCoroutine, CurrentIsExecuting, WakeForReady
<1>3. WakeAtHome /\ Places /\ PoolIdle /\ HeapWakes
  BY DEF WakeAtHome, Places, PoolIdle, HeapWakes
<1> QED
  BY <1>1, <1>2, <1>3 DEF IInv

LEMMA ResumeInv ==
  ASSUME CoroutineAssumption, IInv, NEW t \in Threads, NEW c \in Coroutines, resume(t, c)
  PROVE  IInv'
<1> USE DEF CoroutineAssumption, IInv, Coroutines, Main, Nobody
<1> USE DEF resume, MayResume, Resumable, Running, state, thread, wakes
<1>1. TypeOK'
  BY DEF TypeOK
<1>2. OneThreadPerCoroutine'
  BY DEF TypeOK, OneThreadPerCoroutine, WakeAtHome, Places
<1>3. CurrentIsExecuting'
  BY DEF TypeOK, OneThreadPerCoroutine, CurrentIsExecuting, Places, PoolIdle
<1>4. WakeForReady'
  BY DEF TypeOK, OneThreadPerCoroutine, CurrentIsExecuting, WakeForReady, WakeAtHome, Places, PoolIdle, HeapWakes
<1>5. WakeAtHome'
  BY DEF TypeOK, OneThreadPerCoroutine, WakeAtHome, Places, PoolIdle
<1>6. Places'
  BY DEF TypeOK, OneThreadPerCoroutine, WakeAtHome, Places
<1>7. PoolIdle'
  BY DEF TypeOK, PoolIdle
<1>8. HeapWakes'
  BY DEF TypeOK, HeapWakes, Places
<1> QED
  BY <1>1, <1>2, <1>3, <1>4, <1>5, <1>6, <1>7, <1>8

LEMMA ResumeAbortsInv ==
  ASSUME CoroutineAssumption, IInv, NEW t \in Threads, NEW c \in Coroutines, resumeAborts(t, c)
  PROVE  IInv'
<1> USE DEF CoroutineAssumption, IInv, Coroutines, Main, Nobody
<1> USE DEF resumeAborts, MayResume, Resumable, Running, state, thread, wakes
<1>1. TypeOK'
  BY DEF TypeOK
<1>2. OneThreadPerCoroutine'
  BY DEF TypeOK, OneThreadPerCoroutine, WakeAtHome, Places
<1>3. CurrentIsExecuting'
  BY DEF TypeOK, OneThreadPerCoroutine, CurrentIsExecuting, Places, PoolIdle
<1>4. WakeForReady'
  BY DEF TypeOK, OneThreadPerCoroutine, CurrentIsExecuting, WakeForReady, WakeAtHome, Places, PoolIdle, HeapWakes
<1>5. WakeAtHome'
  BY DEF TypeOK, OneThreadPerCoroutine, WakeAtHome, Places, PoolIdle
<1>6. Places'
  BY DEF TypeOK, OneThreadPerCoroutine, WakeAtHome, Places
<1>7. PoolIdle'
  BY DEF TypeOK, PoolIdle
<1>8. HeapWakes'
  BY DEF TypeOK, HeapWakes, Places
<1> QED
  BY <1>1, <1>2, <1>3, <1>4, <1>5, <1>6, <1>7, <1>8

LEMMA GiveToQueueInv ==
  ASSUME CoroutineAssumption, IInv, NEW t \in Threads, NEW c \in Coroutines, GiveToQueue(t, c)
  PROVE  IInv'
<1> USE DEF CoroutineAssumption, IInv, Coroutines, Main, Nobody
<1> USE DEF GiveToQueue, Running, state, thread, wakes
<1>1. TypeOK'
  BY DEF TypeOK
<1>2. OneThreadPerCoroutine'
  BY DEF TypeOK, OneThreadPerCoroutine, WakeAtHome, Places
<1>3. CurrentIsExecuting'
  BY DEF TypeOK, OneThreadPerCoroutine, CurrentIsExecuting, Places, PoolIdle
<1>4. WakeForReady'
  BY DEF TypeOK, OneThreadPerCoroutine, CurrentIsExecuting, WakeForReady, WakeAtHome, Places, PoolIdle, HeapWakes
<1>5. WakeAtHome'
  BY DEF TypeOK, OneThreadPerCoroutine, WakeAtHome, Places, PoolIdle
<1>6. Places'
  BY DEF TypeOK, OneThreadPerCoroutine, WakeAtHome, Places
<1>7. PoolIdle'
  BY DEF TypeOK, PoolIdle
<1>8. HeapWakes'
  BY DEF TypeOK, HeapWakes, Places
<1> QED
  BY <1>1, <1>2, <1>3, <1>4, <1>5, <1>6, <1>7, <1>8

LEMMA ArrangeWakeInv ==
  ASSUME CoroutineAssumption, IInv, NEW t \in Threads, NEW c \in Coroutines, ArrangeWake(t, c)
  PROVE  IInv'
<1> USE DEF CoroutineAssumption, IInv, Coroutines, Main, Nobody
<1> USE DEF ArrangeWake, InCoroutine, Running, state, thread, wakes
<1>1. TypeOK'
  BY DEF TypeOK
<1>2. OneThreadPerCoroutine'
  BY DEF TypeOK, OneThreadPerCoroutine, WakeAtHome, Places
<1>3. CurrentIsExecuting'
  BY DEF TypeOK, OneThreadPerCoroutine, CurrentIsExecuting, Places, PoolIdle
<1>4. WakeForReady'
  BY DEF TypeOK, OneThreadPerCoroutine, CurrentIsExecuting, WakeForReady, WakeAtHome, Places, PoolIdle, HeapWakes
<1>5. WakeAtHome'
  BY DEF TypeOK, OneThreadPerCoroutine, WakeAtHome, Places, PoolIdle
<1>6. Places'
  BY DEF TypeOK, OneThreadPerCoroutine, WakeAtHome, Places
<1>7. PoolIdle'
  BY DEF TypeOK, PoolIdle
<1>8. HeapWakes'
  BY DEF TypeOK, HeapWakes, Places
<1> QED
  BY <1>1, <1>2, <1>3, <1>4, <1>5, <1>6, <1>7, <1>8

LEMMA YieldInv ==
  ASSUME CoroutineAssumption, IInv, NEW t \in Threads, NEW c \in Coroutines, yield(t, c)
  PROVE  IInv'
<1> USE DEF CoroutineAssumption, IInv, Coroutines, Main, Nobody
<1> USE DEF yield, InCoroutine, Running, state, thread, wakes
<1>1. TypeOK'
  BY DEF TypeOK
<1>2. OneThreadPerCoroutine'
  BY DEF TypeOK, OneThreadPerCoroutine, WakeAtHome, Places
<1>3. CurrentIsExecuting'
  BY DEF TypeOK, OneThreadPerCoroutine, CurrentIsExecuting, Places, PoolIdle
<1>4. WakeForReady'
  BY DEF TypeOK, OneThreadPerCoroutine, CurrentIsExecuting, WakeForReady, WakeAtHome, Places, PoolIdle, HeapWakes
<1>5. WakeAtHome'
  BY DEF TypeOK, OneThreadPerCoroutine, WakeAtHome, Places, PoolIdle
<1>6. Places'
  BY DEF TypeOK, OneThreadPerCoroutine, WakeAtHome, Places
<1>7. PoolIdle'
  BY DEF TypeOK, PoolIdle
<1>8. HeapWakes'
  BY DEF TypeOK, HeapWakes, Places
<1> QED
  BY <1>1, <1>2, <1>3, <1>4, <1>5, <1>6, <1>7, <1>8

LEMMA MainFuncEndInv ==
  ASSUME CoroutineAssumption, IInv, NEW t \in Threads, NEW c \in Coroutines, MainFuncEnd(t, c)
  PROVE  IInv'
<1> USE DEF CoroutineAssumption, IInv, Coroutines, Main, Nobody
<1> USE DEF MainFuncEnd, InCoroutine, Running, state, thread, wakes
<1>1. TypeOK'
  BY DEF TypeOK
<1>2. OneThreadPerCoroutine'
  BY DEF TypeOK, OneThreadPerCoroutine, WakeAtHome, Places
<1>3. CurrentIsExecuting'
  BY DEF TypeOK, OneThreadPerCoroutine, CurrentIsExecuting, Places, PoolIdle
<1>4. WakeForReady'
  BY DEF TypeOK, OneThreadPerCoroutine, CurrentIsExecuting, WakeForReady, WakeAtHome, Places, PoolIdle, HeapWakes
<1>5. WakeAtHome'
  BY DEF TypeOK, OneThreadPerCoroutine, WakeAtHome, Places, PoolIdle
<1>6. Places'
  BY DEF TypeOK, OneThreadPerCoroutine, WakeAtHome, Places
<1>7. PoolIdle'
  BY DEF TypeOK, PoolIdle
<1>8. HeapWakes'
  BY DEF TypeOK, HeapWakes, Places
<1> QED
  BY <1>1, <1>2, <1>3, <1>4, <1>5, <1>6, <1>7, <1>8

LEMMA SwapcontextInv ==
  ASSUME CoroutineAssumption, IInv, NEW t \in Threads, swapcontext(t)
  PROVE  IInv'
<1> USE DEF CoroutineAssumption, IInv, Coroutines, Main, Nobody
<1> USE DEF swapcontext, state, thread, wakes
<1>1. TypeOK'
  BY DEF TypeOK
<1>2. OneThreadPerCoroutine'
  BY DEF TypeOK, OneThreadPerCoroutine, WakeAtHome, Places
<1>3. CurrentIsExecuting'
  BY DEF TypeOK, OneThreadPerCoroutine, CurrentIsExecuting, Places, PoolIdle
<1>4. WakeForReady'
  BY DEF TypeOK, OneThreadPerCoroutine, CurrentIsExecuting, WakeForReady, WakeAtHome, Places, PoolIdle, HeapWakes
<1>5. WakeAtHome'
  BY DEF TypeOK, OneThreadPerCoroutine, WakeAtHome, Places, PoolIdle
<1>6. Places'
  BY DEF TypeOK, OneThreadPerCoroutine, WakeAtHome, Places
<1>7. PoolIdle'
  BY DEF TypeOK, PoolIdle
<1>8. HeapWakes'
  BY DEF TypeOK, HeapWakes, Places
<1> QED
  BY <1>1, <1>2, <1>3, <1>4, <1>5, <1>6, <1>7, <1>8

LEMMA ResetCallBackInv ==
  ASSUME CoroutineAssumption, IInv, NEW t \in Threads, NEW c \in PoolCors, resetCallBack(t, c)
  PROVE  IInv'
<1> USE DEF CoroutineAssumption, IInv, Coroutines, Main, Nobody
<1> USE DEF resetCallBack, Running, Resettable, state, thread, wakes
<1>1. TypeOK'
  BY DEF TypeOK
<1>2. OneThreadPerCoroutine'
  BY DEF TypeOK, OneThreadPerCoroutine, WakeAtHome, Places
<1>3. CurrentIsExecuting'
  BY DEF TypeOK, OneThreadPerCoroutine, CurrentIsExecuting, Places, PoolIdle
<1>4. WakeForReady'
  BY DEF TypeOK, OneThreadPerCoroutine, CurrentIsExecuting, WakeForReady, WakeAtHome, Places, PoolIdle, HeapWakes
<1>5. WakeAtHome'
  BY DEF TypeOK, OneThreadPerCoroutine, WakeAtHome, Places, PoolIdle
<1>6. Places'
  BY DEF TypeOK, OneThreadPerCoroutine, WakeAtHome, Places
<1>7. PoolIdle'
  BY DEF TypeOK, PoolIdle
<1>8. HeapWakes'
  BY DEF TypeOK, HeapWakes, Places
<1> QED
  BY <1>1, <1>2, <1>3, <1>4, <1>5, <1>6, <1>7, <1>8

-----------------------------------------------------------------------------
LEMMA NextInv == CoroutineAssumption /\ IInv /\ [Next]_vars => IInv'
<1> SUFFICES ASSUME CoroutineAssumption, IInv, [Next]_vars PROVE IInv'
  OBVIOUS
<1>1. ASSUME NEW t \in Threads, Steps(t) PROVE IInv'
  BY <1>1, ResumeInv, ResumeAbortsInv, GiveToQueueInv, ArrangeWakeInv, YieldInv, MainFuncEndInv,
     SwapcontextInv DEF Steps
<1>2. ASSUME NEW t \in Threads, NEW c \in PoolCors, resetCallBack(t, c) PROVE IInv'
  BY <1>2, ResetCallBackInv
<1>3. CASE UNCHANGED vars
  BY <1>3 DEF vars, state, thread, wakes, IInv, TypeOK, OneThreadPerCoroutine, CurrentIsExecuting,
     WakeForReady, WakeAtHome, Places, PoolIdle, HeapWakes
<1> QED
  BY <1>1, <1>2, <1>3 DEF Next

(* IInv is the invariant; the theorems below are parts of it.              *)
THEOREM Invariant == Spec => []IInv
BY CoroutineAssumption, InitInv, NextInv, PTL DEF Spec

(* Every variable keeps its type, on every thread.                         *)
THEOREM TypeCorrect == Spec => []TypeOK
<1>1. IInv => TypeOK
  BY DEF IInv
<1> QED
  BY <1>1, Invariant, PTL

(* No coroutine is executed by two threads, although its state is READY    *)
(* before swapcontext has saved its context (yield in coroutine.cpp): the  *)
(* wake it arranged is in the reactor of the thread that is leaving it.    *)
THEOREM NotOnTwoThreads == Spec => []OneThreadPerCoroutine
<1>1. IInv => OneThreadPerCoroutine
  BY DEF IInv
<1> QED
  BY <1>1, Invariant, PTL

(* t_current_coroutine and the state RUNNING say what the processor does,  *)
(* for coroutines that move between any number of threads.                 *)
THEOREM CurrentIsTrue == Spec => []CurrentIsExecuting
<1>1. IInv => CurrentIsExecuting
  BY DEF IInv
<1> QED
  BY <1>1, Invariant, PTL

(* A coroutine that is READY has its wake, and the assertion of resume()   *)
(* (coroutine.cpp:232) fails on none that was made with a callback.        *)
THEOREM NoWakeLost == Spec => []WakeForReady
<1>1. IInv => WakeForReady
  BY DEF IInv
<1> QED
  BY <1>1, Invariant, PTL

-----------------------------------------------------------------------------
(* The coroutine pool *)

(* What the proofs need of the types; the counters are left out, because   *)
(* that they stay in Nat rests on the cardinality of the used blocks: they *)
(* come last.                                                              *)
Shape ==
  /\ m_memory_pool \in Pools
  /\ m_mem_blocks \in [Pools -> SUBSET Blocks]
  /\ m_free_cors \in [Blocks -> [state : {"READY", "TERM"}, second : BOOLEAN]]
  /\ users \in [Stacks -> SUBSET Borrowers]
  /\ thread_pc \in [Borrowers -> {"idle", "free_cors", "get_block", "count_up",
                                "back_block", "count_down"}]
  /\ at \in [Borrowers -> 0 .. MaxPools + 1]
  /\ stack \in [Borrowers -> Stacks \cup {NoStack}]
  /\ leaked \in SUBSET Stacks

(* A thread has a stack in hand exactly between the marking and the        *)
(* counting of its block, and never one of the pooled coroutines' stacks;  *)
(* while it gives a block back it is no longer a user of the stack.        *)
InHand ==
  \A t \in Borrowers :
    /\ thread_pc[t] \in {"count_up", "back_block", "count_down"} => stack[t] \in Stacks \ Pooled
    /\ thread_pc[t] \in {"idle", "free_cors", "get_block"} => stack[t] = NoStack
    /\ thread_pc[t] = "get_block" => at[t] >= 1
    /\ thread_pc[t] = "back_block" => t \notin users[stack[t]]

(* The blocks of the pooled coroutines stay marked for ever, and a pooled  *)
(* coroutine that may be handed out has no user.                           *)
PooledKept ==
  \A b \in Blocks : b \in m_mem_blocks[1] /\ (~m_free_cors[b].second => users[<<1, b>>] = {})

PoolInv == Shape /\ InHand /\ PooledKept /\ ExclusiveStack /\ EveryBlockHeld

-----------------------------------------------------------------------------
LEMMA StackFacts ==
  /\ NoStack \notin Stacks /\ 1 \in Pools /\ Pooled \subseteq Stacks
  /\ \A s \in Stacks : s[1] \in Pools /\ s[2] \in Blocks /\ s = <<s[1], s[2]>>
  /\ \A p \in Pools, b \in Blocks : <<p, b>> \in Stacks /\ <<p, b>>[1] = p /\ <<p, b>>[2] = b
  /\ \A s \in Stacks : s \in Pooled <=> s[1] = 1
BY PoolAssumption DEF PoolAssumption, NoStack, Stacks, Pools, Blocks, Pooled

LEMMA FirstIsIn ==
  ASSUME NEW bs \in SUBSET Blocks, bs # {}
  PROVE  First(bs) \in bs
<1>1. bs \subseteq Nat
  BY PoolAssumption DEF Blocks, PoolAssumption
<1>2. PICK n \in bs : \A m \in bs : ~ (<<m, n>> \in OpToRel(<, Nat))
  <2> HIDE DEF OpToRel
  <2> QED BY <1>1, WFMin, NatLessThanWellFounded
<1>3. \A m \in bs : n <= m
  <2> SUFFICES ASSUME NEW m \in bs PROVE ~ (m < n)
    BY <1>1
  <2> QED BY <1>1, <1>2 DEF OpToRel
<1> QED BY <1>3 DEF First

LEMMA InitPool == PoolInit => PoolInv
<1> SUFFICES ASSUME PoolInit PROVE PoolInv
  OBVIOUS
<1>1. Shape
  BY StackFacts, PoolAssumption DEF PoolInit, Shape, PoolAssumption, Pools, Blocks
<1>2. InHand
  BY DEF PoolInit, InHand
<1>3. PooledKept
  BY StackFacts DEF PoolInit, PooledKept
<1>4. \A s \in Stacks : Holders(s) = {}
  BY StackFacts DEF PoolInit, Holders
<1>5. EveryBlockHeld
  BY StackFacts DEF PoolInit, EveryBlockHeld
<1> QED BY <1>1, <1>2, <1>3, <1>4, <1>5 DEF PoolInv, ExclusiveStack

-----------------------------------------------------------------------------
(* One lemma per step: first what the step does to the holders of a stack, *)
(* then each conjunct of the invariant.                                    *)

LEMMA PooledNotInHand ==
  ASSUME PoolInv, NEW t \in Borrowers, NEW s \in Pooled
  PROVE  stack[t] # s
BY StackFacts DEF PoolInv, Shape, InHand

LEMMA KeepHolders ==
  ASSUME PoolInv, Shape', InHand', UNCHANGED <<m_mem_blocks, m_free_cors, users, leaked>>,
         \A s \in Stacks : Holders(s)' = Holders(s)
  PROVE  PoolInv'
BY DEF PoolInv, PooledKept, ExclusiveStack, EveryBlockHeld

LEMMA GetInstanceStep ==
  ASSUME PoolInv, NEW t \in Borrowers, getCoroutineInstance(t)
  PROVE  PoolInv'
<1>1. Shape' /\ InHand'
  BY DEF PoolInv, Shape, InHand, getCoroutineInstance, Goto, heap
<1>2. \A s \in Stacks : Holders(s)' = Holders(s)
  BY DEF PoolInv, Shape, Holders, getCoroutineInstance, Goto
<1> QED BY <1>1, <1>2, KeepHolders DEF getCoroutineInstance, heap

LEMMA ScanStep ==
  ASSUME PoolInv, NEW t \in Borrowers, ScanFreeCors(t)
  PROVE  PoolInv'
<1>1. CASE Reusable = {}
  <2>1. Shape' /\ InHand'
    BY <1>1, PoolAssumption
       DEF PoolInv, Shape, InHand, ScanFreeCors, Goto, heap, PoolAssumption
  <2>2. \A s \in Stacks : Holders(s)' = Holders(s)
    BY <1>1 DEF PoolInv, Shape, Holders, ScanFreeCors, Goto
  <2> QED BY <1>1, <2>1, <2>2, KeepHolders DEF ScanFreeCors, heap
<1>2. CASE Reusable # {}
  <2> DEFINE b == First(Reusable)
  <2>1. b \in Blocks /\ ~m_free_cors[b].second
    BY <1>2, FirstIsIn DEF Reusable
  <2>2. /\ m_free_cors' = [m_free_cors EXCEPT ![b] = [state |-> "READY", second |-> TRUE]]
        /\ users' = [users EXCEPT ![<<1, b>>] = @ \cup {t}]
        /\ thread_pc' = [thread_pc EXCEPT ![t] = "idle"]
        /\ UNCHANGED <<m_memory_pool, m_mem_blocks, m_ref_counts, at, stack, leaked>>
        /\ thread_pc[t] = "free_cors"
    BY <1>2 DEF ScanFreeCors, heap, Goto
  <2> HIDE DEF b
  <2>3. <<1, b>> \in Stacks /\ <<1, b>> \in Pooled
    BY <2>1, StackFacts
  <2>4. Shape'
    BY <2>1, <2>2, <2>3 DEF PoolInv, Shape
  <2>5. InHand'
    BY <2>2 DEF PoolInv, Shape, InHand
  <2>6. PooledKept'
    <3> SUFFICES ASSUME NEW c \in Blocks
                 PROVE  c \in m_mem_blocks'[1]
                        /\ (~m_free_cors'[c].second => users'[<<1, c>>] = {})
      BY DEF PooledKept
    <3>1. CASE c = b
      BY <2>1, <2>2, <3>1 DEF PoolInv, PooledKept, Shape
    <3>2. CASE c # b
      <4>1. <<1, c>> # <<1, b>> /\ <<1, c>> \in Stacks
        BY <3>2, StackFacts
      <4> QED BY <2>2, <3>2, <4>1 DEF PoolInv, PooledKept, Shape
    <3> QED BY <3>1, <3>2
  <2>7. Holders(<<1, b>>) = {}
    BY <2>1, <2>3, PooledNotInHand DEF PoolInv, PooledKept, Holders
  <2>8. \A s \in Stacks : Holders(s)' = IF s = <<1, b>> THEN {t} ELSE Holders(s)
    BY <2>2, <2>3, <2>7 DEF PoolInv, Shape, InHand, Holders
  <2>9. ExclusiveStack'
    BY <2>1, <2>2, <2>8, StackFacts DEF PoolInv, PooledKept, ExclusiveStack
  <2>10. EveryBlockHeld'
    BY <2>2, <2>8 DEF PoolInv, EveryBlockHeld
  <2> QED BY <2>4, <2>5, <2>6, <2>9, <2>10 DEF PoolInv
<1> QED BY <1>1, <1>2

LEMMA GetBlockStep ==
  ASSUME PoolInv, NEW t \in Borrowers, GetBlock(t)
  PROVE  PoolInv'
<1> DEFINE p == at[t]
<1>p. p \in Pools
  BY PoolAssumption DEF PoolInv, Shape, InHand, GetBlock, Pools, PoolAssumption
<1>1. CASE FreeBlocks(p) = {}
  <2>0. /\ at' = [at EXCEPT ![t] = p + 1]
        /\ UNCHANGED <<m_memory_pool, m_mem_blocks, m_free_cors, users, thread_pc, stack, leaked>>
    BY <1>1 DEF GetBlock
  <2>1. p + 1 \in 1 .. MaxPools + 1
    BY <1>p, PoolAssumption DEF Pools, PoolAssumption
  <2>2. Shape'
    BY <2>0, <2>1 DEF PoolInv, Shape
  <2>3. InHand'
    BY <2>0, <2>1 DEF PoolInv, Shape, InHand
  <2>4. \A s \in Stacks : Holders(s)' = Holders(s)
    BY <2>0 DEF Holders
  <2> QED BY <2>0, <2>2, <2>3, <2>4, KeepHolders
<1>2. CASE FreeBlocks(p) # {}
  <2> DEFINE b == First(FreeBlocks(p))
  <2>1. b \in Blocks /\ b \notin m_mem_blocks[p]
    BY <1>2, FirstIsIn DEF FreeBlocks
  <2>2. /\ m_mem_blocks' = [m_mem_blocks EXCEPT ![p] = @ \cup {b}]
        /\ stack' = [stack EXCEPT ![t] = <<p, b>>]
        /\ thread_pc' = [thread_pc EXCEPT ![t] = "count_up"]
        /\ UNCHANGED <<m_memory_pool, m_free_cors, users, at, leaked>>
        /\ thread_pc[t] = "get_block"
    BY <1>2 DEF GetBlock, Goto
  <2> HIDE DEF b, p
  <2>3. p # 1
    BY <2>1 DEF PoolInv, PooledKept
  <2>4. <<p, b>> \in Stacks \ Pooled
    BY <1>p, <2>1, <2>3, StackFacts
  <2>5. Shape'
    BY <1>p, <2>1, <2>2, <2>4 DEF PoolInv, Shape
  <2>6. InHand'
    BY <2>2, <2>4 DEF PoolInv, Shape, InHand
  <2>7. PooledKept'
    BY <1>p, <2>2, <2>3, StackFacts DEF PoolInv, Shape, PooledKept
  <2>8. Holders(<<p, b>>) = {}
    BY <2>1, <2>4, <1>p, StackFacts DEF PoolInv, ExclusiveStack
  <2>9. stack[t] = NoStack
    BY <2>2 DEF PoolInv, InHand
  <2>10. \A s \in Stacks : Holders(s)' = IF s = <<p, b>> THEN {t} ELSE Holders(s)
    <3> SUFFICES ASSUME NEW s \in Stacks
                 PROVE  Holders(s)' = IF s = <<p, b>> THEN {t} ELSE Holders(s)
      OBVIOUS
    <3>1. \A u \in Borrowers \ {t} : stack'[u] = stack[u] /\ thread_pc'[u] = thread_pc[u]
      BY <2>2 DEF PoolInv, Shape
    <3>2. stack'[t] = <<p, b>> /\ thread_pc'[t] = "count_up" /\ stack[t] # s
      BY <2>2, <2>9, StackFacts DEF PoolInv, Shape
    <3>3. CASE s = <<p, b>>
      BY <2>2, <2>8, <3>1, <3>2, <3>3 DEF Holders
    <3>4. CASE s # <<p, b>>
      BY <2>2, <3>1, <3>2, <3>4 DEF Holders
    <3> QED BY <3>3, <3>4
  <2>11. \A s \in Stacks :
           s[2] \in m_mem_blocks'[s[1]] <=> (s = <<p, b>> \/ s[2] \in m_mem_blocks[s[1]])
    BY <1>p, <2>1, <2>2, StackFacts DEF PoolInv, Shape
  <2>12. ExclusiveStack'
    BY <2>10, <2>11 DEF PoolInv, ExclusiveStack
  <2>13. EveryBlockHeld'
    BY <2>2, <2>10, <2>11 DEF PoolInv, EveryBlockHeld
  <2> QED BY <2>5, <2>6, <2>7, <2>12, <2>13 DEF PoolInv
<1> QED BY <1>1, <1>2

LEMMA AddPoolStep ==
  ASSUME PoolInv, NEW t \in Borrowers, AddMemoryPool(t)
  PROVE  PoolInv'
<1>1. PICK us \in SUBSET {u \in Borrowers : thread_pc[u] = "back_block"} :
        /\ leaked' = leaked \cup {stack[u] : u \in us}
        /\ stack' = [u \in Borrowers |-> IF u \in us THEN NoStack ELSE stack[u]]
        /\ thread_pc' = [u \in Borrowers |-> IF u \in us THEN "idle" ELSE thread_pc[u]]
  BY DEF AddMemoryPool
<1>2. m_memory_pool' = m_memory_pool + 1 /\ m_memory_pool < MaxPools
      /\ UNCHANGED <<m_mem_blocks, m_free_cors, users, at>>
  BY DEF AddMemoryPool
<1>3. \A u \in us : stack[u] \in Stacks
  BY <1>1 DEF PoolInv, InHand
<1>4. Shape'
  BY <1>1, <1>2, <1>3, PoolAssumption DEF PoolInv, Shape, Pools, PoolAssumption
<1>5. InHand'
  BY <1>1, <1>2 DEF PoolInv, Shape, InHand
<1>6. PooledKept'
  BY <1>2 DEF PoolInv, PooledKept
<1>a. \A u \in Borrowers : stack'[u] = IF u \in us THEN NoStack ELSE stack[u]
  BY <1>1
<1>b. \A u \in Borrowers : thread_pc'[u] = IF u \in us THEN "idle" ELSE thread_pc[u]
  BY <1>1
<1>7. \A s \in Stacks : Holders(s)' \subseteq Holders(s)
  BY <1>2, <1>a, <1>b, StackFacts DEF Holders
<1>8. ASSUME NEW s \in Stacks, NEW u \in Holders(s), u \notin Holders(s)'
      PROVE  s \in leaked'
  <2>1. u \in Borrowers /\ stack[u] = s /\ u \in us
    BY <1>2, <1>a, <1>b, <1>8 DEF Holders
  <2> QED BY <1>1, <2>1
<1>9. ExclusiveStack'
  <2> SUFFICES ASSUME NEW s \in Stacks
               PROVE  /\ \A v, u \in Holders(s)' : v = u
                      /\ Holders(s)' # {} => s[2] \in m_mem_blocks'[s[1]]
    BY DEF ExclusiveStack
  <2>1. \A v, u \in Holders(s) : v = u
    BY DEF PoolInv, ExclusiveStack
  <2>2. Holders(s) # {} => s[2] \in m_mem_blocks[s[1]]
    BY DEF PoolInv, ExclusiveStack
  <2> QED BY <1>2, <1>7, <2>1, <2>2
<1>10. EveryBlockHeld'
  <2> SUFFICES ASSUME NEW s \in Stacks, s[2] \in m_mem_blocks[s[1]]
               PROVE  s \in Pooled \cup leaked' \/ Holders(s)' # {}
    BY <1>2 DEF EveryBlockHeld
  <2>1. s \in Pooled \cup leaked \/ Holders(s) # {}
    BY DEF PoolInv, EveryBlockHeld
  <2> QED BY <1>1, <1>8, <2>1
<1> QED BY <1>4, <1>5, <1>6, <1>9, <1>10 DEF PoolInv

LEMMA CountUpStep ==
  ASSUME PoolInv, NEW t \in Borrowers, CountUp(t)
  PROVE  PoolInv'
<1> DEFINE s0 == stack[t]
<1>1. s0 \in Stacks \ Pooled
  BY DEF CountUp, PoolInv, InHand
<1>2. /\ users' = [users EXCEPT ![s0] = @ \cup {t}]
      /\ stack' = [stack EXCEPT ![t] = NoStack]
      /\ at' = [at EXCEPT ![t] = 0]
      /\ thread_pc' = [thread_pc EXCEPT ![t] = "idle"]
      /\ UNCHANGED <<m_memory_pool, m_mem_blocks, m_free_cors, leaked>>
      /\ thread_pc[t] = "count_up" /\ stack[t] = s0
  BY DEF CountUp, Goto
<1> HIDE DEF s0
<1>3. Shape'
  BY <1>1, <1>2, PoolAssumption DEF PoolInv, Shape, PoolAssumption
<1>4. InHand'
  BY <1>2 DEF PoolInv, Shape, InHand
<1>5. PooledKept'
  BY <1>1, <1>2, StackFacts DEF PoolInv, Shape, PooledKept
<1>6. \A s \in Stacks : Holders(s)' = Holders(s)
  BY <1>1, <1>2, StackFacts DEF PoolInv, Shape, Holders
<1>7. ExclusiveStack' /\ EveryBlockHeld'
  BY <1>2, <1>6 DEF PoolInv, ExclusiveStack, EveryBlockHeld
<1> QED BY <1>3, <1>4, <1>5, <1>7 DEF PoolInv

LEMMA ReturnStep ==
  ASSUME PoolInv, NEW t \in Borrowers, NEW s0 \in Stacks, returnCoroutine(t, s0)
  PROVE  PoolInv'
<1>1. CASE s0 \in Pooled
  <2>1. PICK st \in {"READY", "TERM"} :
          m_free_cors' = [m_free_cors EXCEPT ![s0[2]] = [state |-> st, second |-> FALSE]]
    BY <1>1 DEF returnCoroutine
  <2>2. /\ users' = [users EXCEPT ![s0] = @ \ {t}] /\ t \in users[s0]
        /\ UNCHANGED <<m_memory_pool, m_mem_blocks, thread_pc, stack, at, leaked>>
    BY <1>1 DEF returnCoroutine, heap
  <2>3. Shape'
    BY <2>1, <2>2 DEF PoolInv, Shape
  <2>4. InHand'
    BY <2>2 DEF PoolInv, InHand
  <2>5. \A s \in Stacks : users'[s] = IF s = s0 THEN users[s0] \ {t} ELSE users[s]
    BY <2>2 DEF PoolInv, Shape
  <2>6. users'[s0] = {}
    <3>1. \A u \in users[s0] : u = t
      BY <2>2 DEF PoolInv, ExclusiveStack, Holders
    <3> QED BY <2>5, <3>1
  <2>7. PooledKept'
    <3> SUFFICES ASSUME NEW c \in Blocks
                 PROVE  c \in m_mem_blocks'[1]
                        /\ (~m_free_cors'[c].second => users'[<<1, c>>] = {})
      BY DEF PooledKept
    <3>1. CASE <<1, c>> = s0
      BY <2>2, <2>6, <3>1 DEF PoolInv, PooledKept
    <3>2. CASE <<1, c>> # s0
      <4>1. c # s0[2] /\ <<1, c>> \in Stacks
        BY <1>1, <3>2, StackFacts
      <4>2. m_free_cors'[c] = m_free_cors[c]
        BY <2>1, <4>1 DEF PoolInv, Shape
      <4> QED BY <2>2, <2>5, <3>2, <4>1, <4>2 DEF PoolInv, PooledKept
    <3> QED BY <3>1, <3>2
  <2>8. \A s \in Stacks : Holders(s)' \subseteq Holders(s)
    BY <2>2, <2>5 DEF Holders
  <2>9. \A s \in Stacks : s # s0 => Holders(s)' = Holders(s)
    BY <2>2, <2>5 DEF Holders
  <2>10. ExclusiveStack'
    <3> SUFFICES ASSUME NEW s \in Stacks
                 PROVE  /\ \A v, u \in Holders(s)' : v = u
                        /\ Holders(s)' # {} => s[2] \in m_mem_blocks'[s[1]]
      BY DEF ExclusiveStack
    <3>1. \A v, u \in Holders(s) : v = u
      BY DEF PoolInv, ExclusiveStack
    <3>2. Holders(s) # {} => s[2] \in m_mem_blocks[s[1]]
      BY DEF PoolInv, ExclusiveStack
    <3> QED BY <2>2, <2>8, <3>1, <3>2
  <2>11. EveryBlockHeld'
    BY <1>1, <2>2, <2>9 DEF PoolInv, EveryBlockHeld
  <2> QED BY <2>3, <2>4, <2>7, <2>10, <2>11 DEF PoolInv
<1>2. CASE s0 \notin Pooled
  <2>1. /\ users' = [users EXCEPT ![s0] = @ \ {t}] /\ t \in users[s0]
        /\ stack' = [stack EXCEPT ![t] = s0]
        /\ thread_pc' = [thread_pc EXCEPT ![t] = "back_block"] /\ thread_pc[t] = "idle"
        /\ UNCHANGED <<m_memory_pool, m_mem_blocks, m_free_cors, at, leaked>>
    BY <1>2 DEF returnCoroutine, heap, Goto
  <2>2. stack[t] = NoStack
    BY <2>1 DEF PoolInv, InHand
  <2>3. Shape'
    BY <2>1 DEF PoolInv, Shape
  <2>4. InHand'
    BY <1>2, <2>1 DEF PoolInv, Shape, InHand
  <2>5. PooledKept'
    BY <1>2, <2>1, StackFacts DEF PoolInv, Shape, PooledKept
  <2>6. \A s \in Stacks : Holders(s)' = Holders(s)
    <3> SUFFICES ASSUME NEW s \in Stacks PROVE Holders(s)' = Holders(s)
      OBVIOUS
    <3>1. \A u \in Borrowers \ {t} : stack'[u] = stack[u] /\ thread_pc'[u] = thread_pc[u]
      BY <2>1 DEF PoolInv, Shape
    <3>2. stack'[t] = s0 /\ thread_pc'[t] = "back_block" /\ stack[t] # s
      BY <2>1, <2>2, StackFacts DEF PoolInv, Shape
    <3>3. users'[s] = IF s = s0 THEN users[s] \ {t} ELSE users[s]
      BY <2>1 DEF PoolInv, Shape
    <3> QED BY <2>1, <3>1, <3>2, <3>3 DEF Holders
  <2>7. ExclusiveStack' /\ EveryBlockHeld'
    BY <2>1, <2>6 DEF PoolInv, ExclusiveStack, EveryBlockHeld
  <2> QED BY <2>3, <2>4, <2>5, <2>7 DEF PoolInv
<1> QED BY <1>1, <1>2

LEMMA BackBlockStep ==
  ASSUME PoolInv, NEW t \in Borrowers, BackBlock(t)
  PROVE  PoolInv'
<1> DEFINE s0 == stack[t]
<1>1. s0 \in Stacks \ Pooled
  BY DEF BackBlock, PoolInv, InHand
<1>2. /\ m_mem_blocks' = [m_mem_blocks EXCEPT ![s0[1]] = @ \ {s0[2]}]
      /\ thread_pc' = [thread_pc EXCEPT ![t] = "count_down"]
      /\ UNCHANGED <<m_memory_pool, m_free_cors, users, at, stack, leaked>>
      /\ thread_pc[t] = "back_block" /\ stack[t] = s0
  BY DEF BackBlock, Goto
<1> HIDE DEF s0
<1>3. Shape'
  BY <1>1, <1>2 DEF PoolInv, Shape
<1>4. InHand'
  BY <1>1, <1>2 DEF PoolInv, Shape, InHand
<1>5. PooledKept'
  BY <1>1, <1>2, StackFacts DEF PoolInv, Shape, PooledKept
<1>6. t \in Holders(s0) /\ \A u \in Holders(s0) : u = t
  BY <1>1, <1>2 DEF PoolInv, ExclusiveStack, Holders
<1>7. \A s \in Stacks : Holders(s)' = IF s = s0 THEN {} ELSE Holders(s)
  <2> SUFFICES ASSUME NEW s \in Stacks
               PROVE  Holders(s)' = IF s = s0 THEN {} ELSE Holders(s)
    OBVIOUS
  <2>1. \A u \in Borrowers \ {t} : thread_pc'[u] = thread_pc[u]
    BY <1>2 DEF PoolInv, Shape
  <2>2. thread_pc'[t] = "count_down"
    BY <1>2 DEF PoolInv, Shape
  <2>3. CASE s = s0
    <3>1. t \notin users[s0]
      BY <1>2 DEF PoolInv, InHand
    <3> QED BY <1>2, <1>6, <2>1, <2>2, <2>3, <3>1 DEF Holders
  <2>4. CASE s # s0
    BY <1>2, <2>1, <2>2, <2>4 DEF Holders
  <2> QED BY <2>3, <2>4
<1>8. \A s \in Stacks :
        s[2] \in m_mem_blocks'[s[1]] <=> (s # s0 /\ s[2] \in m_mem_blocks[s[1]])
  BY <1>1, <1>2, StackFacts DEF PoolInv, Shape
<1>9. ExclusiveStack' /\ EveryBlockHeld'
  BY <1>2, <1>7, <1>8 DEF PoolInv, ExclusiveStack, EveryBlockHeld
<1> QED BY <1>3, <1>4, <1>5, <1>9 DEF PoolInv

LEMMA CountDownStep ==
  ASSUME PoolInv, NEW t \in Borrowers, CountDown(t)
  PROVE  PoolInv'
<1>1. /\ stack' = [stack EXCEPT ![t] = NoStack]
      /\ thread_pc' = [thread_pc EXCEPT ![t] = "idle"] /\ thread_pc[t] = "count_down"
      /\ UNCHANGED <<m_memory_pool, m_mem_blocks, m_free_cors, users, at, leaked>>
  BY DEF CountDown, Goto
<1>2. Shape' /\ InHand'
  BY <1>1 DEF PoolInv, Shape, InHand
<1>3. \A s \in Stacks : Holders(s)' = Holders(s)
  BY <1>1, StackFacts DEF PoolInv, Shape, Holders
<1> QED BY <1>1, <1>2, <1>3, KeepHolders

LEMMA PoolStep == PoolInv /\ [PoolNext]_poolVars => PoolInv'
<1> SUFFICES ASSUME PoolInv, [PoolNext]_poolVars PROVE PoolInv'
  OBVIOUS
<1>1. CASE UNCHANGED poolVars
  BY <1>1 DEF poolVars, heap, locals, PoolInv, Shape, InHand, PooledKept, ExclusiveStack,
              EveryBlockHeld, Holders
<1>2. ASSUME NEW t \in Borrowers,
             \/ getCoroutineInstance(t) \/ ScanFreeCors(t) \/ GetBlock(t)
             \/ AddMemoryPool(t) \/ CountUp(t) \/ BackBlock(t) \/ CountDown(t)
      PROVE  PoolInv'
  BY <1>2, GetInstanceStep, ScanStep, GetBlockStep, AddPoolStep, CountUpStep, BackBlockStep,
     CountDownStep
<1>3. ASSUME NEW t \in Borrowers, NEW s \in Stacks, returnCoroutine(t, s) PROVE PoolInv'
  BY <1>3, ReturnStep
<1> QED BY <1>1, <1>2, <1>3 DEF PoolNext

LEMMA PoolInvariant == PoolSpec => []PoolInv
BY InitPool, PoolStep, PTL DEF PoolSpec

-----------------------------------------------------------------------------
(* No stack is ever in two hands, and the block of a stack in use is       *)
(* marked, whatever threads take and return coroutines and however many    *)
(* pools there are (getCoroutineInstance, getBlock, backBlock).            *)
THEOREM StacksExclusive == PoolSpec => []ExclusiveStack
<1>1. PoolInv => ExclusiveStack
  BY DEF PoolInv
<1> QED BY PoolInvariant, <1>1, PTL

(* Every marked block is a pooled coroutine's, in some hand, or lost to a  *)
(* vector that grew under the thread that returned it.                     *)
THEOREM BlocksHeld == PoolSpec => []EveryBlockHeld
<1>1. PoolInv => EveryBlockHeld
  BY DEF PoolInv
<1> QED BY PoolInvariant, <1>1, PTL

-----------------------------------------------------------------------------
(* The counters *)

At(p, pc) == {t \in Borrowers : thread_pc[t] = pc /\ stack[t][1] = p}

(* RefCountsBlocks, and what makes its sums numbers.                       *)
CountInv == m_ref_counts \in [Pools -> Int] /\ RefCountsBlocks

LEMMA Sizes ==
  ASSUME PoolInv, NEW p \in Pools, NEW pc
  PROVE  /\ IsFiniteSet(At(p, pc)) /\ Cardinality(At(p, pc)) \in Nat
         /\ Between(p, pc) = Cardinality(At(p, pc))
         /\ IsFiniteSet(m_mem_blocks[p]) /\ Cardinality(m_mem_blocks[p]) \in Nat
<1>1. IsFiniteSet(At(p, pc))
  BY PoolAssumption, FS_Subset DEF At, PoolAssumption
<1>2. IsFiniteSet(Blocks)
  BY PoolAssumption, FS_Interval DEF Blocks, PoolAssumption
<1>3. IsFiniteSet(m_mem_blocks[p])
  BY <1>2, FS_Subset DEF PoolInv, Shape
<1> QED
  BY <1>1, <1>3, FS_CardinalityType DEF Between, At

(* The counters stay right when neither they nor the sets they count       *)
(* change.                                                                 *)
LEMMA KeepCounts ==
  ASSUME CountInv, UNCHANGED <<m_mem_blocks, m_ref_counts>>,
         \A p \in Pools : /\ At(p, "count_up")' = At(p, "count_up")
                         /\ At(p, "count_down")' = At(p, "count_down")
  PROVE  CountInv'
BY DEF CountInv, RefCountsBlocks, Between, At

LEMMA GetBlockCounts ==
  ASSUME PoolInv, CountInv, NEW t \in Borrowers, GetBlock(t)
  PROVE  CountInv'
<1> DEFINE q == at[t]
           b == First(FreeBlocks(q))
<1>q. q \in Pools
  BY PoolAssumption DEF PoolInv, Shape, InHand, GetBlock, Pools, PoolAssumption
<1>1. CASE FreeBlocks(q) = {}
  BY <1>1, KeepCounts DEF GetBlock, At
<1>2. CASE FreeBlocks(q) # {}
  <2>1. b \in Blocks /\ b \notin m_mem_blocks[q]
    BY <1>2, FirstIsIn DEF FreeBlocks
  <2>2. /\ m_mem_blocks' = [m_mem_blocks EXCEPT ![q] = @ \cup {b}]
        /\ stack' = [stack EXCEPT ![t] = <<q, b>>]
        /\ thread_pc' = [thread_pc EXCEPT ![t] = "count_up"]
        /\ UNCHANGED m_ref_counts
        /\ thread_pc[t] = "get_block"
    BY <1>2 DEF GetBlock, Goto
  <2> HIDE DEF q, b
  <2>3. t \notin At(q, "count_up")
    BY <2>2 DEF At
  <2>4. \A p \in Pools :
          /\ At(p, "count_up")' = IF p = q THEN At(q, "count_up") \cup {t} ELSE At(p, "count_up")
          /\ At(p, "count_down")' = At(p, "count_down")
    <3>1. \A u \in Borrowers \ {t} : thread_pc'[u] = thread_pc[u] /\ stack'[u] = stack[u]
      BY <2>2 DEF PoolInv, Shape
    <3>2. thread_pc'[t] = "count_up" /\ stack'[t][1] = q
      BY <2>2 DEF PoolInv, Shape
    <3> QED
      BY <2>2, <3>1, <3>2 DEF At
  <2>5. SUFFICES ASSUME NEW p \in Pools
                 PROVE  m_ref_counts'[p] = Cardinality(m_mem_blocks'[p]) - Between(p, "count_up")'
                                             + Between(p, "count_down")'
    BY <2>2 DEF CountInv, RefCountsBlocks
  <2>6. m_ref_counts[p] = Cardinality(m_mem_blocks[p]) - Between(p, "count_up")
                            + Between(p, "count_down")
    BY DEF CountInv, RefCountsBlocks
  <2>7. Between(p, "count_down")' = Between(p, "count_down")
    BY <2>4 DEF Between, At
  <2>8. CASE p = q
    <3>1. m_mem_blocks'[p] = m_mem_blocks[p] \cup {b}
      BY <2>2, <2>8, <1>q DEF PoolInv, Shape
    <3>2. Cardinality(m_mem_blocks'[p]) = Cardinality(m_mem_blocks[p]) + 1
      <4>1. IsFiniteSet(m_mem_blocks[p]) /\ b \notin m_mem_blocks[p]
        BY <2>1, <2>8, Sizes
      <4> QED
        BY <3>1, <4>1, FS_AddElement
    <3>3. Cardinality(At(p, "count_up")') = Cardinality(At(p, "count_up")) + 1
      <4>1. IsFiniteSet(At(p, "count_up")) /\ t \notin At(p, "count_up")
        BY <2>3, <2>8, Sizes
      <4>2. At(p, "count_up")' = At(p, "count_up") \cup {t}
        BY <2>4, <2>8
      <4> QED
        BY <4>1, <4>2, FS_AddElement
    <3>4. Between(p, "count_up")' = Between(p, "count_up") + 1
      BY <3>3 DEF Between, At
    <3>5. /\ Between(p, "count_up") \in Nat /\ Between(p, "count_down") \in Nat
          /\ Cardinality(m_mem_blocks[p]) \in Nat
      BY Sizes
    <3> QED
      BY <2>2, <2>6, <2>7, <3>2, <3>4, <3>5
  <2>9. CASE p # q
    <3>1. m_mem_blocks'[p] = m_mem_blocks[p]
      BY <2>2, <2>9 DEF PoolInv, Shape
    <3>2. Between(p, "count_up")' = Between(p, "count_up")
      BY <2>4, <2>9 DEF Between, At
    <3> QED
      BY <2>2, <2>6, <2>7, <3>1, <3>2
  <2> QED
    BY <2>8, <2>9
<1> QED
  BY <1>1, <1>2

LEMMA CountUpCounts ==
  ASSUME PoolInv, CountInv, NEW t \in Borrowers, CountUp(t)
  PROVE  CountInv'
<1> DEFINE q == stack[t][1]
<1>1. stack[t] \in Stacks /\ q \in Pools
  BY StackFacts DEF CountUp, PoolInv, InHand
<1>2. /\ m_ref_counts' = [m_ref_counts EXCEPT ![q] = @ + 1]
      /\ stack' = [stack EXCEPT ![t] = NoStack]
      /\ thread_pc' = [thread_pc EXCEPT ![t] = "idle"]
      /\ UNCHANGED m_mem_blocks /\ thread_pc[t] = "count_up"
  BY DEF CountUp, Goto
<1>3. t \in At(q, "count_up")
  BY <1>2 DEF At
<1>4. \A p \in Pools :
        /\ At(p, "count_up")' = IF p = q THEN At(q, "count_up") \ {t} ELSE At(p, "count_up")
        /\ At(p, "count_down")' = At(p, "count_down")
  <2>1. \A u \in Borrowers \ {t} : thread_pc'[u] = thread_pc[u] /\ stack'[u] = stack[u]
    BY <1>2 DEF PoolInv, Shape
  <2>2. thread_pc'[t] = "idle"
    BY <1>2 DEF PoolInv, Shape
  <2> QED
    BY <1>2, <2>1, <2>2 DEF At
<1> HIDE DEF q
<1>5. m_ref_counts' \in [Pools -> Int]
  BY <1>1, <1>2 DEF CountInv
<1>6. SUFFICES ASSUME NEW p \in Pools
               PROVE  m_ref_counts'[p] = Cardinality(m_mem_blocks[p]) - Between(p, "count_up")'
                                           + Between(p, "count_down")'
  BY <1>2, <1>5 DEF CountInv, RefCountsBlocks
<1>7. m_ref_counts[p] = Cardinality(m_mem_blocks[p]) - Between(p, "count_up")
                          + Between(p, "count_down")
  BY DEF CountInv, RefCountsBlocks
<1>8. Between(p, "count_down")' = Between(p, "count_down")
  BY <1>4 DEF Between, At
<1>9. /\ Between(p, "count_up") \in Nat /\ Between(p, "count_down") \in Nat
      /\ Cardinality(m_mem_blocks[p]) \in Nat
  BY Sizes
<1>10. CASE p = q
  <2>1. Cardinality(At(p, "count_up")') = Cardinality(At(p, "count_up")) - 1
    BY <1>3, <1>4, <1>10, Sizes, FS_RemoveElement
  <2>2. Between(p, "count_up")' = Between(p, "count_up") - 1
    BY <2>1 DEF Between, At
  <2>3. m_ref_counts'[p] = m_ref_counts[p] + 1
    BY <1>2, <1>10 DEF CountInv
  <2> QED
    BY <1>7, <1>8, <1>9, <2>2, <2>3
<1>11. CASE p # q
  <2>1. m_ref_counts'[p] = m_ref_counts[p]
    BY <1>2, <1>11 DEF CountInv
  <2>2. Between(p, "count_up")' = Between(p, "count_up")
    BY <1>4, <1>11 DEF Between, At
  <2> QED
    BY <1>7, <1>8, <2>1, <2>2
<1> QED
  BY <1>10, <1>11

LEMMA BackBlockCounts ==
  ASSUME PoolInv, CountInv, NEW t \in Borrowers, BackBlock(t)
  PROVE  CountInv'
<1> DEFINE q == stack[t][1]
           b == stack[t][2]
<1>1. stack[t] \in Stacks /\ q \in Pools
  BY StackFacts DEF BackBlock, PoolInv, InHand
<1>2. /\ m_mem_blocks' = [m_mem_blocks EXCEPT ![q] = @ \ {b}]
      /\ thread_pc' = [thread_pc EXCEPT ![t] = "count_down"]
      /\ UNCHANGED <<m_ref_counts, stack>> /\ thread_pc[t] = "back_block"
  BY DEF BackBlock, Goto
<1>3. b \in m_mem_blocks[q]
  <2>1. t \in Holders(stack[t])
    BY <1>2 DEF Holders
  <2> QED
    BY <1>1, <2>1 DEF PoolInv, ExclusiveStack
<1>4. t \notin At(q, "count_down")
  BY <1>2 DEF At
<1>5. \A p \in Pools :
        /\ At(p, "count_down")' = IF p = q THEN At(q, "count_down") \cup {t}
                                 ELSE At(p, "count_down")
        /\ At(p, "count_up")' = At(p, "count_up")
  <2>1. \A u \in Borrowers \ {t} : thread_pc'[u] = thread_pc[u]
    BY <1>2 DEF PoolInv, Shape
  <2>2. thread_pc'[t] = "count_down"
    BY <1>2 DEF PoolInv, Shape
  <2> QED
    BY <1>2, <2>1, <2>2 DEF At
<1> HIDE DEF q, b
<1>6. SUFFICES ASSUME NEW p \in Pools
               PROVE  m_ref_counts[p] = Cardinality(m_mem_blocks'[p]) - Between(p, "count_up")'
                                          + Between(p, "count_down")'
  BY <1>2 DEF CountInv, RefCountsBlocks
<1>7. m_ref_counts[p] = Cardinality(m_mem_blocks[p]) - Between(p, "count_up")
                          + Between(p, "count_down")
  BY DEF CountInv, RefCountsBlocks
<1>8. Between(p, "count_up")' = Between(p, "count_up")
  BY <1>5 DEF Between, At
<1>9. /\ Between(p, "count_up") \in Nat /\ Between(p, "count_down") \in Nat
      /\ Cardinality(m_mem_blocks[p]) \in Nat
  BY Sizes
<1>10. CASE p = q
  <2>1. m_mem_blocks'[p] = m_mem_blocks[p] \ {b}
    BY <1>1, <1>2, <1>10 DEF PoolInv, Shape
  <2>2. Cardinality(m_mem_blocks'[p]) = Cardinality(m_mem_blocks[p]) - 1
    BY <1>3, <1>10, <2>1, Sizes, FS_RemoveElement
  <2>3. Cardinality(At(p, "count_down")') = Cardinality(At(p, "count_down")) + 1
    BY <1>4, <1>5, <1>10, Sizes, FS_AddElement
  <2>4. Between(p, "count_down")' = Between(p, "count_down") + 1
    BY <2>3 DEF Between, At
  <2> QED
    BY <1>7, <1>8, <1>9, <2>2, <2>4
<1>11. CASE p # q
  <2>1. m_mem_blocks'[p] = m_mem_blocks[p]
    BY <1>2, <1>11 DEF PoolInv, Shape
  <2>2. Between(p, "count_down")' = Between(p, "count_down")
    BY <1>5, <1>11 DEF Between, At
  <2> QED
    BY <1>7, <1>8, <2>1, <2>2
<1> QED
  BY <1>10, <1>11

LEMMA CountDownCounts ==
  ASSUME PoolInv, CountInv, NEW t \in Borrowers, CountDown(t)
  PROVE  CountInv'
<1> DEFINE q == stack[t][1]
<1>1. stack[t] \in Stacks /\ q \in Pools
  BY StackFacts DEF CountDown, PoolInv, InHand
<1>2. /\ m_ref_counts' = [m_ref_counts EXCEPT ![q] = @ - 1]
      /\ stack' = [stack EXCEPT ![t] = NoStack]
      /\ thread_pc' = [thread_pc EXCEPT ![t] = "idle"]
      /\ UNCHANGED m_mem_blocks /\ thread_pc[t] = "count_down"
  BY DEF CountDown, Goto
<1>3. t \in At(q, "count_down")
  BY <1>2 DEF At
<1>4. \A p \in Pools :
        /\ At(p, "count_down")' = IF p = q THEN At(q, "count_down") \ {t}
                                 ELSE At(p, "count_down")
        /\ At(p, "count_up")' = At(p, "count_up")
  <2>1. \A u \in Borrowers \ {t} : thread_pc'[u] = thread_pc[u] /\ stack'[u] = stack[u]
    BY <1>2 DEF PoolInv, Shape
  <2>2. thread_pc'[t] = "idle"
    BY <1>2 DEF PoolInv, Shape
  <2> QED
    BY <1>2, <2>1, <2>2 DEF At
<1> HIDE DEF q
<1>5. m_ref_counts' \in [Pools -> Int]
  BY <1>1, <1>2 DEF CountInv
<1>6. SUFFICES ASSUME NEW p \in Pools
               PROVE  m_ref_counts'[p] = Cardinality(m_mem_blocks[p]) - Between(p, "count_up")'
                                           + Between(p, "count_down")'
  BY <1>2, <1>5 DEF CountInv, RefCountsBlocks
<1>7. m_ref_counts[p] = Cardinality(m_mem_blocks[p]) - Between(p, "count_up")
                          + Between(p, "count_down")
  BY DEF CountInv, RefCountsBlocks
<1>8. Between(p, "count_up")' = Between(p, "count_up")
  BY <1>4 DEF Between, At
<1>9. /\ Between(p, "count_up") \in Nat /\ Between(p, "count_down") \in Nat
      /\ Cardinality(m_mem_blocks[p]) \in Nat
  BY Sizes
<1>10. CASE p = q
  <2>1. Cardinality(At(p, "count_down")') = Cardinality(At(p, "count_down")) - 1
    BY <1>3, <1>4, <1>10, Sizes, FS_RemoveElement
  <2>2. Between(p, "count_down")' = Between(p, "count_down") - 1
    BY <2>1 DEF Between, At
  <2>3. m_ref_counts'[p] = m_ref_counts[p] - 1
    BY <1>2, <1>10 DEF CountInv
  <2> QED
    BY <1>7, <1>8, <1>9, <2>2, <2>3
<1>11. CASE p # q
  <2>1. m_ref_counts'[p] = m_ref_counts[p]
    BY <1>2, <1>11 DEF CountInv
  <2>2. Between(p, "count_down")' = Between(p, "count_down")
    BY <1>4, <1>11 DEF Between, At
  <2> QED
    BY <1>7, <1>8, <2>1, <2>2
<1> QED
  BY <1>10, <1>11

(* The other steps move no thread between the marking and the counting.    *)
LEMMA OtherCounts ==
  ASSUME PoolInv, CountInv, NEW t \in Borrowers,
         \/ getCoroutineInstance(t) \/ ScanFreeCors(t) \/ AddMemoryPool(t)
         \/ \E s \in Stacks : returnCoroutine(t, s)
  PROVE  CountInv'
<1> SUFFICES \A p \in Pools : /\ At(p, "count_up")' = At(p, "count_up")
                              /\ At(p, "count_down")' = At(p, "count_down")
  BY KeepCounts DEF getCoroutineInstance, ScanFreeCors, AddMemoryPool, returnCoroutine, heap
<1> DEFINE Counting == {"count_up", "count_down"}
<1>1. \A u \in Borrowers : /\ thread_pc[u] \in Counting \/ thread_pc'[u] \in Counting
                            => thread_pc'[u] = thread_pc[u] /\ stack'[u] = stack[u]
  <2>1. CASE getCoroutineInstance(t)
    BY <2>1 DEF getCoroutineInstance, Goto, PoolInv, Shape
  <2>2. CASE ScanFreeCors(t)
    BY <2>2 DEF ScanFreeCors, Goto, PoolInv, Shape
  <2>3. CASE AddMemoryPool(t)
    BY <2>3 DEF AddMemoryPool
  <2>4. ASSUME NEW s \in Stacks, returnCoroutine(t, s)
        PROVE  \A u \in Borrowers : /\ thread_pc[u] \in Counting \/ thread_pc'[u] \in Counting
                                   => thread_pc'[u] = thread_pc[u] /\ stack'[u] = stack[u]
    BY <2>4 DEF returnCoroutine, Goto, PoolInv, Shape
  <2> QED
    BY <2>1, <2>2, <2>3, <2>4
<1> QED
  BY <1>1 DEF At

LEMMA CountStep == PoolInv /\ CountInv /\ [PoolNext]_poolVars => CountInv'
<1> SUFFICES ASSUME PoolInv, CountInv, [PoolNext]_poolVars PROVE CountInv'
  OBVIOUS
<1>1. CASE UNCHANGED poolVars
  BY <1>1, KeepCounts DEF poolVars, heap, locals, At
<1>2. ASSUME NEW t \in Borrowers, GetBlock(t) \/ CountUp(t) \/ BackBlock(t) \/ CountDown(t)
      PROVE  CountInv'
  BY <1>2, GetBlockCounts, CountUpCounts, BackBlockCounts, CountDownCounts
<1>3. ASSUME NEW t \in Borrowers,
             \/ getCoroutineInstance(t) \/ ScanFreeCors(t) \/ AddMemoryPool(t)
             \/ \E s \in Stacks : returnCoroutine(t, s)
      PROVE  CountInv'
  BY <1>3, OtherCounts
<1> QED
  BY <1>1, <1>2, <1>3 DEF PoolNext

LEMMA InitCounts == PoolInit => CountInv
<1> SUFFICES ASSUME PoolInit PROVE CountInv
  OBVIOUS
<1>1. m_ref_counts \in [Pools -> Int]
  BY PoolAssumption DEF PoolInit, PoolAssumption
<1>2. \A p \in Pools : At(p, "count_up") = {} /\ At(p, "count_down") = {}
  BY DEF PoolInit, At
<1>3. \A p \in Pools : Between(p, "count_up") = 0 /\ Between(p, "count_down") = 0
  BY <1>2, FS_EmptySet DEF Between, At
<1>4. Cardinality(Blocks) = m_cor_pool_size /\ Cardinality({}) = 0
  BY PoolAssumption, FS_Interval, FS_EmptySet DEF Blocks, PoolAssumption
<1>5. \A p \in Pools : m_ref_counts[p] = Cardinality(m_mem_blocks[p])
  BY <1>4 DEF PoolInit
<1>6. \A p \in Pools : m_ref_counts[p] = m_ref_counts[p] - 0 + 0
  BY <1>1
<1> QED
  BY <1>1, <1>3, <1>5, <1>6 DEF CountInv, RefCountsBlocks

(* m_ref_counts, changed outside the mutex of its memory pool, is the      *)
(* number of marked blocks but for the threads on their way from one to    *)
(* the other (getBlock, backBlock), for any number of threads and pools.   *)
THEOREM CountersFollow == PoolSpec => []RefCountsBlocks
<1>1. PoolSpec => []CountInv
  BY InitCounts, CountStep, PoolInvariant, PTL DEF PoolSpec
<1>2. CountInv => RefCountsBlocks
  BY DEF CountInv
<1> QED
  BY <1>1, <1>2, PTL

(* The threads between the two changes of getBlock hold distinct marked    *)
(* blocks, so that no counter falls below zero.                            *)
LEMMA CountersInNat ==
  ASSUME PoolInv, CountInv
  PROVE  m_ref_counts \in [Pools -> Nat]
<1> SUFFICES ASSUME NEW p \in Pools PROVE m_ref_counts[p] >= 0
  BY DEF CountInv
<1> DEFINE up == At(p, "count_up")
           f  == [t \in up |-> stack[t][2]]
<1>1. \A t \in up : /\ t \in Borrowers /\ stack[t] \in Stacks /\ stack[t][1] = p
                    /\ t \in Holders(stack[t])
  BY DEF At, PoolInv, InHand, Holders
<1>2. \A t \in up : stack[t][2] \in m_mem_blocks[p]
  BY <1>1 DEF PoolInv, ExclusiveStack
<1>3. \A t, u \in up : stack[t][2] = stack[u][2] => t = u
  <2> SUFFICES ASSUME NEW t \in up, NEW u \in up, stack[t][2] = stack[u][2] PROVE t = u
    OBVIOUS
  <2>1. stack[t] = stack[u]
    BY <1>1, StackFacts
  <2> QED BY <1>1, <2>1 DEF PoolInv, ExclusiveStack
<1>4. f \in Injection(up, m_mem_blocks[p])
  BY <1>2, <1>3 DEF Injection, IsInjective
<1>5. Cardinality(up) <= Cardinality(m_mem_blocks[p])
  BY <1>4, Sizes, FS_Injection
<1>6. m_ref_counts[p] = Cardinality(m_mem_blocks[p]) - Cardinality(up)
                                                    + Cardinality(At(p, "count_down"))
  BY Sizes DEF CountInv, RefCountsBlocks
<1> HIDE DEF up
<1> QED
  BY <1>5, <1>6, Sizes DEF up

(* Type correctness, the counters in Nat included: a counter that another  *)
(* thread changes between a mark and its count is never below zero         *)
(* (getBlock, backBlock).                                                  *)
THEOREM PoolTypeCorrect == PoolSpec => []PoolTypeOK
<1>1. PoolSpec => []CountInv
  BY InitCounts, CountStep, PoolInvariant, PTL DEF PoolSpec
<1>2. PoolInv /\ CountInv => PoolTypeOK
  BY CountersInNat DEF PoolInv, Shape, PoolTypeOK
<1> QED
  BY PoolInvariant, <1>1, <1>2, PTL
=============================================================================
