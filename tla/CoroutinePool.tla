--------------------------- MODULE CoroutinePool ---------------------------
(***************************************************************************)
(* The process-wide pool of coroutines (coroutine_pool.cpp) over the       *)
(* memory pools their stacks come from (memory_pool.cpp).  A coroutine is  *)
(* named by its stack: <<pool, block>>.  The coroutines of m_free_cors are *)
(* made with the pool on the blocks of the first memory pool; when none of *)
(* them can be handed out, a coroutine is made on a free block.            *)
(*                                                                         *)
(* getCoroutineInstance holds CoroutinePool::m_mutex, returnCoroutine does *)
(* not; the flags of a memory pool's blocks have a mutex of their own and  *)
(* its reference count is atomic.                                          *)
(***************************************************************************)
EXTENDS Integers, FiniteSets

CONSTANTS
  Borrowers,         (* threads that take and return coroutines              *)
  m_cor_pool_size,   (* coroutines made with the pool, and blocks of a pool  *)
  MaxPools           (* bound: memory pools                                  *)

PoolAssumption ==
  /\ IsFiniteSet(Borrowers)
  /\ m_cor_pool_size \in Nat \ {0} /\ MaxPools \in Nat \ {0}

ASSUME PoolAssumption

Blocks == 1 .. m_cor_pool_size
Pools  == 1 .. MaxPools
Stacks == Pools \X Blocks
Pooled == {1} \X Blocks
NoStack == <<0, 0>>

VARIABLES
  m_memory_pool,     \* the number of memory pools
  m_mem_blocks,      \* of each pool, the blocks marked used
  m_ref_counts,      \* of each pool
  m_free_cors,       \* state and flag of the coroutines made with the pool
  users,             \* the threads that hold a coroutine, by stack
  thread_pc,         \* where each thread is
  at, stack,         \* locals: the pool reached, the stack concerned
  leaked             \* history: blocks whose return was lost

heap     == <<m_memory_pool, m_mem_blocks, m_ref_counts>>
locals   == <<thread_pc, at, stack>>
poolVars == <<heap, m_free_cors, users, locals, leaked>>

PoolTypeOK ==
  /\ m_memory_pool \in Pools
  /\ m_mem_blocks \in [Pools -> SUBSET Blocks]
  /\ m_ref_counts \in [Pools -> Nat]
  /\ m_free_cors \in [Blocks -> [state : {"READY", "TERM"}, second : BOOLEAN]]
  /\ users \in [Stacks -> SUBSET Borrowers]
  /\ thread_pc \in [Borrowers -> {"idle", "free_cors", "get_block", "count_up",
                                  "back_block", "count_down"}]
  /\ at \in [Borrowers -> 0 .. MaxPools + 1]
  /\ stack \in [Borrowers -> Stacks \cup {NoStack}]
  /\ leaked \in SUBSET Stacks

(* The constructor takes every block of the first memory pool.             *)
PoolInit ==
  /\ m_memory_pool = 1
  /\ m_mem_blocks = [p \in Pools |-> IF p = 1 THEN Blocks ELSE {}]
  /\ m_ref_counts = [p \in Pools |-> IF p = 1 THEN m_cor_pool_size ELSE 0]
  /\ m_free_cors = [b \in Blocks |-> [state |-> "READY", second |-> FALSE]]
  /\ users = [s \in Stacks |-> {}]
  /\ thread_pc = [t \in Borrowers |-> "idle"]
  /\ at = [t \in Borrowers |-> 0]
  /\ stack = [t \in Borrowers |-> NoStack]
  /\ leaked = {}

Goto(t, pc) == thread_pc' = [thread_pc EXCEPT ![t] = pc]

-----------------------------------------------------------------------------
(* m_mutex is held from the scan of m_free_cors to the return.             *)
Locked == \E t \in Borrowers : thread_pc[t] \in {"free_cors", "get_block", "count_up"}

getCoroutineInstance(t) ==
  /\ thread_pc[t] = "idle" /\ ~Locked
  /\ Goto(t, "free_cors")
  /\ UNCHANGED <<heap, m_free_cors, users, at, stack, leaked>>

(* Only a coroutine that has run to its end and is not out is handed out.  *)
Reusable == {b \in Blocks : m_free_cors[b].state = "TERM" /\ ~m_free_cors[b].second}
First(bs) == CHOOSE b \in bs : \A c \in bs : b <= c

ScanFreeCors(t) ==
  /\ thread_pc[t] = "free_cors"
  /\ IF Reusable = {}
     THEN /\ Goto(t, "get_block")
          /\ at' = [at EXCEPT ![t] = 1]
          /\ UNCHANGED <<m_free_cors, users>>
     ELSE LET b == First(Reusable) IN
          /\ m_free_cors' = [m_free_cors EXCEPT ![b] = [state |-> "READY", second |-> TRUE]]
          /\ users' = [users EXCEPT ![<<1, b>>] = @ \cup {t}]
          /\ Goto(t, "idle")
          /\ UNCHANGED at
  /\ UNCHANGED <<heap, stack, leaked>>

(* MemoryPool::getBlock marks the first free block under the pool's mutex  *)
(* and counts it after the unlock; a full pool is followed by the next.    *)
FreeBlocks(p) == Blocks \ m_mem_blocks[p]

GetBlock(t) ==
  /\ thread_pc[t] = "get_block" /\ at[t] <= m_memory_pool
  /\ LET p == at[t] IN
     IF FreeBlocks(p) = {}
     THEN /\ at' = [at EXCEPT ![t] = p + 1]
          /\ UNCHANGED <<m_mem_blocks, thread_pc, stack>>
     ELSE /\ m_mem_blocks' = [m_mem_blocks EXCEPT ![p] = @ \cup {First(FreeBlocks(p))}]
          /\ stack' = [stack EXCEPT ![t] = <<p, First(FreeBlocks(p))>>]
          /\ Goto(t, "count_up")
          /\ UNCHANGED at
  /\ UNCHANGED <<m_memory_pool, m_ref_counts, m_free_cors, users, leaked>>

(* After the last pool a new one is made.  A thread in returnCoroutine     *)
(* goes through the vector without the lock: when the vector grows under   *)
(* it, what it reads is undefined and its block may stay marked for ever.  *)
AddMemoryPool(t) ==
  /\ thread_pc[t] = "get_block" /\ at[t] > m_memory_pool
  /\ m_memory_pool < MaxPools
  /\ m_memory_pool' = m_memory_pool + 1
  /\ \E us \in SUBSET {u \in Borrowers : thread_pc[u] = "back_block"} :
       /\ leaked' = leaked \cup {stack[u] : u \in us}
       /\ stack' = [u \in Borrowers |-> IF u \in us THEN NoStack ELSE stack[u]]
       /\ thread_pc' = [u \in Borrowers |-> IF u \in us THEN "idle" ELSE thread_pc[u]]
  /\ UNCHANGED <<m_mem_blocks, m_ref_counts, m_free_cors, users, at>>

(* Mutant: every block is counted in the first pool.                       *)
CountInFirst(t) ==
  /\ thread_pc[t] = "count_up"
  /\ m_ref_counts' = [m_ref_counts EXCEPT ![1] = @ + 1]
  /\ users' = [users EXCEPT ![stack[t]] = @ \cup {t}]
  /\ stack' = [stack EXCEPT ![t] = NoStack]
  /\ at' = [at EXCEPT ![t] = 0]
  /\ Goto(t, "idle")
  /\ UNCHANGED <<m_memory_pool, m_mem_blocks, m_free_cors, leaked>>

CountUp(t) ==
  /\ thread_pc[t] = "count_up"
  /\ m_ref_counts' = [m_ref_counts EXCEPT ![stack[t][1]] = @ + 1]
  /\ users' = [users EXCEPT ![stack[t]] = @ \cup {t}]
  /\ stack' = [stack EXCEPT ![t] = NoStack]
  /\ at' = [at EXCEPT ![t] = 0]
  /\ Goto(t, "idle")
  /\ UNCHANGED <<m_memory_pool, m_mem_blocks, m_free_cors, leaked>>

-----------------------------------------------------------------------------
(* Mutant: only the first memory pool is asked for the block.              *)
returnToFirstPool(t, s) ==
  /\ thread_pc[t] = "idle" /\ t \in users[s]
  /\ users' = [users EXCEPT ![s] = @ \ {t}]
  /\ IF s[1] = 1
     THEN /\ stack' = [stack EXCEPT ![t] = s]
          /\ Goto(t, "back_block")
     ELSE UNCHANGED <<thread_pc, stack>>
  /\ UNCHANGED <<heap, m_free_cors, at, leaked>>

(* A coroutine of m_free_cors, which may have run to its end, is free      *)
(* again; of another one the block is given back.                          *)
returnCoroutine(t, s) ==
  /\ thread_pc[t] = "idle" /\ t \in users[s]
  /\ users' = [users EXCEPT ![s] = @ \ {t}]
  /\ IF s \in Pooled
     THEN /\ \E st \in {"READY", "TERM"} :
               m_free_cors' = [m_free_cors EXCEPT ![s[2]] = [state |-> st, second |-> FALSE]]
          /\ UNCHANGED <<thread_pc, stack>>
     ELSE /\ stack' = [stack EXCEPT ![t] = s]
          /\ Goto(t, "back_block")
          /\ UNCHANGED m_free_cors
  /\ UNCHANGED <<heap, at, leaked>>

(* Mutant: the block's index is one too high.                              *)
BackNextBlock(t) ==
  /\ thread_pc[t] = "back_block"
  /\ m_mem_blocks' = [m_mem_blocks EXCEPT ![stack[t][1]] = @ \ {stack[t][2] + 1}]
  /\ Goto(t, "count_down")
  /\ UNCHANGED <<m_memory_pool, m_ref_counts, m_free_cors, users, at, stack, leaked>>

BackBlock(t) ==
  /\ thread_pc[t] = "back_block"
  /\ m_mem_blocks' = [m_mem_blocks EXCEPT ![stack[t][1]] = @ \ {stack[t][2]}]
  /\ Goto(t, "count_down")
  /\ UNCHANGED <<m_memory_pool, m_ref_counts, m_free_cors, users, at, stack, leaked>>

CountDown(t) ==
  /\ thread_pc[t] = "count_down"
  /\ m_ref_counts' = [m_ref_counts EXCEPT ![stack[t][1]] = @ - 1]
  /\ stack' = [stack EXCEPT ![t] = NoStack]
  /\ Goto(t, "idle")
  /\ UNCHANGED <<m_memory_pool, m_mem_blocks, m_free_cors, users, at, leaked>>

PoolNext == \E t \in Borrowers :
  \/ getCoroutineInstance(t) \/ ScanFreeCors(t) \/ GetBlock(t) \/ AddMemoryPool(t)
  \/ CountUp(t) \/ BackBlock(t) \/ CountDown(t)
  \/ \E s \in Stacks : returnCoroutine(t, s)

PoolSpec == PoolInit /\ [][PoolNext]_poolVars

-----------------------------------------------------------------------------
(* The threads that have a stack: its users, and those between the marking *)
(* of its block and the end of getBlock, or before the end of backBlock.   *)
Holders(s) ==
  users[s] \cup {t \in Borrowers : stack[t] = s /\ thread_pc[t] # "count_down"}

(* No stack is in two hands, and the block of a stack that is in use is    *)
(* marked, so that getBlock cannot give it away (getBlock, backBlock).     *)
ExclusiveStack ==
  \A s \in Stacks :
    /\ \A t, u \in Holders(s) : t = u
    /\ Holders(s) # {} => s[2] \in m_mem_blocks[s[1]]

(* m_ref_counts, which is changed outside the lock, is the number of used  *)
(* blocks but for the threads between the two changes.                     *)
Between(p, pc) == Cardinality({t \in Borrowers : thread_pc[t] = pc /\ stack[t][1] = p})
RefCountsBlocks ==
  \A p \in Pools :
    m_ref_counts[p] = Cardinality(m_mem_blocks[p]) - Between(p, "count_up")
                                                   + Between(p, "count_down")

(* No marked block is forgotten, unless the vector of pools grew under the *)
(* thread that returned it.                                                *)
EveryBlockHeld ==
  \A s \in Stacks : s[2] \in m_mem_blocks[s[1]] => s \in Pooled \cup leaked \/ Holders(s) # {}
=============================================================================
