---------------------------- MODULE AsyncChannel -----------------------------
(***************************************************************************)
(* One call over ZRpcPbRpcAsyncChannel (zrpc_pb_rpc_async_channel.cpp).    *)
(* A coroutine, the caller, makes the channel on an IO thread, Home, and   *)
(* calls; a coroutine of the pool, pending, makes the call on another      *)
(* thread (io_thread.cpp:147) and sends the answer back as a task for      *)
(* Home, call_back, which runs the closure and resumes a caller that       *)
(* waits.  A coroutine that blocks goes to whichever thread takes it from  *)
(* CoroutineTaskQueue.  The channel lives as long as one of the three      *)
(* holds it: refs.                                                         *)
(*                                                                         *)
(* m_need_resume and m_is_finished are plain fields that two threads read  *)
(* and write without a lock: a store stays in the buffer of its thread for *)
(* some time and only that thread sees it.                                 *)
(*                                                                         *)
(* resetCallBack leaves a coroutine of the pool that resume() refuses      *)
(* (coroutine.cpp:232): m_cor_need_resume = FALSE is that code, TRUE the   *)
(* coroutine that its callers take it to be.                               *)
(***************************************************************************)
EXTENDS Integers, FiniteSets

CONSTANTS
  m_size,    (* IO threads                                                   *)
  Home,      (* the thread the channel is made on: m_current_iothread        *)
  MaxBlocks  (* bound: how often the caller, and pending, block on a socket  *)

Threads == 0 .. m_size - 1
Nowhere == -1

ChannelAssumption == m_size \in Nat \ {0} /\ Home \in Threads /\ MaxBlocks \in Nat

ASSUME ChannelAssumption

VARIABLES
  m_cor_need_resume,
  drawn,                         \* what the random engine of io_thread.cpp draws
  m_is_pre_set, m_is_finished, m_need_resume,
  buffer,                        \* by thread: the fields whose store waits in its buffer
  refs,                          \* who holds the channel
  caller_pc, caller_on,          \* the caller, and its thread, Nowhere if suspended
  pending_pc, pending_on,
  back_pc,                       \* call_back
  blocks,                        \* how often each coroutine has blocked
  closures, returned, aborted,   \* closure runs; the stack is given back; the process ended
  strayed                        \* history: the caller waited on another thread than Home

fields  == <<m_is_finished, m_need_resume, buffer>>
caller  == <<caller_pc, caller_on>>
pending == <<pending_pc, pending_on>>
chosen  == <<m_cor_need_resume, drawn>>
vars    == <<chosen, m_is_pre_set, fields, refs, caller, pending, back_pc, blocks, closures,
             returned, aborted, strayed>>

TypeOK ==
  /\ m_cor_need_resume \in BOOLEAN /\ drawn \in Threads
  /\ {m_is_pre_set, m_is_finished, m_need_resume, returned, aborted, strayed} \subseteq BOOLEAN
  /\ buffer \in [Threads -> SUBSET {"m_need_resume", "m_is_finished"}]
  /\ refs \subseteq {"caller", "cb", "call_back"}
  /\ caller_pc \in {"made", "called", "wait", "yield", "waiting", "after",
                    "gone"}
  /\ caller_on \in Threads \cup {Nowhere}
  /\ pending_pc \in {"none", "task", "call", "reset", "ending", "ended"}
  /\ pending_on \in Threads \cup {Nowhere}
  /\ back_pc \in {"none", "queued", "closure", "finished", "resumed", "ended"}
  /\ blocks \in [{"caller", "pending"} -> 0 .. MaxBlocks]
  /\ closures \in 0 .. 1

Init ==
  /\ m_cor_need_resume \in BOOLEAN /\ drawn \in Threads
  /\ m_is_pre_set \in BOOLEAN /\ m_is_finished = FALSE /\ m_need_resume = FALSE
  /\ buffer = [t \in Threads |-> {}]
  /\ refs = {"caller"}
  /\ caller_pc = "made" /\ caller_on = Home
  /\ pending_pc = "none" /\ pending_on = Nowhere /\ back_pc = "none"
  /\ blocks = [c \in {"caller", "pending"} |-> 0]
  /\ closures = 0 /\ returned = FALSE /\ aborted = FALSE /\ strayed = FALSE

-----------------------------------------------------------------------------
(* Stores that another thread does not see yet *)

Store(t, field) == buffer' = [buffer EXCEPT ![t] = @ \cup {field}]

(* Mutant: the caller is resumed whether it waits or not.                  *)
NeedResumeAlways(t) == TRUE

Finished(t)   == m_is_finished \/ "m_is_finished" \in buffer[t]
NeedResume(t) == m_need_resume \/ "m_need_resume" \in buffer[t]

Drain(t) ==
  /\ buffer[t] # {}
  /\ buffer' = [buffer EXCEPT ![t] = {}]
  /\ m_need_resume' = NeedResume(t)
  /\ m_is_finished' = Finished(t)
  /\ UNCHANGED <<chosen, m_is_pre_set, refs, caller, pending, back_pc, blocks, closures,
                 returned, aborted, strayed>>

-----------------------------------------------------------------------------
(* The reference that is dropped last destroys the channel, which gives    *)
(* pending's stack back; without one the destructor uses a null pointer.   *)
Drop(holder) ==
  /\ refs' = refs \ {holder}
  /\ returned' = (refs' = {} /\ pending_pc # "none")
  /\ aborted' = (refs' = {} /\ pending_pc = "none")

(* A thread's loop runs one thing at a time; call_back waits below the     *)
(* caller that it has resumed.                                             *)
BackRuns == back_pc \in {"closure", "finished", "resumed"}
Idle(t)  == /\ ~aborted /\ caller_on # t
            /\ ~(pending_on = t /\ pending_pc # "task") /\ ~(t = Home /\ BackRuns)

(* A coroutine that is suspended in a hook, and one that may be.           *)
Blocks(coroutine) ==
  /\ ~aborted /\ blocks[coroutine] < MaxBlocks
  /\ blocks' = [blocks EXCEPT ![coroutine] = @ + 1]

-----------------------------------------------------------------------------
(* The caller *)

Calls(from) == ~aborted /\ caller_on # Nowhere /\ caller_pc \in from

(* addCoroutineToRandomThread(cb, false): another thread, if there is one. *)
RandomThread(self) ==
  IF m_size = 1 \/ drawn # self THEN drawn
  ELSE IF drawn + 1 = m_size THEN drawn - 1 ELSE drawn + 1

(* Without saveCallee the call reports its error and is finished.          *)
NotPreSet ==
  /\ ~m_is_pre_set
  /\ Store(caller_on, "m_is_finished")
  /\ UNCHANGED <<refs, pending>>

(* Mutant: the lambda holds the channel by its this pointer.               *)
PostRaw ==
  /\ m_is_pre_set
  /\ pending_pc' = "task" /\ pending_on' = RandomThread(caller_on)
  /\ UNCHANGED <<buffer, refs>>

(* The lambda holds the channel by shared_from_this.                       *)
Post ==
  /\ m_is_pre_set
  /\ refs' = refs \cup {"cb"}
  /\ pending_pc' = "task" /\ pending_on' = RandomThread(caller_on)
  /\ UNCHANGED buffer

(* With saveCallee the number of the message is read through a pointer to  *)
(* the code of GetCurrentRunTime, taken for a RunTime: it may end the      *)
(* process.                                                                *)
ReadsCodeAsRunTime ==
  /\ m_is_pre_set
  /\ aborted' = TRUE
  /\ UNCHANGED <<buffer, refs, pending>>

CallMethod ==
  /\ Calls({"made"}) /\ caller_pc' = "called"
  /\ \/ (NotPreSet \/ Post) /\ UNCHANGED aborted
     \/ ReadsCodeAsRunTime
  /\ UNCHANGED <<chosen, m_is_pre_set, m_is_finished, m_need_resume, caller_on, back_pc, blocks,
                 closures, returned, strayed>>

(* It reaches another thread through a lock, which drains the buffer.      *)
CallerBlocks ==
  /\ Calls({"made", "called", "after"}) /\ Blocks("caller")
  /\ buffer[caller_on] = {}
  /\ caller_on' = Nowhere
  /\ UNCHANGED <<chosen, m_is_pre_set, fields, refs, caller_pc, pending, back_pc, closures,
                 returned, aborted, strayed>>

CallerUnblocks(t) ==
  /\ Idle(t) /\ caller_on = Nowhere /\ caller_pc \in {"made", "called", "after"}
  /\ caller_on' = t
  /\ UNCHANGED <<chosen, m_is_pre_set, fields, refs, caller_pc, pending, back_pc, blocks,
                 closures, returned, aborted, strayed>>

wait ==
  /\ Calls({"called"}) /\ caller_pc' = "wait"
  /\ Store(caller_on, "m_need_resume")
  /\ strayed' = (caller_on # Home)
  /\ UNCHANGED <<chosen, m_is_pre_set, m_is_finished, m_need_resume, refs, caller_on, pending,
                 back_pc, blocks, closures, returned, aborted>>

(* Mutant: the caller yields without a look at m_is_finished.              *)
waitTestBlind ==
  /\ Calls({"wait"}) /\ caller_pc' = "yield"
  /\ UNCHANGED <<chosen, m_is_pre_set, fields, refs, caller_on, pending, back_pc, blocks,
                 closures, returned, aborted, strayed>>

waitTest ==
  /\ Calls({"wait"})
  /\ caller_pc' = IF Finished(caller_on) THEN "after" ELSE "yield"
  /\ UNCHANGED <<chosen, m_is_pre_set, fields, refs, caller_on, pending, back_pc, blocks,
                 closures, returned, aborted, strayed>>

waitYield ==
  /\ Calls({"yield"}) /\ caller_pc' = "waiting" /\ caller_on' = Nowhere
  /\ UNCHANGED <<chosen, m_is_pre_set, fields, refs, pending, back_pc, blocks, closures,
                 returned, aborted, strayed>>

(* The caller drops the channel, with or without having waited, and ends.  *)
CallerEnds ==
  /\ Calls({"called", "after"}) /\ caller_pc' = "gone" /\ caller_on' = Nowhere
  /\ Drop("caller")
  /\ UNCHANGED <<chosen, m_is_pre_set, fields, pending, back_pc, blocks, closures, strayed>>

-----------------------------------------------------------------------------
(* The pending coroutine *)

Pends(from) == ~aborted /\ pending_on # Nowhere /\ pending_pc \in from

(* Its thread's loop takes the task that resumes it.                       *)
PendingStarts ==
  /\ pending_pc = "task" /\ Idle(pending_on)
  /\ IF m_cor_need_resume THEN pending_pc' = "call" /\ UNCHANGED aborted
                          ELSE aborted' = TRUE /\ UNCHANGED pending_pc
  /\ UNCHANGED <<chosen, m_is_pre_set, fields, refs, caller, pending_on, back_pc, blocks,
                 closures, returned, strayed>>

PendingBlocks ==
  /\ Pends({"call"}) /\ Blocks("pending")
  /\ pending_on' = Nowhere
  /\ UNCHANGED <<chosen, m_is_pre_set, fields, refs, caller, pending_pc, back_pc, closures,
                 returned, aborted, strayed>>

PendingUnblocks(t) ==
  /\ Idle(t) /\ pending_on = Nowhere /\ pending_pc = "call"
  /\ pending_on' = t
  /\ UNCHANGED <<chosen, m_is_pre_set, fields, refs, caller, pending_pc, back_pc, blocks,
                 closures, returned, aborted, strayed>>

(* The call has ended, well or not, and call_back goes to Home.            *)
Answer ==
  /\ Pends({"call"}) /\ pending_pc' = "reset"
  /\ back_pc' = "queued" /\ refs' = refs \cup {"call_back"}
  /\ UNCHANGED <<chosen, m_is_pre_set, fields, caller, pending_on, blocks, closures, returned,
                 aborted, strayed>>

PendingResets ==
  /\ Pends({"reset"}) /\ pending_pc' = "ending"
  /\ Drop("cb")
  /\ UNCHANGED <<chosen, m_is_pre_set, fields, caller, pending_on, back_pc, blocks, closures,
                 strayed>>

PendingEnds ==
  /\ Pends({"ending"}) /\ pending_pc' = "ended" /\ pending_on' = Nowhere
  /\ UNCHANGED <<chosen, m_is_pre_set, fields, refs, caller, back_pc, blocks, closures, returned,
                 aborted, strayed>>

-----------------------------------------------------------------------------
(* call_back, on Home *)

(* Mutant: the channel is finished before the closure runs.                *)
FinishFirst ==
  \/ /\ back_pc = "queued" /\ Idle(Home) /\ back_pc' = "closure"
     /\ Store(Home, "m_is_finished") /\ UNCHANGED closures
  \/ /\ back_pc = "closure" /\ back_pc' = "finished"
     /\ closures' = closures + 1 /\ UNCHANGED buffer

RunThenFinish ==
  \/ /\ back_pc = "queued" /\ Idle(Home) /\ back_pc' = "closure"
     /\ closures' = closures + 1 /\ UNCHANGED buffer
  \/ /\ back_pc = "closure" /\ back_pc' = "finished"
     /\ Store(Home, "m_is_finished") /\ UNCHANGED closures

call_back ==
  /\ ~aborted /\ RunThenFinish
  /\ UNCHANGED <<chosen, m_is_pre_set, m_is_finished, m_need_resume, refs, caller, pending,
                 blocks, returned, aborted, strayed>>

(* resume() of the caller, which must be suspended: it runs on Home.       *)
ResumeCaller ==
  /\ ~aborted /\ back_pc = "finished" /\ NeedResume(Home)
  /\ back_pc' = "resumed"
  /\ IF caller_on = Nowhere /\ caller_pc # "gone"
     THEN /\ caller_on' = Home /\ UNCHANGED aborted
          /\ caller_pc' = IF caller_pc = "waiting" THEN "after" ELSE caller_pc
     ELSE aborted' = TRUE /\ UNCHANGED caller
  /\ UNCHANGED <<chosen, m_is_pre_set, fields, refs, pending, blocks, closures, returned, strayed>>

BackEnds ==
  /\ ~aborted /\ back_pc' = "ended"
  /\ \/ back_pc = "finished" /\ ~NeedResume(Home)
     \/ back_pc = "resumed" /\ caller_on # Home
  /\ Drop("call_back")
  /\ UNCHANGED <<chosen, m_is_pre_set, fields, caller, pending, blocks, closures, strayed>>

-----------------------------------------------------------------------------
CallerSteps == CallMethod \/ CallerBlocks \/ wait \/ waitTest \/ waitYield \/ CallerEnds
PendingSteps == PendingStarts \/ PendingBlocks \/ Answer \/ PendingResets \/ PendingEnds
BackSteps == call_back \/ ResumeCaller \/ BackEnds

Next == \/ CallerSteps \/ PendingSteps \/ BackSteps
        \/ \E t \in Threads : CallerUnblocks(t) \/ PendingUnblocks(t) \/ Drain(t)

Spec == Init /\ [][Next]_vars

(* The threads go on and the call ends, its timer sees to that (RpcCall);  *)
(* no behaviour has infinitely many steps.                                 *)
FairSpec == Spec /\ WF_vars(Next)

-----------------------------------------------------------------------------
(* A caller that returns from wait() finds the closure run: the answer is  *)
(* there, on whatever thread it waited (call_back sets m_is_finished after *)
(* the closure).                                                           *)
ClosureBeforeReturn ==
  caller_pc = "after" /\ m_is_pre_set => closures = 1

(* The channel outlives the call that pending makes over it, even when the *)
(* caller drops it at once.  It may be pending's own lambda that drops it  *)
(* last; the stack is then given back while pending runs its last lines.   *)
HeldWhileCalled ==
  returned => pending_pc \in {"ending", "ended"}

(* Once a call has been handed to a pending coroutine that resume()        *)
(* accepts, no assertion fails and no null pointer is used, if the caller  *)
(* waits on the thread that made the channel.                              *)
SafeAtHome ==
  aborted => ~m_cor_need_resume \/ pending_pc = "none" \/ strayed

(* wait() returns, again if the caller is on the thread that made the      *)
(* channel: elsewhere each side may miss the other's store.                *)
WaitReturns ==
  (caller_pc \in {"wait", "yield", "waiting"}) ~> (caller_pc \in {"after", "gone"} \/ aborted \/ strayed)
=============================================================================
