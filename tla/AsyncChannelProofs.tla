------------------------- MODULE AsyncChannelProofs --------------------------
(***************************************************************************)
(* The invariants of AsyncChannel for any number of IO threads, any thread *)
(* the channel is made on and any number of suspensions.                   *)
(***************************************************************************)
EXTENDS AsyncChannel, TLAPS

(* Who holds the channel follows from how far each of the three is, and    *)
(* the stack is given back when nobody holds it.                           *)
Holders ==
  /\ "caller" \in refs <=> caller_pc # "gone"
  /\ "cb" \in refs <=> pending_pc \in {"task", "call", "reset"}
  /\ "call_back" \in refs <=> back_pc \in {"queued", "closure", "finished", "resumed"}
  /\ returned => refs = {} /\ pending_pc # "none"

(* call_back comes after the call, the call after CallMethod.              *)
Order ==
  /\ caller_pc = "made" => pending_pc = "none"
  /\ pending_pc # "none" => m_is_pre_set
  /\ back_pc # "none" => pending_pc \in {"reset", "ending", "ended"}
  /\ back_pc \in {"none", "queued"} => closures = 0
  /\ back_pc \notin {"none", "queued"} => closures = 1

(* While call_back runs on Home the caller does not, and a caller that     *)
(* waits where it should is on Home until it is suspended.                 *)
Places ==
  /\ back_pc \in {"closure", "finished"} => caller_on # Home
  /\ caller_pc \in {"waiting", "gone"} => caller_on = Nowhere
  /\ caller_pc \in {"wait", "yield"} => caller_on # Nowhere /\ (strayed \/ caller_on = Home)

(* What the two fields say, seen by any thread: with saveCallee the        *)
(* channel is finished once the closure has run, and until then a caller   *)
(* that asked for it still waits.                                          *)
Seen(t) ==
  /\ Finished(t) /\ m_is_pre_set => back_pc \in {"finished", "resumed", "ended"}
  /\ NeedResume(t) => caller_pc \in {"wait", "yield", "waiting", "after", "gone"}
  /\ NeedResume(t) /\ ~strayed /\ m_is_pre_set /\ back_pc \notin {"resumed", "ended"}
       => caller_pc \in {"wait", "yield", "waiting"}

Signals == \A t \in Threads : Seen(t)

IInv == TypeOK /\ Holders /\ Order /\ Places /\ Signals
          /\ ClosureBeforeReturn /\ SafeAtHome

USE DEF Threads, Nowhere

-----------------------------------------------------------------------------
LEMMA InitInv == ChannelAssumption /\ Init => IInv
<1> SUFFICES ASSUME ChannelAssumption, Init PROVE IInv
  OBVIOUS
<1>1. TypeOK
  <2>1. {m_is_pre_set, m_is_finished, m_need_resume, returned, aborted, strayed} \subseteq BOOLEAN
    BY Zenon DEF Init
  <2> QED
    BY <2>1 DEF ChannelAssumption, Init, TypeOK
<1>2. Holders /\ Order /\ Places
  BY DEF ChannelAssumption, Init, Holders, Order, Places
<1>3. Signals
  BY DEF ChannelAssumption, Init, Signals, Seen, Finished, NeedResume
<1>4. ClosureBeforeReturn /\ SafeAtHome
  BY DEF Init, ClosureBeforeReturn, SafeAtHome
<1> QED
  BY <1>1, <1>2, <1>3, <1>4 DEF IInv

(* The thread that is drawn is one of the pool's.                          *)
LEMMA DrawnIsAThread ==
  ASSUME ChannelAssumption, TypeOK, NEW t \in Threads \cup {Nowhere}
  PROVE  RandomThread(t) \in Threads
  BY DEF ChannelAssumption, TypeOK, RandomThread

LEMMA CallMethodInv ==
  ASSUME ChannelAssumption, IInv, CallMethod
  PROVE  IInv'
<1> USE DEF ChannelAssumption, IInv, TypeOK, Holders, chosen, fields, caller, pending
<1> USE DEF CallMethod, Calls, NotPreSet, Post, ReadsCodeAsRunTime, Store
<1>1. TypeOK'
  <2>1. aborted' \in BOOLEAN
    BY Zenon
  <2>2. RandomThread(caller_on) \in Threads
    BY DrawnIsAThread
  <2>3. CASE NotPreSet /\ UNCHANGED aborted
    BY <2>3
  <2>4. CASE Post /\ UNCHANGED aborted
    BY <2>2, <2>4
  <2>5. CASE ReadsCodeAsRunTime
    BY <2>1, <2>5
  <2> QED
    BY <2>3, <2>4, <2>5
<1>2. Holders'
  OBVIOUS
<1>3. Order'
  BY DEF Order
<1>4. Places'
  BY DEF Order, Places
<1>5. Signals'
  BY DEF Order, Places, Signals, Seen, Finished, NeedResume
<1>6. ClosureBeforeReturn'
  BY DEF Order, Places, Signals, Seen, Finished, ClosureBeforeReturn
<1>7. SafeAtHome'
  BY DEF Order, Places, Signals, Seen, NeedResume, SafeAtHome
<1> QED
  BY <1>1, <1>2, <1>3, <1>4, <1>5, <1>6, <1>7

LEMMA CallerBlocksInv ==
  ASSUME ChannelAssumption, IInv, CallerBlocks
  PROVE  IInv'
<1> USE DEF ChannelAssumption, IInv, TypeOK, Holders, chosen, fields, caller, pending
<1> USE DEF CallerBlocks, Calls, Blocks
<1>1. TypeOK'
  OBVIOUS
<1>2. Holders'
  OBVIOUS
<1>3. Order'
  BY DEF Order
<1>4. Places'
  BY DEF Order, Places
<1>5. Signals'
  BY DEF Order, Places, Signals, Seen, Finished, NeedResume
<1>6. ClosureBeforeReturn'
  BY DEF Order, Places, Signals, Seen, Finished, ClosureBeforeReturn
<1>7. SafeAtHome'
  BY DEF Order, Places, Signals, Seen, NeedResume, SafeAtHome
<1> QED
  BY <1>1, <1>2, <1>3, <1>4, <1>5, <1>6, <1>7

LEMMA CallerUnblocksInv ==
  ASSUME ChannelAssumption, IInv, NEW t \in Threads, CallerUnblocks(t)
  PROVE  IInv'
<1> USE DEF ChannelAssumption, IInv, TypeOK, Holders, chosen, fields, caller, pending
<1> USE DEF CallerUnblocks, Idle, BackRuns
<1>1. TypeOK'
  OBVIOUS
<1>2. Holders'
  OBVIOUS
<1>3. Order'
  BY DEF Order
<1>4. Places'
  BY DEF Order, Places
<1>5. Signals'
  BY DEF Order, Places, Signals, Seen, Finished, NeedResume
<1>6. ClosureBeforeReturn'
  BY DEF Order, Places, Signals, Seen, Finished, ClosureBeforeReturn
<1>7. SafeAtHome'
  BY DEF Order, Places, Signals, Seen, NeedResume, SafeAtHome
<1> QED
  BY <1>1, <1>2, <1>3, <1>4, <1>5, <1>6, <1>7

LEMMA WaitInv ==
  ASSUME ChannelAssumption, IInv, wait
  PROVE  IInv'
<1> USE DEF ChannelAssumption, IInv, TypeOK, Holders, chosen, fields, caller, pending
<1> USE DEF wait, Calls, Store
<1>1. TypeOK'
  OBVIOUS
<1>2. Holders'
  OBVIOUS
<1>3. Order'
  BY DEF Order
<1>4. Places'
  BY DEF Order, Places
<1>5. Signals'
  BY DEF Order, Places, Signals, Seen, Finished, NeedResume
<1>6. ClosureBeforeReturn'
  BY DEF Order, Places, Signals, Seen, Finished, ClosureBeforeReturn
<1>7. SafeAtHome'
  BY DEF Order, Places, Signals, Seen, NeedResume, SafeAtHome
<1> QED
  BY <1>1, <1>2, <1>3, <1>4, <1>5, <1>6, <1>7

LEMMA WaitTestInv ==
  ASSUME ChannelAssumption, IInv, waitTest
  PROVE  IInv'
<1> USE DEF ChannelAssumption, IInv, TypeOK, Holders, chosen, fields, caller, pending
<1> USE DEF waitTest, Calls
<1>1. TypeOK'
  OBVIOUS
<1>2. Holders'
  OBVIOUS
<1>3. Order'
  BY DEF Order
<1>4. Places'
  BY DEF Order, Places
<1>5. Signals'
  BY DEF Order, Places, Signals, Seen, Finished, NeedResume
<1>6. ClosureBeforeReturn'
  BY DEF Order, Places, Signals, Seen, Finished, ClosureBeforeReturn
<1>7. SafeAtHome'
  BY DEF Order, Places, Signals, Seen, NeedResume, SafeAtHome
<1> QED
  BY <1>1, <1>2, <1>3, <1>4, <1>5, <1>6, <1>7

LEMMA WaitYieldInv ==
  ASSUME ChannelAssumption, IInv, waitYield
  PROVE  IInv'
<1> USE DEF ChannelAssumption, IInv, TypeOK, Holders, chosen, fields, caller, pending
<1> USE DEF waitYield, Calls
<1>1. TypeOK'
  OBVIOUS
<1>2. Holders'
  OBVIOUS
<1>3. Order'
  BY DEF Order
<1>4. Places'
  BY DEF Order, Places
<1>5. Signals'
  BY DEF Order, Places, Signals, Seen, Finished, NeedResume
<1>6. ClosureBeforeReturn'
  BY DEF Order, Places, Signals, Seen, Finished, ClosureBeforeReturn
<1>7. SafeAtHome'
  BY DEF Order, Places, Signals, Seen, NeedResume, SafeAtHome
<1> QED
  BY <1>1, <1>2, <1>3, <1>4, <1>5, <1>6, <1>7

LEMMA CallerEndsInv ==
  ASSUME ChannelAssumption, IInv, CallerEnds
  PROVE  IInv'
<1> USE DEF ChannelAssumption, IInv, TypeOK, Holders, chosen, fields, caller, pending
<1> USE DEF CallerEnds, Calls, Drop
<1>1. TypeOK'
  OBVIOUS
<1>2. Holders'
  OBVIOUS
<1>3. Order'
  BY DEF Order
<1>4. Places'
  BY DEF Order, Places
<1>5. Signals'
  BY DEF Order, Places, Signals, Seen, Finished, NeedResume
<1>6. ClosureBeforeReturn'
  BY DEF Order, Places, Signals, Seen, Finished, ClosureBeforeReturn
<1>7. SafeAtHome'
  BY DEF Order, Places, Signals, Seen, NeedResume, SafeAtHome
<1> QED
  BY <1>1, <1>2, <1>3, <1>4, <1>5, <1>6, <1>7

LEMMA PendingStartsInv ==
  ASSUME ChannelAssumption, IInv, PendingStarts
  PROVE  IInv'
<1> USE DEF ChannelAssumption, IInv, TypeOK, Holders, chosen, fields, caller, pending
<1> USE DEF PendingStarts, Idle
<1>1. TypeOK'
  OBVIOUS
<1>2. Holders'
  OBVIOUS
<1>3. Order'
  BY DEF Order
<1>4. Places'
  BY DEF Order, Places
<1>5. Signals'
  BY DEF Order, Places, Signals, Seen, Finished, NeedResume
<1>6. ClosureBeforeReturn'
  BY DEF Order, Places, Signals, Seen, Finished, ClosureBeforeReturn
<1>7. SafeAtHome'
  BY DEF Order, Places, Signals, Seen, NeedResume, SafeAtHome
<1> QED
  BY <1>1, <1>2, <1>3, <1>4, <1>5, <1>6, <1>7

LEMMA PendingBlocksInv ==
  ASSUME ChannelAssumption, IInv, PendingBlocks
  PROVE  IInv'
<1> USE DEF ChannelAssumption, IInv, TypeOK, Holders, chosen, fields, caller, pending
<1> USE DEF PendingBlocks, Pends, Blocks
<1>1. TypeOK'
  OBVIOUS
<1>2. Holders'
  OBVIOUS
<1>3. Order'
  BY DEF Order
<1>4. Places'
  BY DEF Order, Places
<1>5. Signals'
  BY DEF Order, Places, Signals, Seen, Finished, NeedResume
<1>6. ClosureBeforeReturn'
  BY DEF Order, Places, Signals, Seen, Finished, ClosureBeforeReturn
<1>7. SafeAtHome'
  BY DEF Order, Places, Signals, Seen, NeedResume, SafeAtHome
<1> QED
  BY <1>1, <1>2, <1>3, <1>4, <1>5, <1>6, <1>7

LEMMA PendingUnblocksInv ==
  ASSUME ChannelAssumption, IInv, NEW t \in Threads, PendingUnblocks(t)
  PROVE  IInv'
<1> USE DEF ChannelAssumption, IInv, TypeOK, Holders, chosen, fields, caller, pending
<1> USE DEF PendingUnblocks, Idle
<1>1. TypeOK'
  OBVIOUS
<1>2. Holders'
  OBVIOUS
<1>3. Order'
  BY DEF Order
<1>4. Places'
  BY DEF Order, Places
<1>5. Signals'
  BY DEF Order, Places, Signals, Seen, Finished, NeedResume
<1>6. ClosureBeforeReturn'
  BY DEF Order, Places, Signals, Seen, Finished, ClosureBeforeReturn
<1>7. SafeAtHome'
  BY DEF Order, Places, Signals, Seen, NeedResume, SafeAtHome
<1> QED
  BY <1>1, <1>2, <1>3, <1>4, <1>5, <1>6, <1>7

LEMMA AnswerInv ==
  ASSUME ChannelAssumption, IInv, Answer
  PROVE  IInv'
<1> USE DEF ChannelAssumption, IInv, TypeOK, Holders, chosen, fields, caller, pending
<1> USE DEF Answer, Pends
<1>1. TypeOK'
  OBVIOUS
<1>2. Holders'
  OBVIOUS
<1>3. Order'
  BY DEF Order
<1>4. Places'
  BY DEF Order, Places
<1>5. Signals'
  BY DEF Order, Places, Signals, Seen, Finished, NeedResume
<1>6. ClosureBeforeReturn'
  BY DEF Order, Places, Signals, Seen, Finished, ClosureBeforeReturn
<1>7. SafeAtHome'
  BY DEF Order, Places, Signals, Seen, NeedResume, SafeAtHome
<1> QED
  BY <1>1, <1>2, <1>3, <1>4, <1>5, <1>6, <1>7

LEMMA PendingResetsInv ==
  ASSUME ChannelAssumption, IInv, PendingResets
  PROVE  IInv'
<1> USE DEF ChannelAssumption, IInv, TypeOK, Holders, chosen, fields, caller, pending
<1> USE DEF PendingResets, Pends, Drop
<1>1. TypeOK'
  OBVIOUS
<1>2. Holders'
  OBVIOUS
<1>3. Order'
  BY DEF Order
<1>4. Places'
  BY DEF Order, Places
<1>5. Signals'
  BY DEF Order, Places, Signals, Seen, Finished, NeedResume
<1>6. ClosureBeforeReturn'
  BY DEF Order, Places, Signals, Seen, Finished, ClosureBeforeReturn
<1>7. SafeAtHome'
  BY DEF Order, Places, Signals, Seen, NeedResume, SafeAtHome
<1> QED
  BY <1>1, <1>2, <1>3, <1>4, <1>5, <1>6, <1>7

LEMMA PendingEndsInv ==
  ASSUME ChannelAssumption, IInv, PendingEnds
  PROVE  IInv'
<1> USE DEF ChannelAssumption, IInv, TypeOK, Holders, chosen, fields, caller, pending
<1> USE DEF PendingEnds, Pends
<1>1. TypeOK'
  OBVIOUS
<1>2. Holders'
  OBVIOUS
<1>3. Order'
  BY DEF Order
<1>4. Places'
  BY DEF Order, Places
<1>5. Signals'
  BY DEF Order, Places, Signals, Seen, Finished, NeedResume
<1>6. ClosureBeforeReturn'
  BY DEF Order, Places, Signals, Seen, Finished, ClosureBeforeReturn
<1>7. SafeAtHome'
  BY DEF Order, Places, Signals, Seen, NeedResume, SafeAtHome
<1> QED
  BY <1>1, <1>2, <1>3, <1>4, <1>5, <1>6, <1>7

LEMMA CallBackInv ==
  ASSUME ChannelAssumption, IInv, call_back
  PROVE  IInv'
<1> USE DEF ChannelAssumption, IInv, TypeOK, Holders, chosen, fields, caller, pending
<1> USE DEF call_back, RunThenFinish, Idle, BackRuns, Store
<1>1. TypeOK'
  BY DEF Order
<1>2. Holders'
  OBVIOUS
<1>3. Order'
  BY DEF Order
<1>4. Places'
  BY DEF Order, Places
<1>5. Signals'
  BY DEF Order, Places, Signals, Seen, Finished, NeedResume
<1>6. ClosureBeforeReturn'
  BY DEF Order, Places, Signals, Seen, Finished, ClosureBeforeReturn
<1>7. SafeAtHome'
  BY DEF Order, Places, Signals, Seen, NeedResume, SafeAtHome
<1> QED
  BY <1>1, <1>2, <1>3, <1>4, <1>5, <1>6, <1>7

LEMMA ResumeCallerInv ==
  ASSUME ChannelAssumption, IInv, ResumeCaller
  PROVE  IInv'
<1> USE DEF ChannelAssumption, IInv, TypeOK, Holders, chosen, fields, caller, pending
<1> USE DEF ResumeCaller
<1>1. TypeOK'
  OBVIOUS
<1>2. Holders'
  OBVIOUS
<1>3. Order'
  BY DEF Order
<1>4. Places'
  BY DEF Order, Places
<1>5. Signals'
  BY DEF Order, Places, Signals, Seen, Finished, NeedResume
<1>6. ClosureBeforeReturn'
  BY DEF Order, Places, Signals, Seen, Finished, ClosureBeforeReturn
<1>7. SafeAtHome'
  BY DEF Order, Places, Signals, Seen, NeedResume, SafeAtHome
<1> QED
  BY <1>1, <1>2, <1>3, <1>4, <1>5, <1>6, <1>7

LEMMA BackEndsInv ==
  ASSUME ChannelAssumption, IInv, BackEnds
  PROVE  IInv'
<1> USE DEF ChannelAssumption, IInv, TypeOK, Holders, chosen, fields, caller, pending
<1> USE DEF BackEnds, Drop
<1>1. TypeOK'
  OBVIOUS
<1>2. Holders'
  OBVIOUS
<1>3. Order'
  BY DEF Order
<1>4. Places'
  BY DEF Order, Places
<1>5. Signals'
  BY DEF Order, Places, Signals, Seen, Finished, NeedResume
<1>6. ClosureBeforeReturn'
  BY DEF Order, Places, Signals, Seen, Finished, ClosureBeforeReturn
<1>7. SafeAtHome'
  BY DEF Order, Places, Signals, Seen, NeedResume, SafeAtHome
<1> QED
  BY <1>1, <1>2, <1>3, <1>4, <1>5, <1>6, <1>7

LEMMA DrainInv ==
  ASSUME ChannelAssumption, IInv, NEW t \in Threads, Drain(t)
  PROVE  IInv'
<1> USE DEF ChannelAssumption, IInv, TypeOK, Holders, chosen, fields, caller, pending
<1> USE DEF Drain
<1>1. TypeOK'
  BY DEF Finished, NeedResume
<1>2. Holders'
  OBVIOUS
<1>3. Order'
  BY DEF Order
<1>4. Places'
  BY DEF Order, Places
<1>5. Signals'
  BY DEF Order, Places, Signals, Seen, Finished, NeedResume
<1>6. ClosureBeforeReturn'
  BY DEF Order, Places, Signals, Seen, Finished, ClosureBeforeReturn
<1>7. SafeAtHome'
  BY DEF Order, Places, Signals, Seen, NeedResume, SafeAtHome
<1> QED
  BY <1>1, <1>2, <1>3, <1>4, <1>5, <1>6, <1>7

-----------------------------------------------------------------------------
(* Whatever the three and the buffers do next, all of it stays true.       *)
LEMMA NextInv == ChannelAssumption /\ IInv /\ [Next]_vars => IInv'
<1> SUFFICES ASSUME ChannelAssumption, IInv, [Next]_vars PROVE IInv'
  OBVIOUS
<1>1. CASE CallerSteps
  BY <1>1, CallMethodInv, CallerBlocksInv, WaitInv, WaitTestInv, WaitYieldInv, CallerEndsInv
  DEF CallerSteps
<1>2. CASE PendingSteps
  BY <1>2, PendingStartsInv, PendingBlocksInv, AnswerInv, PendingResetsInv, PendingEndsInv
  DEF PendingSteps
<1>3. CASE BackSteps
  BY <1>3, CallBackInv, ResumeCallerInv, BackEndsInv DEF BackSteps
<1>4. CASE \E t \in Threads : CallerUnblocks(t) \/ PendingUnblocks(t) \/ Drain(t)
  BY <1>4, CallerUnblocksInv, PendingUnblocksInv, DrainInv
<1>5. CASE UNCHANGED vars
  <2> USE <1>5 DEF IInv, vars, chosen, fields, caller, pending
  <2>1. TypeOK' /\ Holders' /\ Order' /\ Places'
    BY DEF TypeOK, Holders, Order, Places
  <2>2. Signals'
    BY DEF Signals, Seen, Finished, NeedResume
  <2>3. ClosureBeforeReturn' /\ SafeAtHome'
    BY DEF ClosureBeforeReturn, SafeAtHome
  <2> QED
    BY <2>1, <2>2, <2>3
<1> QED
  BY <1>1, <1>2, <1>3, <1>4, <1>5 DEF Next

(* IInv is the invariant; the theorems below are parts of it.              *)
THEOREM Invariant == Spec => []IInv
BY ChannelAssumption, InitInv, NextInv, PTL DEF Spec

(* Every variable keeps its type: the closure runs at most once, and a     *)
(* coroutine that runs is on a thread of the pool.                         *)
THEOREM TypeCorrect == Spec => []TypeOK
<1>1. IInv => TypeOK
  BY DEF IInv
<1> QED
  BY <1>1, Invariant, PTL

(* A caller that has waited finds the closure run, whatever the order in   *)
(* which the two fields reach the other thread: whoever sees m_is_finished *)
(* sees it after the closure (Signals).                                    *)
THEOREM AnswerIsThere == Spec => []ClosureBeforeReturn
<1>1. IInv => ClosureBeforeReturn
  BY DEF IInv
<1> QED
  BY <1>1, Invariant, PTL

(* The channel outlives the call: one of the two lambdas holds it.         *)
THEOREM HeldByLambda == Spec => []HeldWhileCalled
<1>1. IInv => HeldWhileCalled
  BY DEF IInv, TypeOK, Holders, HeldWhileCalled
<1> QED
  BY <1>1, Invariant, PTL

(* A caller that waits on Home is suspended when call_back resumes it: on  *)
(* one thread the two cannot pass each other (Places, Signals).            *)
THEOREM NoAbortAtHome == Spec => []SafeAtHome
<1>1. IInv => SafeAtHome
  BY DEF IInv
<1> QED
  BY <1>1, Invariant, PTL
==============================================================================
