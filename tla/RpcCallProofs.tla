----------------------------- MODULE RpcCallProofs -----------------------------
(***************************************************************************)
(* The safety properties of RpcCall for any number of IO threads and of    *)
(* descriptors, and whatever others open and close.                        *)
(***************************************************************************)
EXTENDS RpcCall, FiniteSetTheorems, WellFoundedInduction, TLAPS

Alive == Pending \cup {"collected", "erased"}
Ended == {"return", "done"}

(* is_timeout says that the RPC timer has run.  m_is_over_time says so     *)
(* too, until sendAndRecv resets it at its end.  A timer that ran while    *)
(* the coroutine was not suspended has aborted the process.                *)
TimerRan ==
  /\ is_timeout <=> rpc_event = "fired"
  /\ m_is_over_time => is_timeout
  /\ is_timeout /\ pc \notin Ended => m_is_over_time
  /\ pc \notin Ended \cup {"create"} => rpc_event \in Alive \cup {"fired"}
  /\ ~aborted /\ pc = "create" => rpc_event = "none"
  /\ ~aborted /\ pc \in {"connect", "input"} => ~is_timeout

(* What the result tells of the reply and of the timer.                    *)
Outcome ==
  /\ pc \notin Ended => result = "none"
  /\ result = "ok" => sock = "replied"
  /\ ~aborted /\ result = "ok" => ~is_timeout
  /\ result = "timeout" => rpc_event = "fired"
  /\ pc \in Ended /\ rpc_event \in Pending => result = "closed"
  /\ pc = "done" /\ told = "closure" => result = "ok"
  /\ pc = "done" /\ told = "nothing" => result = "unserialized"

(* The client has one socket at most, and none where it opens one.         *)
OneSocket ==
  \A f \in Fds : open[f] = "ours" =>
    f = m_fd /\ pc \notin {"create", "reset", "reopen", "done"}

(* An FdEvent has the coroutine until it has been woken.                   *)
Waiting ==
  waiting # None =>
    pc \in {"connect_wait", "write_wait", "read_wait", "connect_back", "write_back", "read_back"}

(* The call's descriptor is the lowest that was free when it began, and it *)
(* gets that one again when it has closed it.                              *)
Undisturbed ==
  disturbed = 0 /\ pc # "create" =>
    /\ m_fd \in Fds /\ conn_fd = m_fd /\ open[m_fd] # "theirs"
    /\ \A f \in Fds : f < m_fd => open[f] = "theirs"
    /\ pc \in {"connect", "connect_wait", "connect_back", "output", "write_wait", "write_back",
               "input", "read_wait", "read_back"} => open[m_fd] = "ours"
    /\ waiting \in {None, m_fd}

NotStolen == disturbed = 0 \/ pc = "create" => ~stolen

IInv == TypeOK /\ WaitsWithTimer /\ TimerRan /\ Outcome /\ OneSocket /\ Waiting /\ Undisturbed
          /\ NotStolen

USE DEF None, TimerFd, Waits, Pending

-----------------------------------------------------------------------------
LEMMA LeastNatural ==
  ASSUME NEW S \in SUBSET Nat, S # {}
  PROVE  Min(S) \in S /\ \A n \in S : Min(S) <= n
<1>1. PICK m \in S : \A n \in S : ~(<<n, m>> \in OpToRel(<, Nat))
  BY WFMin, NatLessThanWellFounded
<1>2. \A n \in S : ~(n < m)
  BY <1>1 DEF OpToRel
<1>3. \A n \in S : m <= n
  BY <1>2
<1> QED
  BY <1>3 DEF Min

(* What socket() returns.                                                  *)
LEMMA LowestIsFree ==
  ASSUME CallAssumption, TypeOK, \E f \in Fds : open[f] = "none"
  PROVE  /\ LowestFree \in Fds /\ LowestFree \in Nat /\ open[LowestFree] = "none"
         /\ \A f \in Fds : f < LowestFree => open[f] # "none"
<1> DEFINE Free == {f \in Fds : open[f] = "none"}
<1>1. Free \in SUBSET Nat /\ Free # {}
  BY DEF CallAssumption
<1>2. Min(Free) \in Free /\ \A n \in Free : Min(Free) <= n
  <2> HIDE DEF Free
  <2> QED
    BY <1>1, LeastNatural
<1>3. Min(Free) \in Nat /\ Fds \subseteq Nat
  BY <1>1, <1>2 DEF CallAssumption
<1> QED
  BY <1>2, <1>3 DEF LowestFree

(* An order of a batch is a sequence of it.                                *)
LEMMA OrdersAreSeqs ==
  ASSUME NEW T, NEW S \in SUBSET T, NEW a, NEW b, S \subseteq {a, b}, NEW order \in Orders(S)
  PROVE  order \in Seq(T)
<1>1. IsFiniteSet(S)
  <2>1. IsFiniteSet({a, b})
    <3>1. IsFiniteSet({a}) /\ {a, b} = {a} \cup {b}
      BY FS_Singleton
    <3> QED
      BY <3>1, FS_AddElement
  <2> QED
    BY <2>1, FS_Subset
<1>2. Cardinality(S) \in Nat
  BY <1>1, FS_CardinalityType
<1>3. order \in [1 .. Cardinality(S) -> T]
  BY DEF Orders
<1> QED
  BY <1>2, <1>3

LEMMA InitInv == CallAssumption /\ Init => IInv
<1> SUFFICES ASSUME CallAssumption, Init PROVE IInv
  OBVIOUS
<1> USE DEF CallAssumption, Init
<1>1. TypeOK
  <2>1. FileTypes
    <3>1. stolen = FALSE /\ aborted = FALSE /\ m_is_over_time = FALSE /\ is_timeout = FALSE
      OBVIOUS
    <3>2. {stolen, aborted, m_is_over_time, is_timeout} \subseteq BOOLEAN
      BY <3>1
    <3>3. disturbed \in 0 .. MaxDisturbances
      OBVIOUS
    <3> QED
      BY <3>2, <3>3 DEF FileTypes
  <2>4. TimerTypes
    BY DEF TimerTypes
  <2>2. CallTypes
    BY DEF CallTypes, Running
  <2>3. LoopTypes
    BY DEF LoopTypes
  <2> QED
    BY <2>1, <2>2, <2>3, <2>4 DEF TypeOK
<1>2. WaitsWithTimer /\ TimerRan /\ Outcome
  BY DEF WaitsWithTimer, TimerRan, Outcome, Alive, Ended
<1>3. OneSocket /\ Waiting /\ Undisturbed /\ NotStolen
  BY DEF OneSocket, Waiting, Undisturbed, NotStolen
<1> QED
  BY <1>1, <1>2, <1>3 DEF IInv

LEMMA OtherOpensInv ==
  ASSUME CallAssumption, IInv, OtherOpens
  PROVE  IInv'
<1> USE DEF CallAssumption, IInv, TypeOK, FileTypes, CallTypes, TimerTypes, LoopTypes, files, flags, cor, wait, timers, loops, ends
<1> USE DEF OtherOpens, Other
<1>l. /\ LowestFree \in Fds /\ LowestFree \in Nat /\ open[LowestFree] = "none"
      /\ \A f \in Fds : f < LowestFree => open[f] # "none"
  BY LowestIsFree
<1>1. FileTypes'
  <2>1. open' \in [Fds -> {"none", "ours", "theirs"}]
    OBVIOUS
  <2>2. stolen' \in BOOLEAN /\ aborted' \in BOOLEAN
    OBVIOUS
  <2>3. m_is_over_time' \in BOOLEAN /\ is_timeout' \in BOOLEAN
    OBVIOUS
  <2>4. disturbed' \in 0 .. MaxDisturbances
    OBVIOUS
  <2>5. /\ m_fd' \in Fds \cup {None} /\ conn_fd' \in Fds \cup {None}
        /\ waiting' \in Fds \cup {None}
    BY <1>l
  <2>6. fd_reactor' \in Threads \cup {"none"}
    OBVIOUS
  <2> QED
    BY <2>1, <2>2, <2>3, <2>4, <2>5, <2>6
<1>2. CallTypes'
  BY DEF Running
<1>3. TimerTypes'
  OBVIOUS
<1>4. LoopTypes'
  OBVIOUS
<1>5. WaitsWithTimer'
  BY DEF WaitsWithTimer, TimerRan, Alive, Ended
<1>6. TimerRan'
  BY DEF TimerRan, WaitsWithTimer, Alive, Ended
<1>7. Outcome'
  BY DEF Outcome, TimerRan, Alive, Ended
<1>8. OneSocket'
  BY DEF OneSocket
<1>9. Waiting'
  BY DEF Waiting
<1>10. Undisturbed'
  BY DEF Undisturbed, OneSocket
<1>11. NotStolen'
  BY DEF NotStolen, Undisturbed
<1> QED
  BY <1>1, <1>2, <1>3, <1>4, <1>5, <1>6, <1>7, <1>8, <1>9, <1>10, <1>11

LEMMA OtherClosesInv ==
  ASSUME CallAssumption, IInv, OtherCloses
  PROVE  IInv'
<1> USE DEF CallAssumption, IInv, TypeOK, FileTypes, CallTypes, TimerTypes, LoopTypes, files, flags, cor, wait, timers, loops, ends
<1> USE DEF OtherCloses, Other
<1>1. FileTypes'
  OBVIOUS
<1>2. CallTypes'
  BY DEF Running
<1>3. TimerTypes'
  OBVIOUS
<1>4. LoopTypes'
  OBVIOUS
<1>5. WaitsWithTimer'
  BY DEF WaitsWithTimer, TimerRan, Alive, Ended
<1>6. TimerRan'
  BY DEF TimerRan, WaitsWithTimer, Alive, Ended
<1>7. Outcome'
  BY DEF Outcome, TimerRan, Alive, Ended
<1>8. OneSocket'
  BY DEF OneSocket
<1>9. Waiting'
  BY DEF Waiting
<1>10. Undisturbed'
  BY DEF Undisturbed, OneSocket
<1>11. NotStolen'
  BY DEF NotStolen, Undisturbed
<1> QED
  BY <1>1, <1>2, <1>3, <1>4, <1>5, <1>6, <1>7, <1>8, <1>9, <1>10, <1>11

LEMMA PeerAcceptsInv ==
  ASSUME CallAssumption, IInv, PeerAccepts
  PROVE  IInv'
<1> USE DEF CallAssumption, IInv, TypeOK, FileTypes, CallTypes, TimerTypes, LoopTypes, files, flags, cor, wait, timers, loops, ends
<1> USE DEF PeerAccepts, PeerDoes
<1>1. FileTypes'
  OBVIOUS
<1>2. CallTypes'
  BY DEF Running
<1>3. TimerTypes'
  OBVIOUS
<1>4. LoopTypes'
  OBVIOUS
<1>5. WaitsWithTimer'
  BY DEF WaitsWithTimer, TimerRan, Alive, Ended
<1>6. TimerRan'
  BY DEF TimerRan, WaitsWithTimer, Alive, Ended
<1>7. Outcome'
  BY DEF Outcome, TimerRan, Alive, Ended
<1>8. OneSocket'
  BY DEF OneSocket
<1>9. Waiting'
  BY DEF Waiting
<1>10. Undisturbed'
  BY DEF Undisturbed, OneSocket
<1>11. NotStolen'
  BY DEF NotStolen, Undisturbed
<1> QED
  BY <1>1, <1>2, <1>3, <1>4, <1>5, <1>6, <1>7, <1>8, <1>9, <1>10, <1>11

LEMMA PeerRefusesInv ==
  ASSUME CallAssumption, IInv, PeerRefuses
  PROVE  IInv'
<1> USE DEF CallAssumption, IInv, TypeOK, FileTypes, CallTypes, TimerTypes, LoopTypes, files, flags, cor, wait, timers, loops, ends
<1> USE DEF PeerRefuses, PeerDoes
<1>1. FileTypes'
  OBVIOUS
<1>2. CallTypes'
  BY DEF Running
<1>3. TimerTypes'
  OBVIOUS
<1>4. LoopTypes'
  OBVIOUS
<1>5. WaitsWithTimer'
  BY DEF WaitsWithTimer, TimerRan, Alive, Ended
<1>6. TimerRan'
  BY DEF TimerRan, WaitsWithTimer, Alive, Ended
<1>7. Outcome'
  BY DEF Outcome, TimerRan, Alive, Ended
<1>8. OneSocket'
  BY DEF OneSocket
<1>9. Waiting'
  BY DEF Waiting
<1>10. Undisturbed'
  BY DEF Undisturbed, OneSocket
<1>11. NotStolen'
  BY DEF NotStolen, Undisturbed
<1> QED
  BY <1>1, <1>2, <1>3, <1>4, <1>5, <1>6, <1>7, <1>8, <1>9, <1>10, <1>11

LEMMA PeerRepliesInv ==
  ASSUME CallAssumption, IInv, PeerReplies
  PROVE  IInv'
<1> USE DEF CallAssumption, IInv, TypeOK, FileTypes, CallTypes, TimerTypes, LoopTypes, files, flags, cor, wait, timers, loops, ends
<1> USE DEF PeerReplies, PeerDoes
<1>1. FileTypes'
  OBVIOUS
<1>2. CallTypes'
  BY DEF Running
<1>3. TimerTypes'
  OBVIOUS
<1>4. LoopTypes'
  OBVIOUS
<1>5. WaitsWithTimer'
  BY DEF WaitsWithTimer, TimerRan, Alive, Ended
<1>6. TimerRan'
  BY DEF TimerRan, WaitsWithTimer, Alive, Ended
<1>7. Outcome'
  BY DEF Outcome, TimerRan, Alive, Ended
<1>8. OneSocket'
  BY DEF OneSocket
<1>9. Waiting'
  BY DEF Waiting
<1>10. Undisturbed'
  BY DEF Undisturbed, OneSocket
<1>11. NotStolen'
  BY DEF NotStolen, Undisturbed
<1> QED
  BY <1>1, <1>2, <1>3, <1>4, <1>5, <1>6, <1>7, <1>8, <1>9, <1>10, <1>11

LEMMA PeerClosesInv ==
  ASSUME CallAssumption, IInv, PeerCloses
  PROVE  IInv'
<1> USE DEF CallAssumption, IInv, TypeOK, FileTypes, CallTypes, TimerTypes, LoopTypes, files, flags, cor, wait, timers, loops, ends
<1> USE DEF PeerCloses, PeerDoes
<1>1. FileTypes'
  OBVIOUS
<1>2. CallTypes'
  BY DEF Running
<1>3. TimerTypes'
  OBVIOUS
<1>4. LoopTypes'
  OBVIOUS
<1>5. WaitsWithTimer'
  BY DEF WaitsWithTimer, TimerRan, Alive, Ended
<1>6. TimerRan'
  BY DEF TimerRan, WaitsWithTimer, Alive, Ended
<1>7. Outcome'
  BY DEF Outcome, TimerRan, Alive, Ended
<1>8. OneSocket'
  BY DEF OneSocket
<1>9. Waiting'
  BY DEF Waiting
<1>10. Undisturbed'
  BY DEF Undisturbed, OneSocket
<1>11. NotStolen'
  BY DEF NotStolen, Undisturbed
<1> QED
  BY <1>1, <1>2, <1>3, <1>4, <1>5, <1>6, <1>7, <1>8, <1>9, <1>10, <1>11

LEMMA RpcTimeIsUpInv ==
  ASSUME CallAssumption, IInv, RpcTimeIsUp
  PROVE  IInv'
<1> USE DEF CallAssumption, IInv, TypeOK, FileTypes, CallTypes, TimerTypes, LoopTypes, files, flags, cor, wait, timers, loops, ends
<1> USE DEF RpcTimeIsUp, TimePasses
<1>1. FileTypes'
  OBVIOUS
<1>2. CallTypes'
  BY DEF Running
<1>3. TimerTypes'
  OBVIOUS
<1>4. LoopTypes'
  OBVIOUS
<1>5. WaitsWithTimer'
  BY DEF WaitsWithTimer, TimerRan, Alive, Ended
<1>6. TimerRan'
  BY DEF TimerRan, WaitsWithTimer, Alive, Ended
<1>7. Outcome'
  BY DEF Outcome, TimerRan, Alive, Ended
<1>8. OneSocket'
  BY DEF OneSocket
<1>9. Waiting'
  BY DEF Waiting
<1>10. Undisturbed'
  BY DEF Undisturbed, OneSocket
<1>11. NotStolen'
  BY DEF NotStolen, Undisturbed
<1> QED
  BY <1>1, <1>2, <1>3, <1>4, <1>5, <1>6, <1>7, <1>8, <1>9, <1>10, <1>11

LEMMA ConTimeIsUpInv ==
  ASSUME CallAssumption, IInv, ConTimeIsUp
  PROVE  IInv'
<1> USE DEF CallAssumption, IInv, TypeOK, FileTypes, CallTypes, TimerTypes, LoopTypes, files, flags, cor, wait, timers, loops, ends
<1> USE DEF ConTimeIsUp, TimePasses
<1>1. FileTypes'
  OBVIOUS
<1>2. CallTypes'
  BY DEF Running
<1>3. TimerTypes'
  OBVIOUS
<1>4. LoopTypes'
  OBVIOUS
<1>5. WaitsWithTimer'
  BY DEF WaitsWithTimer, TimerRan, Alive, Ended
<1>6. TimerRan'
  BY DEF TimerRan, WaitsWithTimer, Alive, Ended
<1>7. Outcome'
  BY DEF Outcome, TimerRan, Alive, Ended
<1>8. OneSocket'
  BY DEF OneSocket
<1>9. Waiting'
  BY DEF Waiting
<1>10. Undisturbed'
  BY DEF Undisturbed, OneSocket
<1>11. NotStolen'
  BY DEF NotStolen, Undisturbed
<1> QED
  BY <1>1, <1>2, <1>3, <1>4, <1>5, <1>6, <1>7, <1>8, <1>9, <1>10, <1>11

LEMMA EpollWaitInv ==
  ASSUME CallAssumption, IInv, NEW t \in Threads, epoll_wait(t)
  PROVE  IInv'
<1> USE DEF CallAssumption, IInv, TypeOK, FileTypes, CallTypes, TimerTypes, LoopTypes, files, flags, cor, wait, timers, loops, ends
<1> USE DEF epoll_wait, LoopStep
<1>1. FileTypes'
  OBVIOUS
<1>2. CallTypes'
  BY DEF Running
<1>3. TimerTypes'
  OBVIOUS
<1>4. LoopTypes'
  <2>1. PICK order \in Orders(Ready(t)) : batch' = [batch EXCEPT ![t] = order]
    OBVIOUS
  <2>2. Ready(t) \subseteq Fds \cup {TimerFd} /\ Ready(t) \subseteq {waiting, TimerFd}
    BY DEF Ready
  <2>3. order \in Seq(Fds \cup {TimerFd})
    BY <2>1, <2>2, OrdersAreSeqs
  <2> HIDE DEF TimerFd
  <2> QED
    BY <2>1, <2>3
<1>5. WaitsWithTimer'
  BY DEF WaitsWithTimer, TimerRan, Alive, Ended
<1>6. TimerRan'
  BY DEF TimerRan, WaitsWithTimer, Alive, Ended
<1>7. Outcome'
  BY DEF Outcome, TimerRan, Alive, Ended
<1>8. OneSocket'
  BY DEF OneSocket
<1>9. Waiting'
  BY DEF Waiting
<1>10. Undisturbed'
  BY DEF Undisturbed, OneSocket
<1>11. NotStolen'
  BY DEF NotStolen, Undisturbed
<1> QED
  BY <1>1, <1>2, <1>3, <1>4, <1>5, <1>6, <1>7, <1>8, <1>9, <1>10, <1>11

LEMMA TakeFdInv ==
  ASSUME CallAssumption, IInv, NEW t \in Threads, TakeFd(t)
  PROVE  IInv'
<1> USE DEF CallAssumption, IInv, TypeOK, FileTypes, CallTypes, TimerTypes, LoopTypes, files, flags, cor, wait, timers, loops, ends
<1> USE DEF TakeFd, LoopStep
<1>1. FileTypes'
  OBVIOUS
<1>2. CallTypes'
  BY DEF Running
<1>3. TimerTypes'
  OBVIOUS
<1>4. LoopTypes'
  <2>1. batch' \in [Threads -> Seq(Fds \cup {TimerFd})] /\ tasks' = tasks
    <3>1. batch[t] \in Seq(Fds \cup {TimerFd}) /\ batch[t] # <<>>
      OBVIOUS
    <3>2. Tail(batch[t]) \in Seq(Fds \cup {TimerFd})
      BY <3>1
    <3>3. batch' = [batch EXCEPT ![t] = Tail(batch[t])] /\ tasks' = tasks
      OBVIOUS
    <3> QED
      BY <3>2, <3>3
  <2>2. first_coroutine' \in [Threads -> BOOLEAN]
    OBVIOUS
  <2>3. queue' \in Seq(Fds) /\ Len(queue') <= MaxQueued
    <3>1. queue' = queue \/ (/\ waiting = Head(batch[t]) /\ Len(queue) < MaxQueued
                             /\ queue' = Append(queue, waiting))
      OBVIOUS
    <3>2. CASE queue' = queue
      BY <3>2
    <3>3. CASE /\ waiting = Head(batch[t]) /\ Len(queue) < MaxQueued
               /\ queue' = Append(queue, waiting)
      <4>1. waiting # 0
        BY <3>3
      <4>2. waiting \in Fds
        BY <4>1
      <4>3. Append(queue, waiting) \in Seq(Fds) /\ Len(Append(queue, waiting)) = Len(queue) + 1
        BY <4>2
      <4> QED
        BY <3>3, <4>3
    <3> QED
      BY <3>1, <3>2, <3>3
  <2> QED
    BY <2>1, <2>2, <2>3
<1>5. WaitsWithTimer'
  BY DEF WaitsWithTimer, TimerRan, Alive, Ended
<1>6. TimerRan'
  BY DEF TimerRan, WaitsWithTimer, Alive, Ended
<1>7. Outcome'
  BY DEF Outcome, TimerRan, Alive, Ended
<1>8. OneSocket'
  BY DEF OneSocket
<1>9. Waiting'
  BY DEF Waiting
<1>10. Undisturbed'
  BY DEF Undisturbed, OneSocket
<1>11. NotStolen'
  BY DEF NotStolen, Undisturbed
<1> QED
  BY <1>1, <1>2, <1>3, <1>4, <1>5, <1>6, <1>7, <1>8, <1>9, <1>10, <1>11

LEMMA TakeTimerInv ==
  ASSUME CallAssumption, IInv, NEW t \in Threads, TakeTimer(t)
  PROVE  IInv'
<1> USE DEF CallAssumption, IInv, TypeOK, FileTypes, CallTypes, TimerTypes, LoopTypes, files, flags, cor, wait, timers, loops, ends
<1> USE DEF TakeTimer, LoopStep, Due
<1>1. FileTypes'
  OBVIOUS
<1>2. CallTypes'
  BY DEF Running
<1>3. TimerTypes'
  OBVIOUS
<1>4. LoopTypes'
  <2>1. PICK order \in Orders(Due(t)) : tasks' = [tasks EXCEPT ![t] = order]
    OBVIOUS
  <2>2. Due(t) \subseteq {"rpc", "con"}
    BY DEF Due
  <2>3. order \in Seq({"rpc", "con"})
    BY <2>1, <2>2, OrdersAreSeqs
  <2>4. tasks' \in [Threads -> Seq({"rpc", "con"})]
    BY <2>1, <2>3
  <2>5. batch' \in [Threads -> Seq(Fds \cup {TimerFd})]
    <3>1. batch[t] \in Seq(Fds \cup {TimerFd}) /\ batch[t] # <<>>
      OBVIOUS
    <3>2. Tail(batch[t]) \in Seq(Fds \cup {TimerFd})
      BY <3>1
    <3>3. batch' = [batch EXCEPT ![t] = Tail(batch[t])]
      OBVIOUS
    <3> QED
      BY <3>2, <3>3
  <2> QED
    BY <2>4, <2>5
<1>5. WaitsWithTimer'
  BY DEF WaitsWithTimer, TimerRan, Alive, Ended
<1>6. TimerRan'
  BY DEF TimerRan, WaitsWithTimer, Alive, Ended
<1>7. Outcome'
  BY DEF Outcome, TimerRan, Alive, Ended
<1>8. OneSocket'
  BY DEF OneSocket
<1>9. Waiting'
  BY DEF Waiting
<1>10. Undisturbed'
  BY DEF Undisturbed, OneSocket
<1>11. NotStolen'
  BY DEF NotStolen, Undisturbed
<1> QED
  BY <1>1, <1>2, <1>3, <1>4, <1>5, <1>6, <1>7, <1>8, <1>9, <1>10, <1>11

LEMMA RunTaskInv ==
  ASSUME CallAssumption, IInv, NEW t \in Threads, RunTask(t)
  PROVE  IInv'
<1> USE DEF CallAssumption, IInv, TypeOK, FileTypes, CallTypes, TimerTypes, LoopTypes, files, flags, cor, wait, timers, loops, ends
<1> USE DEF RunTask, LoopStep, resume, After
<1>1. FileTypes'
  OBVIOUS
<1>2. CallTypes'
  <2>1. pc' \in Waits \cup Running \cup {"done"} /\ where' \in Threads /\ errno' = errno
    BY SMTT(30) DEF Running
  <2> QED
    BY <2>1
<1>3. TimerTypes'
  OBVIOUS
<1>4. LoopTypes'
  OBVIOUS
<1>5. WaitsWithTimer'
  BY DEF WaitsWithTimer, TimerRan, Alive, Ended
<1>6. TimerRan'
  BY SMTT(30) DEF TimerRan, WaitsWithTimer, Alive, Ended
<1>7. Outcome'
  BY DEF Outcome, TimerRan, Alive, Ended
<1>8. OneSocket'
  BY SMTT(30) DEF OneSocket
<1>9. Waiting'
  BY DEF Waiting
<1>10. Undisturbed'
  BY SMTT(30) DEF Undisturbed, OneSocket
<1>11. NotStolen'
  BY DEF NotStolen, Undisturbed
<1> QED
  BY <1>1, <1>2, <1>3, <1>4, <1>5, <1>6, <1>7, <1>8, <1>9, <1>10, <1>11

LEMMA ResumeFirstInv ==
  ASSUME CallAssumption, IInv, NEW t \in Threads, ResumeFirst(t)
  PROVE  IInv'
<1> USE DEF CallAssumption, IInv, TypeOK, FileTypes, CallTypes, TimerTypes, LoopTypes, files, flags, cor, wait, timers, loops, ends
<1> USE DEF ResumeFirst, LoopStep, resume, After
<1>1. FileTypes'
  OBVIOUS
<1>2. CallTypes'
  BY SMTT(30) DEF Running
<1>3. TimerTypes'
  OBVIOUS
<1>4. LoopTypes'
  OBVIOUS
<1>5. WaitsWithTimer'
  BY DEF WaitsWithTimer, TimerRan, Alive, Ended
<1>6. TimerRan'
  BY DEF TimerRan, WaitsWithTimer, Alive, Ended
<1>7. Outcome'
  BY DEF Outcome, TimerRan, Alive, Ended
<1>8. OneSocket'
  BY DEF OneSocket
<1>9. Waiting'
  BY DEF Waiting
<1>10. Undisturbed'
  BY DEF Undisturbed, OneSocket
<1>11. NotStolen'
  BY DEF NotStolen, Undisturbed
<1> QED
  BY <1>1, <1>2, <1>3, <1>4, <1>5, <1>6, <1>7, <1>8, <1>9, <1>10, <1>11

LEMMA StealInv ==
  ASSUME CallAssumption, IInv, NEW t \in Threads, Steal(t)
  PROVE  IInv'
<1> USE DEF CallAssumption, IInv, TypeOK, FileTypes, CallTypes, TimerTypes, LoopTypes, files, flags, cor, wait, timers, loops, ends
<1> USE DEF Steal, LoopStep, resume, After
<1>1. FileTypes'
  OBVIOUS
<1>2. CallTypes'
  BY DEF Running
<1>3. TimerTypes'
  OBVIOUS
<1>4. LoopTypes'
  BY SMTT(30)
<1>5. WaitsWithTimer'
  BY DEF WaitsWithTimer, TimerRan, Alive, Ended
<1>6. TimerRan'
  BY SMTT(30) DEF TimerRan, WaitsWithTimer, Alive, Ended
<1>7. Outcome'
  BY SMTT(30) DEF Outcome, TimerRan, Alive, Ended
<1>8. OneSocket'
  BY SMTT(30) DEF OneSocket
<1>9. Waiting'
  BY DEF Waiting
<1>10. Undisturbed'
  <2>1. /\ waiting' = waiting /\ m_fd' = m_fd /\ conn_fd' = conn_fd /\ disturbed' = disturbed
        /\ open' = open
    OBVIOUS
  <2>2. \/ pc' = pc
        \/ pc = "connect_wait" /\ pc' = "connect_back"
        \/ pc = "write_wait" /\ pc' = "write_back"
        \/ pc = "read_wait" /\ pc' = "read_back"
        \/ pc = "closed_wait" /\ pc' = "closed_back"
    BY SMTT(30)
  <2> QED
    BY <2>1, <2>2 DEF Undisturbed
<1>11. NotStolen'
  BY DEF NotStolen, Undisturbed
<1> QED
  BY <1>1, <1>2, <1>3, <1>4, <1>5, <1>6, <1>7, <1>8, <1>9, <1>10, <1>11

LEMMA CallMethodInv ==
  ASSUME CallAssumption, IInv, CallMethod
  PROVE  IInv'
<1> USE DEF CallAssumption, IInv, TypeOK, FileTypes, CallTypes, TimerTypes, LoopTypes, files, flags, cor, wait, timers, loops, ends
<1> USE DEF CallMethod, CoroutineAt, Goes, RunsOn, Socket
<1>l. /\ LowestFree \in Fds /\ LowestFree \in Nat /\ open[LowestFree] = "none"
      /\ \A f \in Fds : f < LowestFree => open[f] # "none"
  BY LowestIsFree DEF Socket
<1>1. FileTypes'
  <2>1. open' \in [Fds -> {"none", "ours", "theirs"}]
    OBVIOUS
  <2>2. stolen' \in BOOLEAN /\ aborted' \in BOOLEAN
    OBVIOUS
  <2>3. m_is_over_time' \in BOOLEAN /\ is_timeout' \in BOOLEAN
    OBVIOUS
  <2>4. disturbed' \in 0 .. MaxDisturbances
    OBVIOUS
  <2>5. /\ m_fd' \in Fds \cup {None} /\ conn_fd' \in Fds \cup {None}
        /\ waiting' \in Fds \cup {None}
    BY <1>l
  <2>6. fd_reactor' \in Threads \cup {"none"}
    OBVIOUS
  <2> QED
    BY <2>1, <2>2, <2>3, <2>4, <2>5, <2>6
<1>2. CallTypes'
  BY DEF Running
<1>3. TimerTypes'
  OBVIOUS
<1>4. LoopTypes'
  OBVIOUS
<1>5. WaitsWithTimer'
  BY DEF WaitsWithTimer, TimerRan, Alive, Ended
<1>6. TimerRan'
  BY DEF TimerRan, WaitsWithTimer, Alive, Ended
<1>7. Outcome'
  BY DEF Outcome, TimerRan, Alive, Ended
<1>8. OneSocket'
  BY DEF OneSocket
<1>9. Waiting'
  BY DEF Waiting
<1>10. Undisturbed'
  <2>1. \A f \in Fds : f < LowestFree => open[f] = "theirs"
    BY <1>l DEF OneSocket
  <2>2. waiting = None
    BY DEF Waiting
  <2>3. /\ open' = [open EXCEPT ![LowestFree] = "ours"]
        /\ m_fd' = LowestFree /\ conn_fd' = LowestFree /\ waiting' = waiting
    OBVIOUS
  <2>4. open'[m_fd'] = "ours" /\ \A f \in Fds : f < m_fd' => open'[f] = "theirs"
    BY <1>l, <2>1, <2>3
  <2> QED
    BY <1>l, <2>2, <2>3, <2>4 DEF Undisturbed
<1>11. NotStolen'
  BY DEF NotStolen, Undisturbed
<1> QED
  BY <1>1, <1>2, <1>3, <1>4, <1>5, <1>6, <1>7, <1>8, <1>9, <1>10, <1>11

LEMMA ConnectInv ==
  ASSUME CallAssumption, IInv, connect_hook
  PROVE  IInv'
<1> USE DEF CallAssumption, IInv, TypeOK, FileTypes, CallTypes, TimerTypes, LoopTypes, files, flags, cor, wait, timers, loops, ends
<1> USE DEF connect_hook, CoroutineAt, Goes, RunsOn, Awaits, Connected, NotConnected, Close
<1>1. FileTypes'
  OBVIOUS
<1>2. CallTypes'
  BY DEF Running
<1>3. TimerTypes'
  OBVIOUS
<1>4. LoopTypes'
  OBVIOUS
<1>5. WaitsWithTimer'
  BY DEF WaitsWithTimer, TimerRan, Alive, Ended
<1>6. TimerRan'
  BY DEF TimerRan, WaitsWithTimer, Alive, Ended
<1>7. Outcome'
  BY DEF Outcome, TimerRan, Alive, Ended
<1>8. OneSocket'
  BY DEF OneSocket
<1>9. Waiting'
  BY DEF Waiting
<1>10. Undisturbed'
  BY DEF Undisturbed, OneSocket
<1>11. NotStolen'
  BY DEF NotStolen, Undisturbed
<1> QED
  BY <1>1, <1>2, <1>3, <1>4, <1>5, <1>6, <1>7, <1>8, <1>9, <1>10, <1>11

LEMMA ConnectBackInv ==
  ASSUME CallAssumption, IInv, connect_back
  PROVE  IInv'
<1> USE DEF CallAssumption, IInv, TypeOK, FileTypes, CallTypes, TimerTypes, LoopTypes, files, flags, cor, wait, timers, loops, ends
<1> USE DEF connect_back, CoroutineAt, Goes, RunsOn, Wakes, Connected, NotConnected, Close, delTimerEvent
<1>1. FileTypes'
  <2>1. open' \in [Fds -> {"none", "ours", "theirs"}]
    OBVIOUS
  <2>2. stolen' \in BOOLEAN /\ aborted' \in BOOLEAN
    OBVIOUS
  <2>3. m_is_over_time' \in BOOLEAN /\ is_timeout' \in BOOLEAN
    OBVIOUS
  <2>4. disturbed' \in 0 .. MaxDisturbances
    OBVIOUS
  <2>5. /\ m_fd' \in Fds \cup {None} /\ conn_fd' \in Fds \cup {None}
        /\ waiting' \in Fds \cup {None}
    OBVIOUS
  <2>6. fd_reactor' \in Threads \cup {"none"}
    OBVIOUS
  <2> QED
    BY <2>1, <2>2, <2>3, <2>4, <2>5, <2>6
<1>2. CallTypes'
  BY DEF Running
<1>3. TimerTypes'
  OBVIOUS
<1>4. LoopTypes'
  OBVIOUS
<1>5. WaitsWithTimer'
  BY DEF WaitsWithTimer, TimerRan, Alive, Ended
<1>6. TimerRan'
  BY DEF TimerRan, WaitsWithTimer, Alive, Ended
<1>7. Outcome'
  BY DEF Outcome, TimerRan, Alive, Ended
<1>8. OneSocket'
  <2>1. pc = "connect_back" /\ m_fd' = m_fd
    OBVIOUS
  <2>2. \/ open' = open /\ pc' = "output"
        \/ /\ open' = (IF m_fd \in Fds THEN [open EXCEPT ![m_fd] = "none"] ELSE open)
           /\ pc' = "reset"
    OBVIOUS
  <2> HIDE DEF connect_back
  <2> QED
    BY <2>1, <2>2 DEF OneSocket
<1>9. Waiting'
  BY DEF Waiting
<1>10. Undisturbed'
  <2>1. waiting' = None /\ m_fd' = m_fd /\ conn_fd' = conn_fd /\ disturbed' = disturbed
    OBVIOUS
  <2>2. \/ pc' \in {"output"} /\ open' = open
        \/ pc' = "reset" /\ open' = IF m_fd \in Fds THEN [open EXCEPT ![m_fd] = "none"] ELSE open
    OBVIOUS
  <2>3. CASE disturbed # 0
    BY <2>1, <2>3 DEF Undisturbed
  <2>4. CASE disturbed = 0
    <3>1. /\ m_fd \in Fds /\ conn_fd = m_fd /\ open[m_fd] = "ours"
          /\ \A f \in Fds : f < m_fd => open[f] = "theirs"
      BY <2>4 DEF Undisturbed
    <3>2. m_fd \in Nat
      BY <3>1
    <3>3. \A f \in Fds : f < m_fd => open'[f] = "theirs"
      BY <2>2, <3>1, <3>2
    <3>4. CASE open' = open
      BY <2>1, <2>2, <3>1, <3>3, <3>4 DEF Undisturbed
    <3>5. CASE open' = [open EXCEPT ![m_fd] = "none"] /\ pc' = "reset"
      <4>1. open'[m_fd] = "none"
        BY <3>1, <3>5
      <4> QED
        BY <2>1, <3>1, <3>3, <3>5, <4>1 DEF Undisturbed
    <3> QED
      BY <2>2, <3>1, <3>4, <3>5
  <2> QED
    BY <2>3, <2>4
<1>11. NotStolen'
  BY DEF NotStolen, Undisturbed
<1> QED
  BY <1>1, <1>2, <1>3, <1>4, <1>5, <1>6, <1>7, <1>8, <1>9, <1>10, <1>11

LEMMA ResetFdInv ==
  ASSUME CallAssumption, IInv, resetFd
  PROVE  IInv'
<1> USE DEF CallAssumption, IInv, TypeOK, FileTypes, CallTypes, TimerTypes, LoopTypes, files, flags, cor, wait, timers, loops, ends
<1> USE DEF resetFd, CoroutineAt, Goes, RunsOn, Socket, ReactorOfFd, delTimerEvent
<1>l. /\ LowestFree \in Fds /\ LowestFree \in Nat /\ open[LowestFree] = "none"
      /\ \A f \in Fds : f < LowestFree => open[f] # "none"
  BY LowestIsFree DEF Socket
<1>1. FileTypes'
  <2>1. open' \in [Fds -> {"none", "ours", "theirs"}]
    OBVIOUS
  <2>2. stolen' \in BOOLEAN /\ aborted' \in BOOLEAN
    OBVIOUS
  <2>3. m_is_over_time' \in BOOLEAN /\ is_timeout' \in BOOLEAN
    OBVIOUS
  <2>4. disturbed' \in 0 .. MaxDisturbances
    OBVIOUS
  <2>5. /\ m_fd' \in Fds \cup {None} /\ conn_fd' \in Fds \cup {None}
        /\ waiting' \in Fds \cup {None}
    BY <1>l
  <2>6. fd_reactor' \in Threads \cup {"none"}
    OBVIOUS
  <2> QED
    BY <2>1, <2>2, <2>3, <2>4, <2>5, <2>6
<1>2. CallTypes'
  BY DEF Running
<1>3. TimerTypes'
  OBVIOUS
<1>4. LoopTypes'
  OBVIOUS
<1>5. WaitsWithTimer'
  BY DEF WaitsWithTimer, TimerRan, Alive, Ended
<1>6. TimerRan'
  BY DEF TimerRan, WaitsWithTimer, Alive, Ended
<1>7. Outcome'
  BY DEF Outcome, TimerRan, Alive, Ended
<1>8. OneSocket'
  BY DEF OneSocket
<1>9. Waiting'
  BY DEF Waiting
<1>10. Undisturbed'
  <2>1. CASE disturbed # 0
    BY <2>1 DEF Undisturbed
  <2>2. CASE disturbed = 0
    <3>1. /\ m_fd \in Fds /\ open[m_fd] = "none" /\ conn_fd = m_fd /\ waiting \in {None, m_fd}
          /\ \A f \in Fds : f < m_fd => open[f] = "theirs"
      BY <2>2 DEF Undisturbed, OneSocket
    <3>2. m_fd \in Nat
      BY <3>1
    <3>3. LowestFree = m_fd
      BY <1>l, <3>1, <3>2
    <3>4. /\ open' = [open EXCEPT ![m_fd] = "ours"]
          /\ m_fd' = m_fd /\ conn_fd' = conn_fd /\ waiting' = waiting
      BY <3>3
    <3>5. open'[m_fd] = "ours" /\ \A f \in Fds : f < m_fd => open'[f] = "theirs"
      BY <3>1, <3>2, <3>4
    <3> QED
      BY <3>1, <3>4, <3>5 DEF Undisturbed
  <2> QED
    BY <2>1, <2>2
<1>11. NotStolen'
  BY DEF NotStolen, Undisturbed
<1> QED
  BY <1>1, <1>2, <1>3, <1>4, <1>5, <1>6, <1>7, <1>8, <1>9, <1>10, <1>11

LEMMA OutputInv ==
  ASSUME CallAssumption, IInv, output
  PROVE  IInv'
<1> USE DEF CallAssumption, IInv, TypeOK, FileTypes, CallTypes, TimerTypes, LoopTypes, files, flags, cor, wait, timers, loops, ends
<1> USE DEF output, CoroutineAt, Goes, RunsOn, Awaits, Writes, CannotWrite, OnItsSocket
<1>1. FileTypes'
  OBVIOUS
<1>2. CallTypes'
  BY SMTT(30) DEF Running
<1>3. TimerTypes'
  OBVIOUS
<1>4. LoopTypes'
  OBVIOUS
<1>5. WaitsWithTimer'
  BY DEF WaitsWithTimer, TimerRan, Alive, Ended
<1>6. TimerRan'
  BY DEF TimerRan, WaitsWithTimer, Alive, Ended
<1>7. Outcome'
  BY DEF Outcome, TimerRan, Alive, Ended
<1>8. OneSocket'
  BY DEF OneSocket
<1>9. Waiting'
  BY DEF Waiting
<1>10. Undisturbed'
  BY DEF Undisturbed, OneSocket
<1>11. NotStolen'
  BY DEF NotStolen, Undisturbed
<1> QED
  BY <1>1, <1>2, <1>3, <1>4, <1>5, <1>6, <1>7, <1>8, <1>9, <1>10, <1>11

LEMMA WriteBackInv ==
  ASSUME CallAssumption, IInv, write_back
  PROVE  IInv'
<1> USE DEF CallAssumption, IInv, TypeOK, FileTypes, CallTypes, TimerTypes, LoopTypes, files, flags, cor, wait, timers, loops, ends
<1> USE DEF write_back, CoroutineAt, Goes, RunsOn, Wakes, Writes, CannotWrite, OnItsSocket
<1>1. FileTypes'
  OBVIOUS
<1>2. CallTypes'
  <2>1. pc' \in {"err_deal", "input", "output"}
    OBVIOUS
  <2>2. sock' \in {sock, "sent"} /\ where' = where
    OBVIOUS
  <2>3. UNCHANGED <<m_state, errno, result, told>>
    OBVIOUS
  <2> HIDE DEF write_back
  <2> QED
    BY <2>1, <2>2, <2>3 DEF Running
<1>3. TimerTypes'
  OBVIOUS
<1>4. LoopTypes'
  OBVIOUS
<1>5. WaitsWithTimer'
  BY DEF WaitsWithTimer, TimerRan, Alive, Ended
<1>6. TimerRan'
  BY DEF TimerRan, WaitsWithTimer, Alive, Ended
<1>7. Outcome'
  BY DEF Outcome, TimerRan, Alive, Ended
<1>8. OneSocket'
  BY DEF OneSocket
<1>9. Waiting'
  BY DEF Waiting
<1>10. Undisturbed'
  BY DEF Undisturbed, OneSocket
<1>11. NotStolen'
  BY DEF NotStolen, Undisturbed
<1> QED
  BY <1>1, <1>2, <1>3, <1>4, <1>5, <1>6, <1>7, <1>8, <1>9, <1>10, <1>11

LEMMA InputInv ==
  ASSUME CallAssumption, IInv, input
  PROVE  IInv'
<1> USE DEF CallAssumption, IInv, TypeOK, FileTypes, CallTypes, TimerTypes, LoopTypes, files, flags, cor, wait, timers, loops, ends
<1> USE DEF input, CoroutineAt, Goes, RunsOn, Awaits, HasReply, Succeed, OnItsSocket, delTimerEvent
<1>1. FileTypes'
  OBVIOUS
<1>2. CallTypes'
  BY DEF Running
<1>3. TimerTypes'
  OBVIOUS
<1>4. LoopTypes'
  OBVIOUS
<1>5. WaitsWithTimer'
  BY DEF WaitsWithTimer, TimerRan, Alive, Ended
<1>6. TimerRan'
  BY DEF TimerRan, WaitsWithTimer, Alive, Ended
<1>7. Outcome'
  BY DEF Outcome, TimerRan, Alive, Ended
<1>8. OneSocket'
  BY DEF OneSocket
<1>9. Waiting'
  BY DEF Waiting
<1>10. Undisturbed'
  BY DEF Undisturbed, OneSocket
<1>11. NotStolen'
  BY DEF NotStolen, Undisturbed
<1> QED
  BY <1>1, <1>2, <1>3, <1>4, <1>5, <1>6, <1>7, <1>8, <1>9, <1>10, <1>11

LEMMA ReadBackInv ==
  ASSUME CallAssumption, IInv, read_back
  PROVE  IInv'
<1> USE DEF CallAssumption, IInv, TypeOK, FileTypes, CallTypes, TimerTypes, LoopTypes, files, flags, cor, wait, timers, loops, ends
<1> USE DEF read_back, CoroutineAt, Goes, RunsOn, Wakes, HasReply, Succeed, OnItsSocket, delTimerEvent, Close
<1>1. FileTypes'
  <2>1. open' \in [Fds -> {"none", "ours", "theirs"}]
    OBVIOUS
  <2>2. stolen' \in BOOLEAN /\ aborted' \in BOOLEAN
    OBVIOUS
  <2>3. m_is_over_time' \in BOOLEAN /\ is_timeout' \in BOOLEAN
    OBVIOUS
  <2>4. disturbed' \in 0 .. MaxDisturbances
    OBVIOUS
  <2>5. /\ m_fd' \in Fds \cup {None} /\ conn_fd' \in Fds \cup {None}
        /\ waiting' \in Fds \cup {None}
    OBVIOUS
  <2>6. fd_reactor' \in Threads \cup {"none"}
    OBVIOUS
  <2> QED
    BY <2>1, <2>2, <2>3, <2>4, <2>5, <2>6
<1>2. CallTypes'
  BY DEF Running
<1>3. TimerTypes'
  OBVIOUS
<1>4. LoopTypes'
  OBVIOUS
<1>5. WaitsWithTimer'
  BY DEF WaitsWithTimer, TimerRan, Alive, Ended
<1>6. TimerRan'
  BY DEF TimerRan, WaitsWithTimer, Alive, Ended
<1>7. Outcome'
  BY DEF Outcome, TimerRan, Alive, Ended
<1>8. OneSocket'
  BY DEF OneSocket
<1>9. Waiting'
  BY DEF Waiting
<1>10. Undisturbed'
  <2>1. waiting' = None /\ m_fd' = m_fd /\ conn_fd' = conn_fd /\ disturbed' = disturbed
    OBVIOUS
  <2>2. \/ pc' \in {"err_deal", "return"} /\ open' = open
        \/ pc' = "closed_wait" /\ open' = IF conn_fd \in Fds THEN [open EXCEPT ![conn_fd] = "none"] ELSE open
    OBVIOUS
  <2>3. CASE disturbed # 0
    BY <2>1, <2>3 DEF Undisturbed
  <2>4. CASE disturbed = 0
    <3>1. /\ m_fd \in Fds /\ conn_fd = m_fd /\ open[m_fd] = "ours"
          /\ \A f \in Fds : f < m_fd => open[f] = "theirs"
      BY <2>4 DEF Undisturbed
    <3>2. m_fd \in Nat
      BY <3>1
    <3>3. \A f \in Fds : f < m_fd => open'[f] = "theirs"
      BY <2>2, <3>1, <3>2
    <3>4. CASE open' = open
      BY <2>1, <2>2, <3>1, <3>3, <3>4 DEF Undisturbed
    <3>5. CASE open' = [open EXCEPT ![m_fd] = "none"] /\ pc' = "closed_wait"
      <4>1. open'[m_fd] = "none"
        BY <3>1, <3>5
      <4> QED
        BY <2>1, <3>1, <3>3, <3>5, <4>1 DEF Undisturbed
    <3> QED
      BY <2>2, <3>1, <3>4, <3>5
  <2> QED
    BY <2>3, <2>4
<1>11. NotStolen'
  BY DEF NotStolen, Undisturbed
<1> QED
  BY <1>1, <1>2, <1>3, <1>4, <1>5, <1>6, <1>7, <1>8, <1>9, <1>10, <1>11

LEMMA ErrDealInv ==
  ASSUME CallAssumption, IInv, err_deal
  PROVE  IInv'
<1> USE DEF CallAssumption, IInv, TypeOK, FileTypes, CallTypes, TimerTypes, LoopTypes, files, flags, cor, wait, timers, loops, ends
<1> USE DEF err_deal, CoroutineAt, Goes, RunsOn, Close
<1>1. FileTypes'
  OBVIOUS
<1>2. CallTypes'
  BY DEF Running
<1>3. TimerTypes'
  OBVIOUS
<1>4. LoopTypes'
  OBVIOUS
<1>5. WaitsWithTimer'
  BY DEF WaitsWithTimer, TimerRan, Alive, Ended
<1>6. TimerRan'
  BY DEF TimerRan, WaitsWithTimer, Alive, Ended
<1>7. Outcome'
  BY DEF Outcome, TimerRan, Alive, Ended
<1>8. OneSocket'
  BY DEF OneSocket
<1>9. Waiting'
  BY DEF Waiting
<1>10. Undisturbed'
  BY DEF Undisturbed, OneSocket
<1>11. NotStolen'
  BY DEF NotStolen, Undisturbed
<1> QED
  BY <1>1, <1>2, <1>3, <1>4, <1>5, <1>6, <1>7, <1>8, <1>9, <1>10, <1>11

LEMMA ReopenInv ==
  ASSUME CallAssumption, IInv, reopen
  PROVE  IInv'
<1> USE DEF CallAssumption, IInv, TypeOK, FileTypes, CallTypes, TimerTypes, LoopTypes, files, flags, cor, wait, timers, loops, ends
<1> USE DEF reopen, CoroutineAt, Goes, RunsOn, Socket
<1>l. /\ LowestFree \in Fds /\ LowestFree \in Nat /\ open[LowestFree] = "none"
      /\ \A f \in Fds : f < LowestFree => open[f] # "none"
  BY LowestIsFree DEF Socket
<1>1. FileTypes'
  <2>1. open' \in [Fds -> {"none", "ours", "theirs"}]
    OBVIOUS
  <2>2. stolen' \in BOOLEAN /\ aborted' \in BOOLEAN
    OBVIOUS
  <2>3. m_is_over_time' \in BOOLEAN /\ is_timeout' \in BOOLEAN
    OBVIOUS
  <2>4. disturbed' \in 0 .. MaxDisturbances
    OBVIOUS
  <2>5. /\ m_fd' \in Fds \cup {None} /\ conn_fd' \in Fds \cup {None}
        /\ waiting' \in Fds \cup {None}
    BY <1>l
  <2>6. fd_reactor' \in Threads \cup {"none"}
    OBVIOUS
  <2> QED
    BY <2>1, <2>2, <2>3, <2>4, <2>5, <2>6
<1>2. CallTypes'
  BY DEF Running
<1>3. TimerTypes'
  OBVIOUS
<1>4. LoopTypes'
  OBVIOUS
<1>5. WaitsWithTimer'
  BY DEF WaitsWithTimer, TimerRan, Alive, Ended
<1>6. TimerRan'
  BY DEF TimerRan, WaitsWithTimer, Alive, Ended
<1>7. Outcome'
  BY DEF Outcome, TimerRan, Alive, Ended
<1>8. OneSocket'
  BY DEF OneSocket
<1>9. Waiting'
  BY DEF Waiting
<1>10. Undisturbed'
  <2>1. CASE disturbed # 0
    BY <2>1 DEF Undisturbed
  <2>2. CASE disturbed = 0
    <3>1. /\ m_fd \in Fds /\ open[m_fd] = "none" /\ conn_fd = m_fd /\ waiting \in {None, m_fd}
          /\ \A f \in Fds : f < m_fd => open[f] = "theirs"
      BY <2>2 DEF Undisturbed, OneSocket
    <3>2. m_fd \in Nat
      BY <3>1
    <3>3. LowestFree = m_fd
      BY <1>l, <3>1, <3>2
    <3>4. /\ open' = [open EXCEPT ![m_fd] = "ours"]
          /\ m_fd' = m_fd /\ conn_fd' = conn_fd /\ waiting' = waiting
      BY <3>3
    <3>5. open'[m_fd] = "ours" /\ \A f \in Fds : f < m_fd => open'[f] = "theirs"
      BY <3>1, <3>2, <3>4
    <3> QED
      BY <3>1, <3>4, <3>5 DEF Undisturbed
  <2> QED
    BY <2>1, <2>2
<1>11. NotStolen'
  BY DEF NotStolen, Undisturbed
<1> QED
  BY <1>1, <1>2, <1>3, <1>4, <1>5, <1>6, <1>7, <1>8, <1>9, <1>10, <1>11

LEMMA ReturnInv ==
  ASSUME CallAssumption, IInv, Return
  PROVE  IInv'
<1> USE DEF CallAssumption, IInv, TypeOK, FileTypes, CallTypes, TimerTypes, LoopTypes, files, flags, cor, wait, timers, loops, ends
<1> USE DEF Return, CoroutineAt, Goes, RunsOn, Close
<1>1. FileTypes'
  OBVIOUS
<1>2. CallTypes'
  BY DEF Running
<1>3. TimerTypes'
  OBVIOUS
<1>4. LoopTypes'
  OBVIOUS
<1>5. WaitsWithTimer'
  BY DEF WaitsWithTimer, TimerRan, Alive, Ended
<1>6. TimerRan'
  BY DEF TimerRan, WaitsWithTimer, Alive, Ended
<1>7. Outcome'
  BY DEF Outcome, TimerRan, Alive, Ended
<1>8. OneSocket'
  BY DEF OneSocket
<1>9. Waiting'
  BY DEF Waiting
<1>10. Undisturbed'
  BY DEF Undisturbed, OneSocket
<1>11. NotStolen'
  BY DEF NotStolen, Undisturbed
<1> QED
  BY <1>1, <1>2, <1>3, <1>4, <1>5, <1>6, <1>7, <1>8, <1>9, <1>10, <1>11

LEMMA NextInv ==
  ASSUME CallAssumption, IInv, [Next]_vars
  PROVE  IInv'
<1>1. CASE CoroutineSteps
  BY <1>1, CallMethodInv, ConnectInv, ConnectBackInv, ResetFdInv, OutputInv, WriteBackInv,
     InputInv, ReadBackInv, ErrDealInv, ReopenInv, ReturnInv DEF CoroutineSteps
<1>2. ASSUME NEW t \in Threads, LoopSteps(t) PROVE IInv'
  BY <1>2, EpollWaitInv, TakeFdInv, TakeTimerInv, RunTaskInv, ResumeFirstInv, StealInv
     DEF LoopSteps
<1>3. CASE RpcTimeIsUp \/ ConTimeIsUp
  BY <1>3, RpcTimeIsUpInv, ConTimeIsUpInv
<1>4. CASE PeerAccepts \/ PeerRefuses \/ PeerReplies \/ PeerCloses
  BY <1>4, PeerAcceptsInv, PeerRefusesInv, PeerRepliesInv, PeerClosesInv
<1>5. CASE OtherOpens \/ OtherCloses
  BY <1>5, OtherOpensInv, OtherClosesInv
<1>6. CASE UNCHANGED vars
  <2> USE <1>6 DEF vars, files, flags, cor, wait, timers, loops, ends, IInv
  <2>1. TypeOK'
    BY DEF TypeOK, FileTypes, CallTypes, TimerTypes, LoopTypes
  <2>2. WaitsWithTimer' /\ TimerRan' /\ Outcome'
    BY DEF WaitsWithTimer, TimerRan, Outcome
  <2>3. OneSocket' /\ Waiting' /\ Undisturbed' /\ NotStolen'
    BY DEF OneSocket, Waiting, Undisturbed, NotStolen
  <2> QED
    BY <2>1, <2>2, <2>3
<1> QED
  BY <1>1, <1>2, <1>3, <1>4, <1>5, <1>6 DEF Next

(* IInv is the invariant; the theorems below follow from it.               *)
THEOREM Invariant == Spec => []IInv
BY CallAssumption, InitInv, NextInv, PTL DEF Spec

(* Every variable keeps its type, whatever others do to the descriptors.   *)
THEOREM TypeCorrect == Spec => []TypeOK
<1>1. IInv => TypeOK
  BY DEF IInv
<1> QED
  BY <1>1, Invariant, PTL

(* A coroutine of a call never waits with its RPC timer already run: a     *)
(* timer that runs wakes it and sets m_is_over_time, which output() and    *)
(* input() (tcp_connection.cpp) test after every yield.  The timer that    *)
(* delTimerEvent erases in another's place (timer.cpp:106) is the only     *)
(* one that can be missing.                                                *)
THEOREM TimerWatches == Spec => []WaitsWithTimer
<1>1. IInv => WaitsWithTimer
  BY DEF IInv
<1> QED
  BY <1>1, Invariant, PTL

(* What sendAndRecvZRpcPb returns agrees with the socket and with the      *)
(* timer: no reply is reported that did not come, no timeout before the    *)
(* timer ran, no success after it.                                         *)
THEOREM OutcomeIsTrue == Spec => []OutcomeTruthful
<1>1. IInv => OutcomeTruthful
  <2> SUFFICES ASSUME IInv, pc = "done", ~aborted PROVE OutcomeTruthful
    BY DEF OutcomeTruthful
  <2>1. Outcome /\ TimerRan
    BY DEF IInv
  <2> QED
    BY <2>1 DEF Outcome, TimerRan, OutcomeTruthful
<1> QED
  BY <1>1, Invariant, PTL

(* A call that has returned leaves no socket, no waiting FdEvent and no    *)
(* pending timer behind, except the timer of one that saw the peer close.  *)
THEOREM LeavesNothing == Spec => []NothingLeft
<1>1. IInv => NothingLeft
  BY DEF IInv, NothingLeft, OneSocket, Waiting, Outcome, Ended
<1> QED
  BY <1>1, Invariant, PTL

(* While no other thread opens or closes descriptors, the socket that      *)
(* resetFd opens has the number of the one it closed, so the connection's  *)
(* descriptor stays the client's through any number of failed connects.    *)
THEOREM KeepsItsOwn == Spec => []UsesItsOwn
<1>1. IInv => UsesItsOwn
  <2> SUFFICES ASSUME IInv, disturbed = 0 PROVE UsesItsOwn
    BY DEF UsesItsOwn
  <2>1. ~stolen
    BY DEF IInv, NotStolen
  <2>2. waiting # None => open[waiting] = "ours"
    BY DEF IInv, Waiting, Undisturbed
  <2>3. pc \notin {"create", "reset", "reopen", "return", "done"} => conn_fd = m_fd
    BY DEF IInv, Undisturbed
  <2> QED
    BY <2>1, <2>2, <2>3 DEF UsesItsOwn
<1> QED
  BY <1>1, Invariant, PTL
==============================================================================
