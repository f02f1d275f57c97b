------------------------------- MODULE RpcCall -------------------------------
(***************************************************************************)
(* One call of ZRpcPbRpcChannel::CallMethod from a coroutine of an IO      *)
(* thread: TcpClient (tcp_client.cpp), its TcpConnection, the hooks, the   *)
(* timers of two IO threads and the part of Reactor::loop that resumes     *)
(* coroutines.  The call connects, sends, reads until its reply is there   *)
(* or its timer has run, and closes.  Other threads open and close         *)
(* descriptors meanwhile, the lowest free one first.                       *)
(*                                                                         *)
(* The RPC timer stays with the thread the call began on; the coroutine    *)
(* goes to whichever thread takes its descriptor off CoroutineTaskQueue.   *)
(* An assertion that fails ends the process: aborted.                      *)
(***************************************************************************)
EXTENDS Integers, Sequences, FiniteSets, FiniteSetsExt

CONSTANTS
  Threads, Home,  (* IO threads; the one the call begins on                  *)
  Fds,            (* descriptors, small numbers                              *)
  MaxOthers,      (* bound: descriptors that others have at a time           *)
  MaxQueued,      (* bound: length of CoroutineTaskQueue                     *)
  MaxDisturbances (* bound: what others open and close during the call       *)

CallAssumption ==
  /\ Home \in Threads /\ IsFiniteSet(Fds) /\ Fds \subseteq Nat \ {0}
  /\ MaxOthers \in Nat /\ MaxQueued \in Nat /\ MaxDisturbances \in Nat

ASSUME CallAssumption

None    == 0
TimerFd == 0   \* the timer's descriptor, in a batch

VARIABLES
  open,                       \* whose socket a descriptor is
  m_fd, conn_fd, m_state,     \* TcpClient::m_fd, and its TcpConnection
  m_is_over_time, is_timeout,
  sock,        \* what the kernel and the peer have made of the client's socket
  pc, errno,   \* where the coroutine is, and why connect failed
  where,       \* the thread it runs on or ran on last
  waiting,     \* the descriptor whose FdEvent has the coroutine
  fd_reactor,  \* m_reactor of the FdEvent of m_fd
  rpc_event, con_event, con_thread,      \* the timer events
  batch, tasks, first_coroutine, \* of loop() and onTimer(), by thread
  queue,                         \* CoroutineTaskQueue
  aborted,
  result, told,       \* what sendAndRecv returns; what the caller is told
  stolen, disturbed   \* history: closed another's socket; others opened or closed

files  == <<open, m_fd, stolen, disturbed>>
flags  == <<m_is_over_time, is_timeout>>
cor    == <<pc, errno, where>>
wait   == <<waiting, fd_reactor>>
timers == <<rpc_event, con_event, con_thread>>
loops  == <<batch, tasks, first_coroutine, queue>>
ends   == <<result, told>>
vars   == <<files, conn_fd, m_state, flags, sock, cor, wait, timers, loops, aborted, ends>>

Waits   == {"connect_wait", "write_wait", "read_wait", "closed_wait"}
Running == {"create", "connect", "connect_back", "reset", "output", "write_back",
            "input", "read_back", "closed_back", "err_deal", "reopen", "return"}
Pending == {"armed", "due"}

FileTypes ==
  /\ open \in [Fds -> {"none", "ours", "theirs"}]
  /\ m_fd \in Fds \cup {None} /\ conn_fd \in Fds \cup {None}
  /\ waiting \in Fds \cup {None} /\ fd_reactor \in Threads \cup {"none"}
  /\ {stolen, aborted, m_is_over_time, is_timeout} \subseteq BOOLEAN
  /\ disturbed \in 0 .. MaxDisturbances

CallTypes ==
  /\ m_state \in {"NotConnected", "Connected", "Closed"}
  /\ sock \in {"new", "connecting", "refused", "established", "sent", "replied", "closed"}
  /\ pc \in Waits \cup Running \cup {"done"} /\ where \in Threads
  /\ errno \in {"none", "refused", "afnosupport", "other"}
  /\ result \in {"none", "unserialized", "unencoded", "ok", "timeout", "closed", "refused",
                 "sys_err"}
  /\ told \in {"nothing", "error", "closure"}

TimerTypes ==
  /\ rpc_event \in {"none", "deleted", "collected", "fired", "erased"} \cup Pending
  /\ con_event \in {"none", "collected", "fired"} \cup Pending
  /\ con_thread \in Threads

LoopTypes ==
  /\ batch \in [Threads -> Seq(Fds \cup {TimerFd})]
  /\ tasks \in [Threads -> Seq({"rpc", "con"})]
  /\ first_coroutine \in [Threads -> BOOLEAN]
  /\ queue \in Seq(Fds) /\ Len(queue) <= MaxQueued

TypeOK == FileTypes /\ CallTypes /\ TimerTypes /\ LoopTypes

Init ==
  /\ open = [f \in Fds |-> "none"] /\ m_fd = None /\ conn_fd = None
  /\ m_state = "NotConnected" /\ m_is_over_time = FALSE /\ is_timeout = FALSE
  /\ sock = "new" /\ pc = "create" /\ errno = "none" /\ where = Home
  /\ waiting = None /\ fd_reactor = Home
  /\ rpc_event = "none" /\ con_event = "none" /\ con_thread = Home
  /\ batch = [t \in Threads |-> <<>>] /\ tasks = [t \in Threads |-> <<>>]
  /\ first_coroutine = [t \in Threads |-> FALSE] /\ queue = <<>>
  /\ aborted = FALSE /\ result = "none" /\ told = "nothing"
  /\ stolen = FALSE /\ disturbed = 0

-----------------------------------------------------------------------------
(* Descriptors *)

LowestFree == Min({f \in Fds : open[f] = "none"})

(* close() of whatever the number stands for by now.                       *)
Close(fd) ==
  /\ open' = IF fd \in Fds THEN [open EXCEPT ![fd] = "none"] ELSE open
  /\ stolen' = (stolen \/ (fd \in Fds /\ open[fd] = "theirs"))

Socket ==
  /\ \E f \in Fds : open[f] = "none"
  /\ open' = [open EXCEPT ![LowestFree] = "ours"]
  /\ m_fd' = LowestFree
  /\ sock' = "new"
  /\ UNCHANGED stolen

Other == /\ ~aborted /\ pc # "done" /\ disturbed < MaxDisturbances
         /\ disturbed' = IF pc = "create" THEN 0 ELSE disturbed + 1
         /\ UNCHANGED <<m_fd, stolen, conn_fd, m_state, flags, sock, cor, wait, timers, loops,
                        aborted, ends>>

OtherOpens ==
  /\ Cardinality({f \in Fds : open[f] = "theirs"}) < MaxOthers
  /\ \E f \in Fds : open[f] = "none"
  /\ open' = [open EXCEPT ![LowestFree] = "theirs"]
  /\ Other

OtherCloses ==
  /\ \E f \in Fds : open[f] = "theirs" /\ open' = [open EXCEPT ![f] = "none"]
  /\ Other

-----------------------------------------------------------------------------
(* The peer *)

PeerDoes(from, to) ==
  /\ ~aborted /\ pc # "done" /\ sock \in from /\ sock' = to
  /\ UNCHANGED <<files, conn_fd, m_state, flags, cor, wait, timers, loops, aborted, ends>>

PeerAccepts == PeerDoes({"connecting"}, "established")
PeerRefuses == PeerDoes({"connecting"}, "refused")
PeerReplies == PeerDoes({"sent"}, "replied")
PeerCloses  == PeerDoes({"established", "sent"}, "closed")

-----------------------------------------------------------------------------
(* Mutant: the last event of the timer is deleted.                         *)
delTimerEventLast(event) ==
  /\ rpc_event' = IF rpc_event \in Pending THEN "deleted" ELSE rpc_event
  /\ UNCHANGED <<con_event, con_thread>>

(* Timers.  A deleted event that has run already is not found, and the     *)
(* next later event of that timer is erased in its place (timer.cpp:106):  *)
(* the RPC event, unless another coroutine's event comes before it.        *)

delTimerEvent(event) ==
  IF event = "rpc"
  THEN /\ rpc_event' = IF rpc_event \in Pending THEN "deleted" ELSE rpc_event
       /\ UNCHANGED <<con_event, con_thread>>
  ELSE /\ IF con_event = "collected" THEN UNCHANGED <<con_event, con_thread>>
          ELSE con_event' = "none" /\ con_thread' = Home
       /\ \/ UNCHANGED rpc_event
          \/ /\ con_event \notin Pending /\ con_thread = Home /\ rpc_event \in Pending
             /\ rpc_event' = "erased"

TimePasses ==
  /\ ~aborted
  /\ UNCHANGED <<files, conn_fd, m_state, flags, sock, cor, wait, con_thread, loops, aborted,
                 ends>>

RpcTimeIsUp == TimePasses /\ rpc_event = "armed" /\ rpc_event' = "due" /\ UNCHANGED con_event

ConTimeIsUp == TimePasses /\ con_event = "armed" /\ con_event' = "due" /\ UNCHANGED rpc_event

-----------------------------------------------------------------------------
(* Reactor::loop of a thread, as far as it concerns this coroutine *)

Blocked(t) == pc \in Running /\ where = t
AtTop(t)   == batch[t] = <<>> /\ tasks[t] = <<>>

After == [connect_wait |-> "connect_back", write_wait |-> "write_back",
          read_wait |-> "read_back", closed_wait |-> "closed_back"]

(* Coroutine::resume asserts that the coroutine is suspended.              *)
resume(t) ==
  IF pc \in Waits
  THEN pc' = After[pc] /\ where' = t /\ UNCHANGED <<aborted, errno>>
  ELSE aborted' = TRUE /\ UNCHANGED cor

SocketReady ==
  \/ open[waiting] # "ours" \/ waiting # m_fd
  \/ pc = "connect_wait" /\ sock \in {"established", "refused", "closed"}
  \/ pc = "write_wait" /\ sock \in {"established", "closed"}
  \/ pc = "read_wait" /\ sock \in {"replied", "closed"}

Due(t) == (IF rpc_event = "due" /\ t = Home THEN {"rpc"} ELSE {})
            \cup (IF con_event = "due" /\ t = con_thread THEN {"con"} ELSE {})

Ready(t) ==
  (IF waiting # None /\ fd_reactor = t /\ SocketReady THEN {waiting} ELSE {})
    \cup (IF Due(t) # {} THEN {TimerFd} ELSE {})

Orders(S) == {s \in [1 .. Cardinality(S) -> S] : \A i, j \in DOMAIN s : s[i] = s[j] => i = j}

LoopStep(t) ==
  /\ ~aborted /\ ~Blocked(t)
  /\ UNCHANGED <<files, conn_fd, m_state, sock, waiting, con_thread, ends>>

epoll_wait(t) ==
  /\ LoopStep(t) /\ AtTop(t) /\ ~first_coroutine[t] /\ Ready(t) # {}
  /\ \E order \in Orders(Ready(t)) : batch' = [batch EXCEPT ![t] = order]
  /\ UNCHANGED <<tasks, first_coroutine, queue, flags, cor, fd_reactor, rpc_event, con_event,
                 aborted>>

(* The first coroutine of a batch is kept for the next turn; another's may *)
(* have come first, and then this one's FdEvent leaves its reactor and is  *)
(* queued for all threads.  One that waits no more has no coroutine.       *)
TakeFd(t) ==
  /\ LoopStep(t) /\ tasks[t] = <<>> /\ batch[t] # <<>> /\ Head(batch[t]) # TimerFd
  /\ batch' = [batch EXCEPT ![t] = Tail(@)]
  /\ \/ waiting # Head(batch[t]) /\ UNCHANGED <<first_coroutine, queue, fd_reactor>>
     \/ /\ waiting = Head(batch[t])
        /\ first_coroutine' = [first_coroutine EXCEPT ![t] = TRUE]
        /\ UNCHANGED <<queue, fd_reactor>>
     \/ /\ waiting = Head(batch[t]) /\ Len(queue) < MaxQueued
        /\ queue' = Append(queue, waiting) /\ fd_reactor' = "none"
        /\ UNCHANGED first_coroutine
  /\ UNCHANGED <<tasks, flags, cor, rpc_event, con_event, aborted>>

(* onTimer takes the events that are due out of the timer ...              *)
TakeTimer(t) ==
  /\ LoopStep(t) /\ tasks[t] = <<>> /\ batch[t] # <<>> /\ Head(batch[t]) = TimerFd
  /\ batch' = [batch EXCEPT ![t] = Tail(@)]
  /\ \E order \in Orders(Due(t)) : tasks' = [tasks EXCEPT ![t] = order]
  /\ rpc_event' = IF "rpc" \in Due(t) THEN "collected" ELSE rpc_event
  /\ con_event' = IF "con" \in Due(t) THEN "collected" ELSE con_event
  /\ UNCHANGED <<first_coroutine, queue, flags, cor, fd_reactor, aborted>>

(* ... and runs their tasks, whatever has become of the call.              *)
RunTask(t) ==
  /\ LoopStep(t) /\ tasks[t] # <<>>
  /\ tasks' = [tasks EXCEPT ![t] = Tail(@)]
  /\ IF Head(tasks[t]) = "rpc"
     THEN /\ is_timeout' = TRUE /\ m_is_over_time' = TRUE
          /\ rpc_event' = "fired" /\ UNCHANGED con_event
     ELSE /\ con_event' = IF con_event # "collected" THEN con_event
                         ELSE IF pc = "connect_wait" THEN "fired" ELSE "none"
          /\ UNCHANGED <<flags, rpc_event>>
  /\ resume(t)
  /\ UNCHANGED <<batch, first_coroutine, queue, fd_reactor>>

ResumeFirst(t) ==
  /\ LoopStep(t) /\ AtTop(t) /\ first_coroutine[t]
  /\ first_coroutine' = [first_coroutine EXCEPT ![t] = FALSE]
  /\ resume(t)
  /\ UNCHANGED <<batch, tasks, queue, flags, fd_reactor, rpc_event, con_event>>

(* A thread takes an FdEvent off the queue and resumes its coroutine, a    *)
(* null pointer if the coroutine was woken otherwise; the number may also  *)
(* be another's by now.                                                    *)
Steal(t) ==
  /\ LoopStep(t) /\ AtTop(t) /\ ~first_coroutine[t] /\ queue # <<>>
  /\ queue' = Tail(queue)
  /\ \/ waiting = Head(queue) /\ fd_reactor' = t /\ resume(t)
     \/ waiting # Head(queue) /\ aborted' = TRUE /\ UNCHANGED <<cor, fd_reactor>>
     \/ /\ waiting # Head(queue) /\ open[Head(queue)] = "theirs"
        /\ UNCHANGED <<cor, fd_reactor, aborted>>
  /\ UNCHANGED <<batch, tasks, first_coroutine, flags, rpc_event, con_event>>

-----------------------------------------------------------------------------
(* The coroutine: CallMethod, sendAndRecvZRpcPb, input, output, the hooks *)

CoroutineAt(from) ==
  /\ ~aborted /\ pc = from
  /\ UNCHANGED <<where, loops>>

Goes(to) == pc' = to /\ UNCHANGED <<waiting, aborted>>

RunsOn(to) == Goes(to) /\ UNCHANGED fd_reactor

(* The FdEvent of a new number has whatever reactor it had last.           *)
ReactorOfFd ==
  IF m_fd' = m_fd THEN UNCHANGED fd_reactor ELSE fd_reactor' \in Threads \cup {"none"}

(* toEpoll and yield.  The hook gives an FdEvent without a reactor this    *)
(* thread's; one of another number has whatever reactor it had last.       *)
Awaits(fd, to) ==
  /\ pc' = to /\ waiting' = fd /\ UNCHANGED aborted
  /\ IF fd = m_fd
     THEN fd_reactor' = IF fd_reactor = "none" THEN where ELSE fd_reactor
     ELSE fd_reactor' \in Threads

(* Mutant: the FdEvent keeps the coroutine.                                *)
WakesKept(to) == pc' = to /\ UNCHANGED <<wait, aborted>>

(* delListenEvents and clearCoroutine, after the yield.  Where the FdEvent *)
(* is queued, updateToReactor gives it a reactor, and reads the null one   *)
(* before that if debug lines are logged.                                  *)
Wakes(to) ==
  /\ pc' = to /\ waiting' = None
  /\ fd_reactor' = IF fd_reactor = "none" THEN where ELSE fd_reactor
  /\ aborted' \in {FALSE, fd_reactor = "none"}

(* A failed serialisation is only logged, a failed encoding reported.      *)
(* The controller has a message number, as the asynchronous channel's has: *)
(* without one, channel.cpp:52 takes the code of a function for a RunTime. *)
CallMethod ==
  /\ CoroutineAt("create")
  /\ Socket /\ conn_fd' = LowestFree
  /\ \/ RunsOn("connect") /\ rpc_event' = "armed" /\ UNCHANGED result
     \/ RunsOn("return") /\ result' \in {"unserialized", "unencoded"} /\ UNCHANGED rpc_event
  /\ UNCHANGED <<disturbed, m_state, flags, errno, con_event, con_thread, told>>

Connected ==
  /\ m_state' = "Connected"
  /\ UNCHANGED <<errno, files>>

(* Mutant: the socket is not closed.                                       *)
NotConnectedOpen(error) ==
  /\ errno' = error
  /\ UNCHANGED <<open, stolen, m_state, m_fd, disturbed>>

(* connect has failed: resetFd closes the socket ...                       *)
NotConnected(error) ==
  /\ errno' = error
  /\ Close(m_fd)
  /\ UNCHANGED <<m_state, m_fd, disturbed>>

connect_hook ==
  /\ CoroutineAt("connect")
  /\ \/ /\ Connected /\ sock' = "established" /\ RunsOn("output")
        /\ UNCHANGED <<con_event, con_thread>>
     \/ /\ sock' = "connecting" /\ Awaits(m_fd, "connect_wait")
        /\ con_event' = "armed" /\ con_thread' = where
        /\ UNCHANGED <<m_state, errno, files>>
     \/ /\ \E error \in {"refused", "afnosupport", "other"} : NotConnected(error)
        /\ RunsOn("reset")
        /\ UNCHANGED <<sock, con_event, con_thread>>
  /\ UNCHANGED <<conn_fd, flags, rpc_event, ends>>

connect_back ==
  /\ CoroutineAt("connect_back")
  /\ delTimerEvent("con")
  /\ \/ sock \in {"established", "closed"} /\ Connected /\ Wakes("output")
     \/ /\ sock # "established" /\ Wakes("reset")
        /\ NotConnected(IF sock = "refused" /\ con_event # "fired" THEN "refused" ELSE "other")
  /\ UNCHANGED <<conn_fd, flags, sock, ends>>

(* ... and opens the next one, which may have another number: conn_fd      *)
(* stays.  The call gives up on a timeout and on two of the errors.        *)
resetFd ==
  /\ CoroutineAt("reset")
  /\ Socket /\ ReactorOfFd
  /\ \/ is_timeout /\ Goes("err_deal") /\ UNCHANGED <<timers, result>>
     \/ /\ ~is_timeout /\ errno \in {"refused", "afnosupport"} /\ Goes("return")
        /\ delTimerEvent("rpc")
        /\ result' = IF errno = "refused" THEN "refused" ELSE "sys_err"
     \/ ~is_timeout /\ errno = "other" /\ Goes("connect") /\ UNCHANGED <<timers, result>>
  /\ errno' = "none"
  /\ UNCHANGED <<disturbed, conn_fd, m_state, flags, told>>

(* conn_fd may be another's socket by now: then anything may happen on it. *)
OnItsSocket == conn_fd = m_fd /\ open[conn_fd] = "ours"

Writes ==
  \/ OnItsSocket /\ sock = "established" /\ sock' = "sent"
  \/ ~OnItsSocket /\ UNCHANGED sock

CannotWrite == (OnItsSocket => sock \in {"established", "closed"}) /\ UNCHANGED sock

output ==
  /\ CoroutineAt("output")
  /\ \/ m_is_over_time /\ RunsOn("err_deal") /\ UNCHANGED sock
     \/ ~m_is_over_time /\ Writes /\ RunsOn("input")
     \/ ~m_is_over_time /\ CannotWrite /\ Awaits(conn_fd, "write_wait")
  /\ UNCHANGED <<files, conn_fd, m_state, flags, errno, timers, ends>>

(* A write that fails again is tried again.                                *)
write_back ==
  /\ CoroutineAt("write_back")
  /\ \/ Writes /\ Wakes(IF m_is_over_time THEN "err_deal" ELSE "input")
     \/ CannotWrite /\ Wakes(IF m_is_over_time THEN "err_deal" ELSE "output")
  /\ UNCHANGED <<files, conn_fd, m_state, flags, errno, timers, ends>>

(* Mutant: anything read is taken for the reply.                           *)
HasAnything == OnItsSocket /\ sock \in {"sent", "replied"}

HasReply == OnItsSocket /\ sock = "replied"
Succeed == delTimerEvent("rpc") /\ result' = "ok"

input ==
  /\ CoroutineAt("input")
  /\ \/ HasReply /\ Succeed /\ RunsOn("return")
     \/ ~HasReply /\ Awaits(conn_fd, "read_wait") /\ UNCHANGED <<timers, result>>
  /\ UNCHANGED <<files, conn_fd, m_state, flags, errno, sock, told>>

(* The flag is looked at before what was read.  An empty read means to the *)
(* code that the peer has closed: clearClient, and a yield that only the   *)
(* timer is to end.                                                        *)
read_back ==
  /\ CoroutineAt("read_back")
  /\ \/ m_is_over_time /\ Wakes("err_deal") /\ UNCHANGED <<files, m_state, timers, result>>
     \/ /\ ~m_is_over_time /\ HasReply /\ Wakes("return") /\ Succeed
        /\ UNCHANGED <<files, m_state>>
     \/ /\ ~m_is_over_time /\ ~HasReply /\ Wakes("closed_wait")
        /\ Close(conn_fd) /\ m_state' = "Closed"
        /\ UNCHANGED <<m_fd, disturbed, timers, result>>
  /\ UNCHANGED <<conn_fd, flags, errno, sock, told>>

(* err_deal closes m_fd, which clearClient may have closed already.        *)
err_deal ==
  /\ CoroutineAt("closed_back") \/ CoroutineAt("err_deal")
  /\ Close(m_fd) /\ RunsOn("reopen")
  /\ UNCHANGED <<m_fd, disturbed, conn_fd, m_state, flags, errno, sock, timers, ends>>

reopen ==
  /\ CoroutineAt("reopen")
  /\ Socket /\ RunsOn("return")
  /\ result' = IF is_timeout THEN "timeout" ELSE "closed"
  /\ m_is_over_time' = (m_is_over_time /\ ~is_timeout)
  /\ UNCHANGED <<disturbed, conn_fd, m_state, is_timeout, errno, timers, told>>

(* The reply may hold an error or not parse.  ~TcpClient closes m_fd, and  *)
(* the coroutine ends.                                                     *)
Return ==
  /\ CoroutineAt("return")
  /\ Close(m_fd) /\ RunsOn("done")
  /\ told' \in CASE result = "ok" -> {"closure", "error"}
                  [] result = "unserialized" -> {"nothing"}
                  [] OTHER -> {"error"}
  /\ UNCHANGED <<m_fd, disturbed, conn_fd, m_state, flags, errno, sock, timers, result>>

-----------------------------------------------------------------------------
CoroutineSteps ==
  \/ CallMethod \/ connect_hook \/ connect_back \/ resetFd \/ output \/ write_back
  \/ input \/ read_back \/ err_deal \/ reopen \/ Return

LoopSteps(t) ==
  epoll_wait(t) \/ TakeFd(t) \/ TakeTimer(t) \/ RunTask(t) \/ ResumeFirst(t) \/ Steal(t)

Next ==
  \/ CoroutineSteps
  \/ \E t \in Threads : LoopSteps(t)
  \/ RpcTimeIsUp \/ ConTimeIsUp
  \/ PeerAccepts \/ PeerRefuses \/ PeerReplies \/ PeerCloses
  \/ OtherOpens \/ OtherCloses

Spec == Init /\ [][Next]_vars

-----------------------------------------------------------------------------
(* "connect error should close fd and reopen new one" (tcp_client.cpp:156): *)
(* unless others open or close some during the call, it closes and uses its  *)
(* own descriptor only, through every connect that fails.                  *)
UsesItsOwn ==
  disturbed = 0 =>
    /\ ~stolen
    /\ waiting # None => open[waiting] = "ours"
    /\ pc \notin {"create", "reset", "reopen", "return", "done"} => conn_fd = m_fd

(* When the call has returned it keeps no descriptor, its FdEvent no       *)
(* coroutine, and its timer has run or is deleted, unless a stale wakeup   *)
(* made it return early.                                                   *)
NothingLeft ==
  pc = "done" /\ ~aborted =>
    /\ \A f \in Fds : open[f] # "ours"
    /\ waiting = None
    /\ rpc_event \in Pending => result = "closed"

(* What the caller learns is so: a reply came, the time was over, or the   *)
(* peer refused; and it learns of every outcome but a request that does    *)
(* not serialise.                                                          *)
OutcomeTruthful ==
  pc = "done" /\ ~aborted =>
    /\ told = "closure" /\ disturbed = 0 => sock = "replied"
    /\ result = "timeout" => rpc_event = "fired"
    /\ result = "ok" => rpc_event # "fired"
    /\ told = "nothing" => result = "unserialized"

(* "call rpc failed, over ... ms" (tcp_client.cpp:162): a call that waits,   *)
(* for the peer or for nothing, has its timer still to come, unless the    *)
(* deletion of a connect timer has erased it.  No other event ends the     *)
(* wait for a silent peer.                                                 *)
WaitsWithTimer == pc \in Waits => rpc_event \in Pending \cup {"collected", "erased"}

(* "ZRPC_ASSERT(m_cor_state != RUNNING && m_cor_state != TERM ...)"        *)
(* (coroutine.cpp:232): a coroutine that runs or has ended is not resumed. *)
ResumesOnlyReady == ~aborted
=============================================================================
