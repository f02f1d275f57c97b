------------------------------ MODULE TcpServer ------------------------------
(***************************************************************************)
(* The life of the connections of one server: the main thread accepts them *)
(* (tcp_server.cpp), puts them on the time wheel and collects the closed   *)
(* ones; each connection's coroutine (TcpConnection::MainServerLoopCorFunc)*)
(* runs on an IO thread on a stack of the coroutine pool and closes the    *)
(* connection itself when a read returns nothing.                          *)
(*                                                                         *)
(* Descriptors and stacks are reused, the lowest free one first.  The      *)
(* wheel turns when its timer event runs.  The constructor does not add    *)
(* that event (tcp_connect_timer_wheel.cpp:25): WheelTurns = FALSE is that *)
(* code, TRUE lets the wheel turn or not.  Coroutines of the pool are      *)
(* taken to be resumable, which coroutine.cpp:232 denies: Startup and      *)
(* AsyncChannel model that assertion.                                      *)
(***************************************************************************)
EXTENDS Integers, Sequences, FiniteSets, FiniteSetsExt

CONSTANTS
  MaxConns,        (* bound: connections; they are numbered as accepted      *)
  Fds,             (* descriptors, small numbers                             *)
  m_size,          (* IO threads                                             *)
  m_bucket_count,  (* buckets of the time wheel                              *)
  WheelTurns,
  MaxTasks         (* bound: tasks in the main reactor                       *)

Conns   == 1 .. MaxConns
None    == 0
Threads == 0 .. m_size - 1
Stacks  == 1 .. MaxConns

ServerAssumption ==
  /\ MaxConns \in Nat /\ Fds \subseteq Nat /\ Fds # {} /\ IsFiniteSet(Fds)
  /\ m_size \in Nat \ {0} /\ m_bucket_count \in Nat \ {0}
  /\ WheelTurns \in BOOLEAN /\ MaxTasks \in Nat

ASSUME ServerAssumption

VARIABLES
  open,                         \* whose socket a descriptor is
  accepted, accepting,          \* connections so far; the accept coroutine runs
  m_clients, m_index,
  m_wheel, m_tasks,             \* the wheel; slots that tasks will freshen
  main_pc, dying, looking,      \* the main thread, and its callbacks' locals
  m_fd, m_state, io_thread, stack, destroyed,
  cor_pc,      \* where a connection's coroutine is
  idle         \* history: turns of the wheel since a connection was fresh

server == <<accepted, accepting, m_clients, m_index>>
wheel  == <<m_wheel, m_tasks, idle>>
main   == <<main_pc, dying, looking>>
conn   == <<m_fd, io_thread, stack>>
vars   == <<open, server, wheel, main, conn, m_state, destroyed, cor_pc>>

(* The coroutine runs or will run; Closing: it has given its descriptor    *)
(* back and is on its way to the yield that it does not return from.       *)
Serving == {"posted", "input", "clear"}
Closing == {"set_closed", "yield"}

TypeOK ==
  /\ open \in [Fds -> Conns \cup {None}]
  /\ accepted \in 0 .. MaxConns /\ accepting \in BOOLEAN
  /\ m_clients \in [Fds -> Conns \cup {None}] /\ m_index \in -1 .. m_size
  /\ m_wheel \in [1 .. m_bucket_count -> SUBSET Conns] /\ m_tasks \in Seq(Conns)
  /\ main_pc \in {"loop", "slots", "shutdown", "clear"}
  /\ dying \in SUBSET Conns /\ looking \in SUBSET Fds
  /\ m_fd \in [Conns -> Fds \cup {-1}]
  /\ m_state \in [Conns -> {"NotConnected", "Connected", "HalfClosing", "Closed"}]
  /\ io_thread \in [Conns -> Threads \cup {-1}] /\ stack \in [Conns -> Stacks \cup {None}]
  /\ destroyed \in [Conns -> BOOLEAN]
  /\ cor_pc \in [Conns -> {"none", "yielded"} \cup Serving \cup Closing]
  /\ idle \in [Conns -> 0 .. m_bucket_count]

(* The wheel's constructor: empty buckets.                                 *)
EmptyWheel == [i \in 1 .. m_bucket_count |-> {}]

Init ==
  /\ open = [f \in Fds |-> None]
  /\ accepted = 0 /\ accepting = TRUE
  /\ m_clients = [f \in Fds |-> None] /\ m_index = -1
  /\ m_wheel = EmptyWheel /\ m_tasks = <<>>
  /\ main_pc = "loop" /\ dying = {} /\ looking = {}
  /\ m_fd = [c \in Conns |-> -1] /\ m_state = [c \in Conns |-> "NotConnected"]
  /\ io_thread = [c \in Conns |-> -1] /\ stack = [c \in Conns |-> None]
  /\ destroyed = [c \in Conns |-> FALSE]
  /\ cor_pc = [c \in Conns |-> "none"]
  /\ idle = [c \in Conns |-> 0]

-----------------------------------------------------------------------------
(* The main thread *)

getIOThread == IF m_index \in {-1, m_size} THEN 0 ELSE m_index

(* Mutant: as many blocks are taken as there are connections.              *)
getCoroutineInstanceNext(holders) == Cardinality(holders) + 1

(* The pool gives a new coroutine the first block that no connection has.  *)
getCoroutineInstance(holders) == Min(Stacks \ {stack[c] : c \in holders})

Holders == {c \in Conns : stack[c] # None /\ ~destroyed[c]}

(* Mutant: the descriptor is taken to be the new one's already: it is      *)
(* closed with the old connection.                                         *)
ReplaceCloses(fd, c) ==
  /\ open' = [open EXCEPT ![fd] = IF m_clients[fd] = None THEN c ELSE None]
  /\ destroyed' = IF m_clients[fd] = None THEN destroyed
                  ELSE [destroyed EXCEPT ![m_clients[fd]] = TRUE]

(* The connection that had this descriptor before is destroyed.            *)
Replace(fd, c) ==
  /\ open' = [open EXCEPT ![fd] = c]
  /\ destroyed' = IF m_clients[fd] = None THEN destroyed
                  ELSE [destroyed EXCEPT ![m_clients[fd]] = TRUE]

(* TcpConnection's constructor.                                            *)
NewConnection(c, fd) ==
  /\ m_fd' = [m_fd EXCEPT ![c] = fd]
  /\ stack' = [stack EXCEPT ![c] = getCoroutineInstance(Holders \ {m_clients[fd]})]
  /\ m_state' = [m_state EXCEPT ![c] = "Connected"]

(* initServer posts the task that puts the new slot on the wheel.          *)
registerToTimeWheel(c) ==
  /\ Len(m_tasks) < MaxTasks
  /\ m_tasks' = Append(m_tasks, c)

(* One round of MainAcceptCorFunc.                                         *)
Accept ==
  /\ main_pc = "loop" /\ accepting /\ accepted < MaxConns
  /\ \E f \in Fds : open[f] = None
  /\ LET c  == accepted + 1
         fd == Min({f \in Fds : open[f] = None})
     IN  /\ accepted' = c
         /\ Replace(fd, c)
         /\ m_clients' = [m_clients EXCEPT ![fd] = c]
         /\ NewConnection(c, fd)
         /\ registerToTimeWheel(c)
         /\ io_thread' = [io_thread EXCEPT ![c] = getIOThread]
         /\ m_index' = getIOThread + 1
         /\ cor_pc' = [cor_pc EXCEPT ![c] = "posted"]
  /\ UNCHANGED <<accepting, m_wheel, idle, main>>

(* accept() fails: the coroutine yields, and as nothing listens on the     *)
(* socket any more nobody resumes it.                                      *)
AcceptFails ==
  /\ main_pc = "loop" /\ accepting /\ accepting' = FALSE
  /\ UNCHANGED <<open, accepted, m_clients, m_index, wheel, main, conn, m_state,
                 destroyed, cor_pc>>

(* Mutant: the slot goes to the bucket that is popped next.                *)
freshFront(c) ==
  /\ m_wheel' = [m_wheel EXCEPT ![1] = @ \cup {c}]
  /\ idle' = [idle EXCEPT ![c] = 0]

fresh(c) ==
  /\ m_wheel' = [m_wheel EXCEPT ![m_bucket_count] = @ \cup {c}]
  /\ idle' = [idle EXCEPT ![c] = 0]

RunTask ==
  /\ main_pc = "loop" /\ m_tasks # <<>>
  /\ fresh(Head(m_tasks))
  /\ m_tasks' = Tail(m_tasks)
  /\ UNCHANGED <<open, server, main, conn, m_state, destroyed, cor_pc>>

(* A slot lives while a bucket or a task holds it.                         *)
Elems(s) == {s[i] : i \in DOMAIN s}
Held(buckets) == UNION {buckets[i] : i \in DOMAIN buckets} \cup Elems(m_tasks)

(* The slots that die with the bucket call their connections back.         *)
Dying(bucket, buckets) == bucket \ Held(buckets)

loopFunc ==
  /\ WheelTurns /\ main_pc = "loop"
  /\ m_wheel' = [i \in 1 .. m_bucket_count |->
                   IF i = m_bucket_count THEN {} ELSE m_wheel[i + 1]]
  /\ dying' = Dying(m_wheel[1], m_wheel')
  /\ main_pc' = IF dying' = {} THEN "loop" ELSE "slots"
  /\ idle' = [c \in Conns |-> IF idle[c] = m_bucket_count THEN idle[c] ELSE idle[c] + 1]
  /\ UNCHANGED <<open, server, m_tasks, looking, conn, m_state, destroyed, cor_pc>>

(* shutdownConnection looks at the state ...                               *)
SlotDies(c) ==
  /\ main_pc = "slots" /\ c \in dying
  /\ IF destroyed[c] \/ m_state[c] \in {"Closed", "NotConnected"}
     THEN /\ dying' = dying \ {c}
          /\ main_pc' = IF dying' = {} THEN "loop" ELSE "slots"
     ELSE /\ dying' = {c} \cup {d \in dying : d > c}
          /\ main_pc' = "shutdown"
  /\ \A d \in dying : c <= d
  /\ UNCHANGED <<open, server, wheel, looking, conn, m_state, destroyed, cor_pc>>

(* ... and then sets it and calls shutdown().                              *)
shutdownConnection(c) ==
  /\ main_pc = "shutdown" /\ c = Min(dying)
  /\ m_state' = [m_state EXCEPT ![c] = "HalfClosing"]
  /\ dying' = dying \ {c}
  /\ main_pc' = IF dying' = {} THEN "loop" ELSE "slots"
  /\ UNCHANGED <<open, server, wheel, looking, conn, destroyed, cor_pc>>

(* ClearClientTimerFunc looks at the clients one after the other.          *)
ClearClientTimerFunc ==
  /\ main_pc = "loop" /\ main_pc' = "clear"
  /\ looking' = Fds
  /\ UNCHANGED <<open, server, wheel, dying, conn, m_state, destroyed, cor_pc>>

(* Mutant: connections that are being shut down are collected too.         *)
CollectibleHalf(c) == c # None /\ m_state[c] \in {"Closed", "HalfClosing"}

Collectible(c) == c # None /\ m_state[c] = "Closed"

(* Mutant: the walk ends at the first descriptor without a client.         *)
ClearClientBreaks ==
  /\ main_pc = "clear"
  /\ LET fd == Min(looking)
         c  == m_clients[fd]
     IN  /\ IF Collectible(c)
            THEN /\ m_clients' = [m_clients EXCEPT ![fd] = None]
                 /\ destroyed' = [destroyed EXCEPT ![c] = TRUE]
            ELSE UNCHANGED <<m_clients, destroyed>>
         /\ looking' = IF c = None THEN {} ELSE looking \ {fd}
         /\ main_pc' = IF looking' = {} THEN "loop" ELSE "clear"
  /\ UNCHANGED <<open, accepted, accepting, m_index, wheel, dying, conn, m_state, cor_pc>>

ClearClient ==
  /\ main_pc = "clear"
  /\ LET fd == Min(looking)
         c  == m_clients[fd]
     IN  /\ IF Collectible(c)
            THEN /\ m_clients' = [m_clients EXCEPT ![fd] = None]
                 /\ destroyed' = [destroyed EXCEPT ![c] = TRUE]
            ELSE UNCHANGED <<m_clients, destroyed>>
         /\ looking' = looking \ {fd}
         /\ main_pc' = IF looking' = {} THEN "loop" ELSE "clear"
  /\ UNCHANGED <<open, accepted, accepting, m_index, wheel, dying, conn, m_state, cor_pc>>

-----------------------------------------------------------------------------
(* The connection's coroutine.  What it does after its connection has been *)
(* destroyed is undefined and not followed.                                *)

Goto(c, from, to) ==
  /\ cor_pc[c] = from /\ ~destroyed[c]
  /\ cor_pc' = [cor_pc EXCEPT ![c] = to]

Start(c) ==
  /\ Goto(c, "posted", "input")
  /\ UNCHANGED <<open, server, wheel, main, conn, m_state, destroyed>>

(* m_weak_slot.lock() fails when the slot is dead.                         *)
freshTcpConnection(c) ==
  IF c \in Held(m_wheel) THEN /\ Len(m_tasks) < MaxTasks
                              /\ m_tasks' = Append(m_tasks, c)
  ELSE UNCHANGED m_tasks

(* One round of MainServerLoopCorFunc in which the read returns bytes:     *)
(* input(), execute() and output().                                        *)
input(c) ==
  /\ Goto(c, "input", "input")
  /\ freshTcpConnection(c)
  /\ UNCHANGED <<open, server, m_wheel, idle, main, conn, m_state, destroyed>>

(* The read returns nothing: the peer closed, the socket is shut down, or  *)
(* TcpBuffer offered no room.                                              *)
inputEmpty(c) ==
  /\ Goto(c, "input", "clear")
  /\ UNCHANGED <<open, server, wheel, main, conn, m_state, destroyed>>

(* clearClient: the descriptor is closed, then the state is set, and       *)
(* input() yields.                                                         *)
clearClient(c) ==
  /\ Goto(c, "clear", "set_closed")
  /\ open' = [open EXCEPT ![m_fd[c]] = None]
  /\ UNCHANGED <<server, wheel, main, conn, m_state, destroyed>>

setStateClosed(c) ==
  /\ Goto(c, "set_closed", "yield")
  /\ m_state' = [m_state EXCEPT ![c] = "Closed"]
  /\ UNCHANGED <<open, server, wheel, main, conn, destroyed>>

yield(c) ==
  /\ Goto(c, "yield", "yielded")
  /\ UNCHANGED <<open, server, wheel, main, conn, m_state, destroyed>>

-----------------------------------------------------------------------------
CoroutineSteps(c) == Start(c) \/ clearClient(c) \/ setStateClosed(c) \/ yield(c)

MainCallbacks == RunTask \/ ClearClient \/ \E c \in Conns : SlotDies(c) \/ shutdownConnection(c)

MainSteps ==
  Accept \/ AcceptFails \/ loopFunc \/ ClearClientTimerFunc \/ MainCallbacks

Next == MainSteps \/ \E c \in Conns : CoroutineSteps(c) \/ input(c) \/ inputEmpty(c)

Spec == Init /\ [][Next]_vars

(* The main thread finishes a callback, and its 10 s timer, which is added *)
(* as repeated, runs again and again.                                      *)
FairSpec == Spec /\ WF_vars(MainCallbacks) /\ SF_vars(ClearClientTimerFunc)

-----------------------------------------------------------------------------
(* A connection is destroyed only after its coroutine has given back its   *)
(* descriptor: neither the timer that collects the closed connections nor  *)
(* an accept that gets a used descriptor takes a connection away from a    *)
(* coroutine that reads, dispatches or still has to start.                 *)
DestroyedOnceClosed == \A c \in Conns : destroyed[c] => cor_pc[c] \notin Serving

(* Two coroutines that run or will run share no stack, unless one belongs  *)
(* to a connection that was destroyed on its way to its last yield.        *)
OwnStack ==
  \A c, d \in Conns :
    /\ c # d /\ cor_pc[c] \in Serving \cup Closing /\ cor_pc[d] \in Serving \cup Closing
    /\ ~destroyed[c] /\ ~destroyed[d]
    => stack[c] # stack[d]

(* A connection's descriptor is its own socket until it closes it: no      *)
(* connection closes another one's, or reads from it, when descriptors     *)
(* are reused.                                                             *)
OwnDescriptor ==
  \A c \in Conns : cor_pc[c] \in Serving => open[m_fd[c]] = c /\ m_clients[m_fd[c]] = c

(* "when tcp connect be used, push it to the back of wheel"                *)
(* (tcp_connect_timer_wheel.cpp:32): a connection is shut down only after  *)
(* the wheel has gone round since its last use.                            *)
ShutOnlyWhenIdle ==
  [][\A c \in Conns : m_state[c] = "Connected" /\ m_state'[c] = "HalfClosing"
                        => idle[c] = m_bucket_count]_vars

(* "delete Closed TcpConnection per loop" (tcp_server.cpp:250): a connection*)
(* whose coroutine has ended is destroyed at last, unless shutdownConnection*)
(* has overwritten its state meanwhile.                                    *)
ClosedAreCollected ==
  \A c \in Conns : cor_pc[c] = "yielded" ~> (destroyed[c] \/ m_state[c] = "HalfClosing")

=============================================================================
