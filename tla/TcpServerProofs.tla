--------------------------- MODULE TcpServerProofs ---------------------------
(***************************************************************************)
(* The safety properties of TcpServer for any number of connections,       *)
(* descriptors, IO threads and buckets.                                    *)
(***************************************************************************)
EXTENDS TcpServer, FiniteSetTheorems, WellFoundedInduction, TLAPS

(* A connection that has not been accepted is nowhere, one that has been   *)
(* accepted has a coroutine and a stack.                                   *)
Accepted ==
  \A c \in Conns :
    /\ cor_pc[c] = "none" <=> accepted < c
    /\ stack[c] = None <=> accepted < c
    /\ m_fd[c] = -1 <=> accepted < c
    /\ accepted < c => ~destroyed[c]

(* m_clients holds a connection under its own descriptor until the moment  *)
(* it is destroyed.                                                        *)
Clients ==
  \A f \in Fds : m_clients[f] # None =>
    m_fd[m_clients[f]] = f /\ ~destroyed[m_clients[f]] /\ m_clients[f] <= accepted

(* Only a coroutine on its way out says that its connection is closed.     *)
ClosedLate == \A c \in Conns : m_state[c] = "Closed" => cor_pc[c] \notin Serving

(* The stacks of the connections that are left are distinct.               *)
Stacked ==
  \A c, d \in Conns : c # d /\ stack[c] # None /\ ~destroyed[c] /\ ~destroyed[d]
                        => stack[c] # stack[d]

(* A callback of the main thread has something left to look at.            *)
Callbacks ==
  /\ main_pc \in {"slots", "shutdown"} <=> dying # {}
  /\ main_pc = "clear" <=> looking # {}

(* A connection's newest slot is as far from the back as the wheel has     *)
(* turned since; the older ones are ahead of it.                           *)
Turned ==
  \A c \in Conns, i \in 1 .. m_bucket_count :
    c \in m_wheel[i] => /\ i + idle[c] <= m_bucket_count
                        /\ c \in m_wheel[m_bucket_count - idle[c]]

(* A slot dies when the wheel has gone round since it was put on it.       *)
DyingIdle == \A c \in dying : idle[c] = m_bucket_count

IInv == TypeOK /\ DestroyedOnceClosed /\ OwnDescriptor /\ Accepted /\ Clients /\ ClosedLate
          /\ Stacked /\ Callbacks /\ Turned /\ DyingIdle

USE DEF Conns, Threads, Stacks, None

-----------------------------------------------------------------------------
LEMMA LeastNatural ==
  ASSUME NEW S \in SUBSET Nat, S # {}
  PROVE  Min(S) \in S
<1>1. PICK m \in S : \A n \in S : ~(<<n, m>> \in OpToRel(<, Nat))
  BY WFMin, NatLessThanWellFounded
<1>2. \A n \in S : ~(n < m)
  BY <1>1 DEF OpToRel
<1>3. \A n \in S : m <= n
  BY <1>2
<1> QED
  BY <1>3 DEF Min

LEMMA Between ==
  ASSUME NEW n \in Nat, NEW k \in 0 .. n, 1 + k <= n, k # n - 1
  PROVE  n - k - 1 \in 1 .. n - 1 /\ n - k - 1 + 1 = n - k
OBVIOUS

(* There is a stack for the next connection: fewer have one.               *)
LEMMA StackLeft ==
  ASSUME ServerAssumption, TypeOK, Accepted, accepted < MaxConns,
         NEW H \in SUBSET Conns, \A c \in H : stack[c] # None
  PROVE  Stacks \ {stack[c] : c \in H} # {}
<1> SUFFICES ASSUME \A s \in Stacks : \E c \in H : stack[c] = s PROVE FALSE
  OBVIOUS
<1> DEFINE Old == 1 .. accepted
           f   == [s \in Stacks |-> CHOOSE c \in Old : stack[c] = s]
<1>1. \A s \in Stacks : \E c \in Old : stack[c] = s
  BY DEF Accepted, TypeOK
<1>2. f \in [Stacks -> Old] /\ \A s \in Stacks : stack[f[s]] = s
  BY <1>1
<1>3. /\ IsFiniteSet(Old) /\ IsFiniteSet(Stacks)
      /\ Cardinality(Old) < Cardinality(Stacks)
  <2>1. MaxConns \in Int /\ accepted \in Int /\ 1 \in Int /\ 0 <= accepted
    BY DEF ServerAssumption, TypeOK
  <2>2. Cardinality(Old) = accepted /\ Cardinality(Stacks) = MaxConns
    BY <2>1, FS_Interval
  <2> QED
    BY <2>1, <2>2, FS_Interval
<1>4. PICK s, r \in Stacks : s # r /\ f[s] = f[r]
  <2> HIDE DEF f, Old
  <2> QED
    BY ZenonT(30), <1>2, <1>3, FS_PigeonHole
<1> QED
  BY <1>2, <1>4

LEMMA InitInv == ServerAssumption /\ Init => IInv
<1> SUFFICES ASSUME ServerAssumption, Init PROVE IInv
  OBVIOUS
<1> USE DEF ServerAssumption, Init
<1>1. TypeOK
  BY DEF TypeOK, EmptyWheel
<1>2. DestroyedOnceClosed /\ OwnDescriptor /\ Stacked
  BY DEF DestroyedOnceClosed, OwnDescriptor, Stacked, Serving
<1>3. Accepted /\ Clients /\ ClosedLate
  BY DEF Accepted, Clients, ClosedLate
<1>4. Callbacks /\ Turned /\ DyingIdle
  BY DEF Callbacks, Turned, DyingIdle, EmptyWheel
<1> QED
  BY <1>1, <1>2, <1>3, <1>4 DEF IInv

LEMMA AcceptInv ==
  ASSUME ServerAssumption, IInv, Accept
  PROVE  IInv'
<1> USE DEF ServerAssumption, IInv, TypeOK, server, wheel, main, conn
<1> DEFINE c  == accepted + 1
           fd == Min({f \in Fds : open[f] = None})
           s  == getCoroutineInstance(Holders \ {m_clients[fd]})
<1>a. c \in Conns /\ c = accepted + 1 /\ accepted < MaxConns
  BY DEF Accept
<1>b. fd \in Fds /\ open[fd] = None
  <2> DEFINE Free == {f \in Fds : open[f] = None}
  <2>1. Free \in SUBSET Nat /\ Free # {}
    BY DEF Accept
  <2>2. Min(Free) \in Free
    BY <2>1, LeastNatural
  <2> QED
    BY <2>2
<1>c. s \in Stacks /\ \A d \in Conns : d \in Holders \ {m_clients[fd]} => stack[d] # s
  <2> DEFINE H == Holders \ {m_clients[fd]}
  <2>1. H \in SUBSET Conns /\ \A d \in H : stack[d] # None
    BY DEF Holders
  <2>2. Stacks \ {stack[d] : d \in H} # {}
    BY <1>a, <2>1, StackLeft
  <2>3. s = Min(Stacks \ {stack[d] : d \in H})
    BY DEF getCoroutineInstance
  <2>4. s \in Stacks \ {stack[d] : d \in H}
    <3> DEFINE Free == Stacks \ {stack[d] : d \in H}
    <3>1. Free \in SUBSET Nat
      BY DEF ServerAssumption
    <3>2. Free # {}
      BY <2>2
    <3>3. Min(Free) \in Free
      <4> HIDE DEF Free
      <4> QED
        BY <3>1, <3>2, LeastNatural
    <3> QED
      BY <2>3, <3>3
  <2> QED
    BY <2>4
<1>d. /\ accepted' = c /\ main_pc = "loop"
      /\ open' = [open EXCEPT ![fd] = c] /\ m_clients' = [m_clients EXCEPT ![fd] = c]
      /\ m_fd' = [m_fd EXCEPT ![c] = fd] /\ stack' = [stack EXCEPT ![c] = s]
      /\ m_state' = [m_state EXCEPT ![c] = "Connected"]
      /\ cor_pc' = [cor_pc EXCEPT ![c] = "posted"]
      /\ UNCHANGED <<accepting, m_wheel, idle, main>>
  BY DEF Accept, Replace, NewConnection
<1>e. /\ m_tasks' \in Seq(Conns) /\ m_index' \in -1 .. m_size
      /\ io_thread' \in [Conns -> Threads \cup {-1}]
  BY <1>a DEF Accept, registerToTimeWheel, getIOThread
<1>f. /\ destroyed' \in [Conns -> BOOLEAN]
      /\ \A d \in Conns : destroyed'[d] <=> destroyed[d] \/ d = m_clients[fd]
  <2>1. CASE m_clients[fd] = None
    BY <2>1 DEF Accept, Replace
  <2>2. CASE m_clients[fd] # None
    <3>1. m_clients[fd] \in Conns /\ destroyed' = [destroyed EXCEPT ![m_clients[fd]] = TRUE]
      BY <1>b, <2>2 DEF Accept, Replace
    <3> QED
      BY <3>1
  <2> QED
    BY <2>1, <2>2
<1>g. /\ m_clients[fd] \in Conns \cup {None}
      /\ m_clients[fd] # None => /\ m_fd[m_clients[fd]] = fd /\ m_clients[fd] <= accepted
                                 /\ cor_pc[m_clients[fd]] \notin Serving
  <2>1. m_clients[fd] \in Conns \cup {None}
    BY <1>b
  <2>2. m_clients[fd] # None => m_fd[m_clients[fd]] = fd /\ m_clients[fd] <= accepted
    BY <1>b DEF Clients
  <2>3. m_clients[fd] # None => open[m_fd[m_clients[fd]]] # m_clients[fd]
    BY <1>b, <2>1, <2>2
  <2> QED
    BY <2>1, <2>2, <2>3 DEF OwnDescriptor
<1> HIDE DEF c, fd, s
<1>1. TypeOK'
  <2>1. /\ open' \in [Fds -> Conns \cup {None}] /\ m_clients' \in [Fds -> Conns \cup {None}]
        /\ accepted' \in 0 .. MaxConns
    BY <1>a, <1>b, <1>d
  <2>2. /\ m_fd' \in [Conns -> Fds \cup {-1}] /\ stack' \in [Conns -> Stacks \cup {None}]
        /\ m_state' \in [Conns -> {"NotConnected", "Connected", "HalfClosing", "Closed"}]
    BY <1>a, <1>b, <1>c, <1>d
  <2>3. cor_pc' \in [Conns -> {"none", "yielded"} \cup Serving \cup Closing]
    BY <1>a, <1>d DEF Serving
  <2> QED
    BY <1>d, <1>e, <1>f, <2>1, <2>2, <2>3
<1>2. DestroyedOnceClosed'
  BY <1>a, <1>d, <1>f, <1>g DEF DestroyedOnceClosed, Accepted
<1>3. OwnDescriptor'
  BY SMTT(30), <1>a, <1>b, <1>c, <1>d, <1>e, <1>f, <1>g DEF OwnDescriptor, DestroyedOnceClosed, ClosedLate, Clients, Serving, Closing
<1>4. Accepted'
  BY <1>a, <1>b, <1>c, <1>d, <1>e, <1>f, <1>g DEF Accepted, Clients
<1>5. Clients'
  <2> SUFFICES ASSUME NEW f \in Fds, m_clients'[f] # None
             PROVE  /\ m_fd'[m_clients'[f]] = f /\ ~destroyed'[m_clients'[f]]
                    /\ m_clients'[f] <= accepted'
    BY DEF Clients
  <2>1. CASE f = fd
    BY <2>1, <1>a, <1>b, <1>d, <1>f, <1>g DEF Accepted
  <2>2. CASE f # fd
    <3>1. m_clients'[f] = m_clients[f] /\ m_clients[f] \in Conns
      BY <2>2, <1>d
    <3>2. m_fd[m_clients[f]] = f /\ ~destroyed[m_clients[f]] /\ m_clients[f] <= accepted
      BY <3>1 DEF Clients
    <3> QED
      BY <2>2, <3>1, <3>2, <1>a, <1>d, <1>f, <1>g
  <2> QED
    BY <2>1, <2>2
<1>6. ClosedLate'
  BY <1>a, <1>b, <1>c, <1>d, <1>e, <1>f, <1>g DEF ClosedLate, Serving, Closing
<1>7. Stacked'
  BY SMTT(30), <1>a, <1>b, <1>c, <1>d, <1>e, <1>f, <1>g DEF Stacked, Accepted, Holders
<1>8. Callbacks'
  BY <1>a, <1>b, <1>c, <1>d, <1>e, <1>f, <1>g DEF Callbacks
<1>9. Turned'
  BY <1>a, <1>b, <1>c, <1>d, <1>e, <1>f, <1>g DEF Turned
<1>10. DyingIdle'
  BY <1>a, <1>b, <1>c, <1>d, <1>e, <1>f, <1>g DEF DyingIdle, Callbacks
<1> QED
  BY <1>1, <1>2, <1>3, <1>4, <1>5, <1>6, <1>7, <1>8, <1>9, <1>10

LEMMA AcceptFailsInv ==
  ASSUME ServerAssumption, IInv, AcceptFails
  PROVE  IInv'
<1> USE DEF ServerAssumption, IInv, TypeOK, server, wheel, main, conn
<1> USE DEF AcceptFails
<1>1. TypeOK'
  BY DEF Serving, Closing
<1>2. DestroyedOnceClosed'
  BY DEF DestroyedOnceClosed, OwnDescriptor, Clients, ClosedLate, Serving, Closing
<1>3. OwnDescriptor'
  BY DEF OwnDescriptor, DestroyedOnceClosed, ClosedLate, Clients, Serving, Closing
<1>4. Accepted'
  BY DEF Accepted, Clients
<1>5. Clients'
  BY DEF Clients, Accepted
<1>6. ClosedLate'
  BY DEF ClosedLate, Serving, Closing
<1>7. Stacked'
  BY DEF Stacked
<1>8. Callbacks'
  BY DEF Callbacks
<1>9. Turned'
  BY DEF Turned
<1>10. DyingIdle'
  BY DEF DyingIdle, Callbacks
<1> QED
  BY <1>1, <1>2, <1>3, <1>4, <1>5, <1>6, <1>7, <1>8, <1>9, <1>10

LEMMA RunTaskInv ==
  ASSUME ServerAssumption, IInv, RunTask
  PROVE  IInv'
<1> USE DEF ServerAssumption, IInv, TypeOK, server, wheel, main, conn
<1> USE DEF RunTask, fresh
<1>1. TypeOK'
  <2>1. Head(m_tasks) \in Conns /\ Tail(m_tasks) \in Seq(Conns)
    OBVIOUS
  <2>2. m_wheel' \in [1 .. m_bucket_count -> SUBSET Conns]
    BY <2>1
  <2>3. idle' \in [Conns -> 0 .. m_bucket_count]
    BY <2>1
  <2> QED
    BY <2>1, <2>2, <2>3 DEF Serving, Closing
<1>2. DestroyedOnceClosed'
  BY DEF DestroyedOnceClosed, OwnDescriptor, Clients, ClosedLate, Serving, Closing
<1>3. OwnDescriptor'
  BY DEF OwnDescriptor, DestroyedOnceClosed, ClosedLate, Clients, Serving, Closing
<1>4. Accepted'
  BY DEF Accepted, Clients
<1>5. Clients'
  BY DEF Clients, Accepted
<1>6. ClosedLate'
  BY DEF ClosedLate, Serving, Closing
<1>7. Stacked'
  BY DEF Stacked
<1>8. Callbacks'
  BY DEF Callbacks
<1>9. Turned'
  BY DEF Turned
<1>10. DyingIdle'
  BY DEF DyingIdle, Callbacks
<1> QED
  BY <1>1, <1>2, <1>3, <1>4, <1>5, <1>6, <1>7, <1>8, <1>9, <1>10

LEMMA LoopFuncInv ==
  ASSUME ServerAssumption, IInv, loopFunc
  PROVE  IInv'
<1> USE DEF ServerAssumption, IInv, TypeOK, server, wheel, main, conn
<1> USE DEF loopFunc
<1>1. TypeOK'
  <2>1. m_wheel' \in [1 .. m_bucket_count -> SUBSET Conns]
    OBVIOUS
  <2>2. dying' \in SUBSET Conns
    <3>1. m_wheel[1] \in SUBSET Conns /\ dying' \subseteq m_wheel[1]
      BY DEF Dying
    <3> QED
      BY <3>1
  <2>3. idle' \in [Conns -> 0 .. m_bucket_count]
    OBVIOUS
  <2>4. main_pc' \in {"loop", "slots"}
    OBVIOUS
  <2> QED
    BY <2>1, <2>2, <2>3, <2>4 DEF Serving, Closing
<1>2. DestroyedOnceClosed'
  BY DEF DestroyedOnceClosed, OwnDescriptor, Clients, ClosedLate, Serving, Closing
<1>3. OwnDescriptor'
  BY DEF OwnDescriptor, DestroyedOnceClosed, ClosedLate, Clients, Serving, Closing
<1>4. Accepted'
  BY DEF Accepted, Clients
<1>5. Clients'
  BY DEF Clients, Accepted
<1>6. ClosedLate'
  BY DEF ClosedLate, Serving, Closing
<1>7. Stacked'
  BY DEF Stacked
<1>8. Callbacks'
  BY DEF Callbacks
<1>9. Turned'
  <2> SUFFICES ASSUME NEW c \in Conns, NEW i \in 1 .. m_bucket_count, c \in m_wheel'[i]
             PROVE  /\ i + idle'[c] <= m_bucket_count
                    /\ c \in m_wheel'[m_bucket_count - idle'[c]]
    BY DEF Turned
  <2>1. i # m_bucket_count /\ i + 1 \in 1 .. m_bucket_count /\ c \in m_wheel[i + 1]
    OBVIOUS
  <2>2. i + 1 + idle[c] <= m_bucket_count /\ c \in m_wheel[m_bucket_count - idle[c]]
    BY <2>1 DEF Turned
  <2>3. idle[c] \in 0 .. m_bucket_count /\ idle'[c] = idle[c] + 1
    BY <2>2
  <2>4. /\ m_bucket_count - idle'[c] \in 1 .. m_bucket_count - 1
        /\ m_bucket_count - idle'[c] + 1 = m_bucket_count - idle[c]
    BY SMTT(30), <2>2, <2>3
  <2> QED
    BY SMTT(30), <2>2, <2>3, <2>4
<1>10. DyingIdle'
  <2> SUFFICES ASSUME NEW c \in dying' PROVE idle'[c] = m_bucket_count
    BY DEF DyingIdle
  <2>1. c \in m_wheel[1] /\ c \notin Held(m_wheel')
    BY DEF Dying
  <2>2. c \in Conns /\ idle[c] \in 0 .. m_bucket_count
    <3>1. m_wheel[1] \in SUBSET Conns
      OBVIOUS
    <3> QED
      BY <2>1, <3>1
  <2>3. \A i \in 1 .. m_bucket_count : c \notin m_wheel'[i]
    BY <2>1 DEF Held
  <2>4. 1 + idle[c] <= m_bucket_count /\ c \in m_wheel[m_bucket_count - idle[c]]
    BY <2>1, <2>2 DEF Turned
  <2>5. idle[c] = m_bucket_count - 1
    <3>1. SUFFICES ASSUME idle[c] # m_bucket_count - 1 PROVE FALSE
      OBVIOUS
    <3> DEFINE i == m_bucket_count - idle[c] - 1
    <3>2. i \in 1 .. m_bucket_count - 1 /\ i + 1 = m_bucket_count - idle[c]
      BY <2>2, <2>4, <3>1, Between
    <3>3. m_wheel'[i] = m_wheel[i + 1]
      BY <3>2
    <3> QED
      BY SMTT(30), <2>3, <2>4, <3>2, <3>3
  <2> QED
    BY <2>2, <2>5
<1> QED
  BY <1>1, <1>2, <1>3, <1>4, <1>5, <1>6, <1>7, <1>8, <1>9, <1>10

LEMMA SlotDiesInv ==
  ASSUME ServerAssumption, IInv, NEW c \in Conns, SlotDies(c)
  PROVE  IInv'
<1> USE DEF ServerAssumption, IInv, TypeOK, server, wheel, main, conn
<1> USE DEF SlotDies
<1>1. TypeOK'
  BY DEF Serving, Closing
<1>2. DestroyedOnceClosed'
  BY DEF DestroyedOnceClosed, OwnDescriptor, Clients, ClosedLate, Serving, Closing
<1>3. OwnDescriptor'
  BY DEF OwnDescriptor, DestroyedOnceClosed, ClosedLate, Clients, Serving, Closing
<1>4. Accepted'
  BY DEF Accepted, Clients
<1>5. Clients'
  BY DEF Clients, Accepted
<1>6. ClosedLate'
  BY DEF ClosedLate, Serving, Closing
<1>7. Stacked'
  BY DEF Stacked
<1>8. Callbacks'
  BY DEF Callbacks
<1>9. Turned'
  BY DEF Turned
<1>10. DyingIdle'
  BY DEF DyingIdle, Callbacks
<1> QED
  BY <1>1, <1>2, <1>3, <1>4, <1>5, <1>6, <1>7, <1>8, <1>9, <1>10

LEMMA ShutdownConnectionInv ==
  ASSUME ServerAssumption, IInv, NEW c \in Conns, shutdownConnection(c)
  PROVE  IInv'
<1> USE DEF ServerAssumption, IInv, TypeOK, server, wheel, main, conn
<1> USE DEF shutdownConnection
<1>1. TypeOK'
  BY DEF Serving, Closing
<1>2. DestroyedOnceClosed'
  BY DEF DestroyedOnceClosed, OwnDescriptor, Clients, ClosedLate, Serving, Closing
<1>3. OwnDescriptor'
  BY DEF OwnDescriptor, DestroyedOnceClosed, ClosedLate, Clients, Serving, Closing
<1>4. Accepted'
  BY DEF Accepted, Clients
<1>5. Clients'
  BY DEF Clients, Accepted
<1>6. ClosedLate'
  BY DEF ClosedLate, Serving, Closing
<1>7. Stacked'
  BY DEF Stacked
<1>8. Callbacks'
  BY DEF Callbacks
<1>9. Turned'
  BY DEF Turned
<1>10. DyingIdle'
  BY DEF DyingIdle, Callbacks
<1> QED
  BY <1>1, <1>2, <1>3, <1>4, <1>5, <1>6, <1>7, <1>8, <1>9, <1>10

LEMMA ClearClientTimerFuncInv ==
  ASSUME ServerAssumption, IInv, ClearClientTimerFunc
  PROVE  IInv'
<1> USE DEF ServerAssumption, IInv, TypeOK, server, wheel, main, conn
<1> USE DEF ClearClientTimerFunc
<1>1. TypeOK'
  BY DEF Serving, Closing
<1>2. DestroyedOnceClosed'
  BY DEF DestroyedOnceClosed, OwnDescriptor, Clients, ClosedLate, Serving, Closing
<1>3. OwnDescriptor'
  BY DEF OwnDescriptor, DestroyedOnceClosed, ClosedLate, Clients, Serving, Closing
<1>4. Accepted'
  BY DEF Accepted, Clients
<1>5. Clients'
  BY DEF Clients, Accepted
<1>6. ClosedLate'
  BY DEF ClosedLate, Serving, Closing
<1>7. Stacked'
  BY DEF Stacked
<1>8. Callbacks'
  BY DEF Callbacks
<1>9. Turned'
  BY DEF Turned
<1>10. DyingIdle'
  BY DEF DyingIdle, Callbacks
<1> QED
  BY <1>1, <1>2, <1>3, <1>4, <1>5, <1>6, <1>7, <1>8, <1>9, <1>10

LEMMA ClearClientInv ==
  ASSUME ServerAssumption, IInv, ClearClient
  PROVE  IInv'
<1> USE DEF ServerAssumption, IInv, TypeOK, server, wheel, main, conn
<1>a. Min(looking) \in looking /\ Min(looking) \in Fds
  BY LeastNatural DEF ClearClient, Callbacks
<1> DEFINE c == m_clients[Min(looking)]
<1>b. \/ UNCHANGED <<m_clients, destroyed>>
      \/ /\ c \in Conns /\ m_fd[c] = Min(looking) /\ c <= accepted /\ m_state[c] = "Closed"
         /\ c = m_clients[Min(looking)]
         /\ m_clients' = [m_clients EXCEPT ![Min(looking)] = None]
         /\ destroyed' = [destroyed EXCEPT ![c] = TRUE]
  <2>1. c \in Conns \cup {None}
    BY <1>a
  <2>2. CASE ~Collectible(c)
    BY <2>2 DEF ClearClient
  <2>3. CASE Collectible(c)
    <3>1. c # None /\ m_state[c] = "Closed"
      BY <2>3 DEF Collectible
    <3>2. m_fd[c] = Min(looking) /\ c <= accepted
      BY <1>a, <3>1 DEF Clients
    <3>3. /\ m_clients' = [m_clients EXCEPT ![Min(looking)] = None]
          /\ destroyed' = [destroyed EXCEPT ![c] = TRUE]
      BY <2>3 DEF ClearClient
    <3> QED
      BY <2>1, <3>1, <3>2, <3>3
  <2> QED
    BY <2>2, <2>3
<1>c. looking' = looking \ {Min(looking)}
  BY DEF ClearClient
<1>d. main_pc = "clear" /\ main_pc' = IF looking' = {} THEN "loop" ELSE "clear"
  BY DEF ClearClient
<1>e. UNCHANGED <<open, accepted, accepting, m_index, wheel, dying, conn, m_state, cor_pc>>
  BY DEF ClearClient
<1>f. \A d \in Conns :
        destroyed'[d] => \/ destroyed[d]
                         \/ d <= accepted /\ m_state[d] = "Closed" /\ m_clients'[m_fd[d]] = None
  <2>1. CASE UNCHANGED <<m_clients, destroyed>>
    BY <2>1
  <2>2. CASE /\ c \in Conns /\ m_fd[c] = Min(looking) /\ c <= accepted /\ m_state[c] = "Closed"
              /\ c = m_clients[Min(looking)]
              /\ m_clients' = [m_clients EXCEPT ![Min(looking)] = None]
              /\ destroyed' = [destroyed EXCEPT ![c] = TRUE]
    BY <1>a, <2>2
  <2> QED
    BY <1>b, <2>1, <2>2
<1>g. \A f \in Fds :
        m_clients'[f] # m_clients[f] => /\ m_clients'[f] = None
                                        /\ m_state[m_clients[f]] = "Closed"
  <2>1. CASE UNCHANGED <<m_clients, destroyed>>
    BY <2>1
  <2>2. CASE /\ c \in Conns /\ m_fd[c] = Min(looking) /\ c <= accepted /\ m_state[c] = "Closed"
              /\ c = m_clients[Min(looking)]
              /\ m_clients' = [m_clients EXCEPT ![Min(looking)] = None]
              /\ destroyed' = [destroyed EXCEPT ![c] = TRUE]
    BY <1>a, <2>2
  <2> QED
    BY <1>b, <2>1, <2>2
<1> HIDE DEF c
<1>1. TypeOK'
  BY <1>a, <1>b, <1>c, <1>d, <1>e DEF Serving, Closing
<1>2. DestroyedOnceClosed'
  BY <1>e, <1>f DEF DestroyedOnceClosed, ClosedLate
<1>3. OwnDescriptor'
  <2> SUFFICES ASSUME NEW d \in Conns, cor_pc[d] \in Serving
             PROVE  open[m_fd[d]] = d /\ m_clients'[m_fd[d]] = d
    BY <1>e DEF OwnDescriptor
  <2>1. open[m_fd[d]] = d /\ m_clients[m_fd[d]] = d /\ m_state[d] # "Closed"
    BY DEF OwnDescriptor, ClosedLate
  <2>2. m_fd[d] \in Fds
    BY DEF Accepted, Serving
  <2>3. m_clients'[m_fd[d]] = d
    BY <1>g, <2>1, <2>2
  <2> QED
    BY <2>1, <2>3
<1>4. Accepted'
  BY <1>e, <1>f DEF Accepted
<1>5. Clients'
  <2> SUFFICES ASSUME NEW f \in Fds, m_clients'[f] # None
             PROVE  /\ m_fd[m_clients'[f]] = f /\ ~destroyed'[m_clients'[f]]
                    /\ m_clients'[f] <= accepted
    BY <1>e DEF Clients
  <2>1. m_clients'[f] = m_clients[f] /\ m_clients[f] \in Conns
    BY <1>g
  <2>2. m_fd[m_clients[f]] = f /\ ~destroyed[m_clients[f]] /\ m_clients[f] <= accepted
    BY <2>1 DEF Clients
  <2> QED
    BY <1>f, <2>1, <2>2
<1>6. ClosedLate'
  BY <1>a, <1>b, <1>c, <1>d, <1>e DEF ClosedLate, Serving, Closing
<1>7. Stacked'
  BY <1>a, <1>b, <1>c, <1>d, <1>e DEF Stacked
<1>8. Callbacks'
  BY <1>a, <1>b, <1>c, <1>d, <1>e DEF Callbacks
<1>9. Turned'
  BY <1>a, <1>b, <1>c, <1>d, <1>e DEF Turned
<1>10. DyingIdle'
  BY <1>a, <1>b, <1>c, <1>d, <1>e DEF DyingIdle, Callbacks
<1> QED
  BY <1>1, <1>2, <1>3, <1>4, <1>5, <1>6, <1>7, <1>8, <1>9, <1>10

LEMMA StartInv ==
  ASSUME ServerAssumption, IInv, NEW c \in Conns, Start(c)
  PROVE  IInv'
<1> USE DEF ServerAssumption, IInv, TypeOK, server, wheel, main, conn
<1> USE DEF Start, Goto
<1>1. TypeOK'
  BY DEF Serving, Closing
<1>2. DestroyedOnceClosed'
  BY DEF DestroyedOnceClosed, OwnDescriptor, Clients, ClosedLate, Serving, Closing
<1>3. OwnDescriptor'
  BY DEF OwnDescriptor, DestroyedOnceClosed, ClosedLate, Clients, Serving, Closing
<1>4. Accepted'
  BY DEF Accepted, Clients
<1>5. Clients'
  BY DEF Clients, Accepted
<1>6. ClosedLate'
  BY DEF ClosedLate, Serving, Closing
<1>7. Stacked'
  BY DEF Stacked
<1>8. Callbacks'
  BY DEF Callbacks
<1>9. Turned'
  BY DEF Turned
<1>10. DyingIdle'
  BY DEF DyingIdle, Callbacks
<1> QED
  BY <1>1, <1>2, <1>3, <1>4, <1>5, <1>6, <1>7, <1>8, <1>9, <1>10

LEMMA InputInv ==
  ASSUME ServerAssumption, IInv, NEW c \in Conns, input(c)
  PROVE  IInv'
<1> USE DEF ServerAssumption, IInv, TypeOK, server, wheel, main, conn
<1> USE DEF input, Goto, freshTcpConnection
<1>1. TypeOK'
  <2>1. m_tasks' \in Seq(Conns)
    <3>1. Append(m_tasks, c) \in Seq(Conns)
      OBVIOUS
    <3> QED
      BY <3>1
  <2> QED
    BY <2>1 DEF Serving, Closing
<1>2. DestroyedOnceClosed'
  BY DEF DestroyedOnceClosed, OwnDescriptor, Clients, ClosedLate, Serving, Closing
<1>3. OwnDescriptor'
  BY DEF OwnDescriptor, DestroyedOnceClosed, ClosedLate, Clients, Serving, Closing
<1>4. Accepted'
  BY DEF Accepted, Clients
<1>5. Clients'
  BY DEF Clients, Accepted
<1>6. ClosedLate'
  BY DEF ClosedLate, Serving, Closing
<1>7. Stacked'
  BY DEF Stacked
<1>8. Callbacks'
  BY DEF Callbacks
<1>9. Turned'
  BY DEF Turned
<1>10. DyingIdle'
  BY DEF DyingIdle, Callbacks
<1> QED
  BY <1>1, <1>2, <1>3, <1>4, <1>5, <1>6, <1>7, <1>8, <1>9, <1>10

LEMMA InputEmptyInv ==
  ASSUME ServerAssumption, IInv, NEW c \in Conns, inputEmpty(c)
  PROVE  IInv'
<1> USE DEF ServerAssumption, IInv, TypeOK, server, wheel, main, conn
<1> USE DEF inputEmpty, Goto
<1>1. TypeOK'
  BY DEF Serving, Closing
<1>2. DestroyedOnceClosed'
  BY DEF DestroyedOnceClosed, OwnDescriptor, Clients, ClosedLate, Serving, Closing
<1>3. OwnDescriptor'
  BY DEF OwnDescriptor, DestroyedOnceClosed, ClosedLate, Clients, Serving, Closing
<1>4. Accepted'
  BY DEF Accepted, Clients
<1>5. Clients'
  BY DEF Clients, Accepted
<1>6. ClosedLate'
  BY DEF ClosedLate, Serving, Closing
<1>7. Stacked'
  BY DEF Stacked
<1>8. Callbacks'
  BY DEF Callbacks
<1>9. Turned'
  BY DEF Turned
<1>10. DyingIdle'
  BY DEF DyingIdle, Callbacks
<1> QED
  BY <1>1, <1>2, <1>3, <1>4, <1>5, <1>6, <1>7, <1>8, <1>9, <1>10

LEMMA ClearClientOfInv ==
  ASSUME ServerAssumption, IInv, NEW c \in Conns, clearClient(c)
  PROVE  IInv'
<1> USE DEF ServerAssumption, IInv, TypeOK, server, wheel, main, conn
<1> USE DEF clearClient, Goto
<1>1. TypeOK'
  BY DEF Serving, Closing
<1>2. DestroyedOnceClosed'
  BY DEF DestroyedOnceClosed, OwnDescriptor, Clients, ClosedLate, Serving, Closing
<1>3. OwnDescriptor'
  BY DEF OwnDescriptor, DestroyedOnceClosed, ClosedLate, Clients, Serving, Closing
<1>4. Accepted'
  BY DEF Accepted, Clients
<1>5. Clients'
  BY DEF Clients, Accepted
<1>6. ClosedLate'
  BY DEF ClosedLate, Serving, Closing
<1>7. Stacked'
  BY DEF Stacked
<1>8. Callbacks'
  BY DEF Callbacks
<1>9. Turned'
  BY DEF Turned
<1>10. DyingIdle'
  BY DEF DyingIdle, Callbacks
<1> QED
  BY <1>1, <1>2, <1>3, <1>4, <1>5, <1>6, <1>7, <1>8, <1>9, <1>10

LEMMA SetStateClosedInv ==
  ASSUME ServerAssumption, IInv, NEW c \in Conns, setStateClosed(c)
  PROVE  IInv'
<1> USE DEF ServerAssumption, IInv, TypeOK, server, wheel, main, conn
<1> USE DEF setStateClosed, Goto
<1>1. TypeOK'
  BY DEF Serving, Closing
<1>2. DestroyedOnceClosed'
  BY DEF DestroyedOnceClosed, OwnDescriptor, Clients, ClosedLate, Serving, Closing
<1>3. OwnDescriptor'
  BY DEF OwnDescriptor, DestroyedOnceClosed, ClosedLate, Clients, Serving, Closing
<1>4. Accepted'
  BY DEF Accepted, Clients
<1>5. Clients'
  BY DEF Clients, Accepted
<1>6. ClosedLate'
  BY DEF ClosedLate, Serving, Closing
<1>7. Stacked'
  BY DEF Stacked
<1>8. Callbacks'
  BY DEF Callbacks
<1>9. Turned'
  BY DEF Turned
<1>10. DyingIdle'
  BY DEF DyingIdle, Callbacks
<1> QED
  BY <1>1, <1>2, <1>3, <1>4, <1>5, <1>6, <1>7, <1>8, <1>9, <1>10

LEMMA YieldInv ==
  ASSUME ServerAssumption, IInv, NEW c \in Conns, yield(c)
  PROVE  IInv'
<1> USE DEF ServerAssumption, IInv, TypeOK, server, wheel, main, conn
<1> USE DEF yield, Goto
<1>1. TypeOK'
  BY DEF Serving, Closing
<1>2. DestroyedOnceClosed'
  BY DEF DestroyedOnceClosed, OwnDescriptor, Clients, ClosedLate, Serving, Closing
<1>3. OwnDescriptor'
  BY DEF OwnDescriptor, DestroyedOnceClosed, ClosedLate, Clients, Serving, Closing
<1>4. Accepted'
  BY DEF Accepted, Clients
<1>5. Clients'
  BY DEF Clients, Accepted
<1>6. ClosedLate'
  BY DEF ClosedLate, Serving, Closing
<1>7. Stacked'
  BY DEF Stacked
<1>8. Callbacks'
  BY DEF Callbacks
<1>9. Turned'
  BY DEF Turned
<1>10. DyingIdle'
  BY DEF DyingIdle, Callbacks
<1> QED
  BY <1>1, <1>2, <1>3, <1>4, <1>5, <1>6, <1>7, <1>8, <1>9, <1>10

LEMMA NextInv ==
  ASSUME ServerAssumption, IInv, [Next]_vars
  PROVE  IInv'
<1>1. CASE MainSteps
  <2>1. CASE Accept \/ AcceptFails \/ loopFunc \/ ClearClientTimerFunc
    BY <2>1, AcceptInv, AcceptFailsInv, LoopFuncInv, ClearClientTimerFuncInv
  <2>2. CASE RunTask \/ ClearClient
    BY <2>2, RunTaskInv, ClearClientInv
  <2>3. ASSUME NEW c \in Conns, SlotDies(c) \/ shutdownConnection(c) PROVE IInv'
    BY <2>3, SlotDiesInv, ShutdownConnectionInv
  <2> QED
    BY <1>1, <2>1, <2>2, <2>3 DEF MainSteps, MainCallbacks
<1>2. ASSUME NEW c \in Conns, CoroutineSteps(c) \/ input(c) \/ inputEmpty(c) PROVE IInv'
  BY <1>2, StartInv, ClearClientOfInv, SetStateClosedInv, YieldInv, InputInv, InputEmptyInv
     DEF CoroutineSteps
<1>3. CASE UNCHANGED vars
  <2> USE <1>3 DEF vars, server, wheel, main, conn, IInv
  <2>1. TypeOK'
    BY DEF TypeOK
  <2>2. DestroyedOnceClosed' /\ OwnDescriptor' /\ Stacked'
    BY DEF DestroyedOnceClosed, OwnDescriptor, Stacked
  <2>3. Accepted' /\ Clients' /\ ClosedLate'
    BY DEF Accepted, Clients, ClosedLate
  <2>4. Callbacks' /\ Turned' /\ DyingIdle'
    BY DEF Callbacks, Turned, DyingIdle
  <2> QED
    BY <2>1, <2>2, <2>3, <2>4
<1> QED
  BY <1>1, <1>2, <1>3 DEF Next

(* IInv is the invariant; the theorems below follow from it.               *)
THEOREM Invariant == Spec => []IInv
BY ServerAssumption, InitInv, NextInv, PTL DEF Spec

(* Every variable keeps its type, for any number of connections.           *)
THEOREM TypeCorrect == Spec => []TypeOK
<1>1. IInv => TypeOK
  BY DEF IInv
<1> QED
  BY <1>1, Invariant, PTL

(* No connection is destroyed under a coroutine that serves it: neither    *)
(* ClearClientTimerFunc nor addClient (tcp_server.cpp) does, because m_fd  *)
(* keeps the connection in m_clients until its state says Closed, and the  *)
(* coroutine says so only after its last read.                             *)
THEOREM NotDestroyedInUse == Spec => []DestroyedOnceClosed
<1>1. IInv => DestroyedOnceClosed
  BY DEF IInv
<1> QED
  BY <1>1, Invariant, PTL

(* Two live connections never have one stack of the pool, and there is     *)
(* always a stack for the next: the pool frees a block with its            *)
(* connection, never earlier.                                              *)
THEOREM StacksApart == Spec => []OwnStack
<1>1. IInv => OwnStack
  <2> SUFFICES ASSUME IInv, NEW c \in Conns, NEW d \in Conns, c # d,
                      cor_pc[c] \in Serving \cup Closing, cor_pc[d] \in Serving \cup Closing,
                      ~destroyed[c], ~destroyed[d]
               PROVE  stack[c] # stack[d]
    BY DEF OwnStack
  <2>1. cor_pc[c] # "none"
    BY DEF Serving, Closing
  <2>2. stack[c] # None
    BY <2>1 DEF IInv, Accepted
  <2> QED
    BY <2>2 DEF IInv, Stacked
<1> QED
  BY <1>1, Invariant, PTL

(* A serving connection's descriptor is its own socket and its own entry   *)
(* of m_clients, however the descriptors are reused.                       *)
THEOREM DescriptorsApart == Spec => []OwnDescriptor
<1>1. IInv => OwnDescriptor
  BY DEF IInv
<1> QED
  BY <1>1, Invariant, PTL

(* The wheel shuts a connection down only after a full turn without a read *)
(* on it: Turned counts the turns in the place of its newest slot, and the *)
(* slot that dies with the popped bucket is that one.                      *)
THEOREM ShutWhenIdle == Spec => ShutOnlyWhenIdle
<1> DEFINE Idle == \A c \in Conns : m_state[c] = "Connected" /\ m_state'[c] = "HalfClosing"
                                      => idle[c] = m_bucket_count
<1>1. ASSUME ServerAssumption, IInv, [Next]_vars PROVE Idle
  <2> USE <1>1 DEF ServerAssumption, IInv, TypeOK, server, wheel, main, conn, Goto
  <2>1. CASE Accept
    BY <2>1 DEF Accept, NewConnection
  <2>2. CASE AcceptFails \/ loopFunc \/ ClearClientTimerFunc \/ RunTask \/ ClearClient
    BY <2>2 DEF AcceptFails, loopFunc, ClearClientTimerFunc, RunTask, ClearClient
  <2>3. ASSUME NEW c \in Conns, SlotDies(c) PROVE Idle
    BY <2>3 DEF SlotDies
  <2>4. ASSUME NEW c \in Conns, shutdownConnection(c) PROVE Idle
    <3>1. dying \in SUBSET Nat /\ dying # {}
      BY <2>4 DEF shutdownConnection, Callbacks
    <3>2. c \in dying
      BY <2>4, <3>1, LeastNatural DEF shutdownConnection
    <3> QED
      BY <2>4, <3>2 DEF shutdownConnection, DyingIdle
  <2>5. ASSUME NEW c \in Conns, setStateClosed(c) PROVE Idle
    BY <2>5 DEF setStateClosed
  <2>6. ASSUME NEW c \in Conns,
               Start(c) \/ clearClient(c) \/ yield(c) \/ input(c) \/ inputEmpty(c)
        PROVE  Idle
    BY <2>6 DEF Start, clearClient, yield, input, inputEmpty
  <2>7. CASE UNCHANGED vars
    BY <2>7 DEF vars
  <2> HIDE DEF Idle
  <2> QED
    BY <2>1, <2>2, <2>3, <2>4, <2>5, <2>6, <2>7
       DEF Next, MainSteps, MainCallbacks, CoroutineSteps
<1>2. IInv /\ [Next]_vars => [Idle]_vars
  BY <1>1, ServerAssumption
<1> HIDE DEF Idle
<1>3. Spec => [][Idle]_vars
  BY <1>2, Invariant, PTL DEF Spec
<1> QED
  BY <1>3 DEF ShutOnlyWhenIdle, Idle
==============================================================================
