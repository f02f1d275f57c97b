---------------------------- MODULE StartupProofs ----------------------------
(***************************************************************************)
(* The safety invariants of Startup for any number of IO threads.          *)
(***************************************************************************)
EXTENDS Startup, TLAPS

(* What has been read of the file when the main thread is here.            *)
Read ==
  /\ main_pc \in {"Logger", "coroutine", "time_wheel", "other", "server", "protocal", "TcpServer",
                  "create", "wait_init", "built"}
       => missing \notin {"file", "log"} \cup Children.log
  /\ main_pc \in {"time_wheel", "other", "server", "protocal", "TcpServer", "create", "wait_init",
                  "built"}
       => missing \notin {"coroutine"} \cup Children.coroutine
  /\ main_pc \in {"other", "server", "protocal", "TcpServer", "create", "wait_init", "built"}
       => missing \notin {"time_wheel"} \cup Children.time_wheel
  /\ main_pc \in {"server", "protocal", "TcpServer", "create", "wait_init", "built"}
       => missing \notin {"other"} \cup Children.other
  /\ main_pc \in {"protocal", "TcpServer", "create", "wait_init", "built"}
       => missing = "nothing"

(* The protocol is chosen once, from what the comparison accepts.          *)
Chosen ==
  /\ main_pc \in {"TcpServer", "create", "wait_init", "built"} => protocal \in {"http", "HTTP"}
  /\ main_pc \in {"create", "wait_init", "built"} => m_protocal_type = "Http"

(* The server is assigned when every thread is made, and starts after.     *)
Made ==
  /\ main_pc \in {"log", "Logger", "coroutine", "time_wheel", "other", "server", "protocal",
                  "TcpServer", "create", "wait_init", "built"} => ~zRpcServer
  /\ main_pc = "wait_init" => made < m_io_thread_num
  /\ main_pc = "built" \/ zRpcServer => made = m_io_thread_num
  /\ main_pc = "join" => stopped < m_io_thread_num
  /\ main_pc \in {"listen", "accept", "post", "loop"} => zRpcServer
  /\ main_pc \in {"post", "loop"} => m_accept_cor
  /\ main_pc = "loop" => posted = m_io_thread_num
  /\ posted > 0 => m_accept_cor

(* A semaphore is up only if its thread has come, or been sent, that far.  *)
Semaphores ==
  \A t \in Threads :
    /\ init_sem[t] > 0 => m_reactor[t]
    /\ t < made => m_reactor[t]
    /\ thread_pc[t] = "post" => m_reactor[t]
    /\ start_sem[t] > 0 => t < posted
    /\ thread_pc[t] \in {"looping", "reset", "loop"} => t < posted

IInv == MainType /\ ThreadType /\ WriterType /\ Read /\ Chosen /\ Made /\ Semaphores /\ SpeaksAsConfigured

-----------------------------------------------------------------------------
(* The nodes, and what a file in which nothing is missing has.             *)
LEMMA NodesAre == Nodes = {"log", "coroutine", "time_wheel", "other", "server"}
BY DEF Nodes, Children

LEMMA LacksNothing ==
  ASSUME missing \in Lacks, missing # "file",
         \A node \in Nodes : missing \notin {node} \cup Children[node]
  PROVE  missing = "nothing"
BY DEF Lacks

LEMMA EndType ==
  ASSUME NEW how \in {"exit", "Exit", "signal"}, End(how)
  PROVE  main_pc' = "flush" /\ ending' = how /\ joins' \in Seq(Writers)
<1>1. Joins["exit"] \in Seq(Writers) /\ Joins["Exit"] \in Seq(Writers)
      /\ Joins["signal"] \in Seq(Writers)
  BY DEF Joins, Writers
<1> QED
  BY <1>1 DEF End, Goto

LEMMA InitInv == StartupAssumption /\ Init => IInv
<1> SUFFICES ASSUME StartupAssumption, Init PROVE IInv
  OBVIOUS
<1> USE DEF StartupAssumption, Init
<1>1. MainType /\ ThreadType /\ WriterType
  <2>1. {zRpcConfig, m_cor_need_resume, zRpcLogger, zRpcServer, m_accept_cor} \subseteq BOOLEAN
    BY Zenon
  <2>2. MainType
    BY <2>1, NodesAre DEF MainType
  <2>3. ThreadType /\ WriterType
    BY DEF ThreadType, WriterType, Threads
  <2> QED
    BY <2>2, <2>3
<1>2. Read /\ Chosen /\ Made
  BY DEF Read, Chosen, Made
<1>3. Semaphores
  BY DEF Semaphores, Threads
<1>4. SpeaksAsConfigured
  BY DEF SpeaksAsConfigured
<1> QED
  BY <1>1, <1>2, <1>3, <1>4 DEF IInv

LEMMA ReadConfInv ==
  ASSUME StartupAssumption, IInv, NEW node \in Nodes, readConf(node)
  PROVE  IInv'
<1> USE DEF StartupAssumption, IInv, file, server, threads, writers, exit
<1> USE DEF readConf, At, Goto, After, Children, Nodes
<1>1. MainType'
  BY NodesAre DEF MainType, Made
<1>2. ThreadType'
  BY DEF ThreadType, MainType, Made, Threads
<1>3. WriterType'
  BY DEF WriterType
<1>4. Read'
  <2>1. CASE node = "log"
    BY <2>1 DEF Read
  <2>2. CASE node = "coroutine"
    BY <2>2 DEF Read
  <2>3. CASE node = "time_wheel"
    BY <2>3 DEF Read
  <2>4. CASE node = "other"
    BY <2>4 DEF Read
  <2>5. CASE node = "server"
    <3>1. missing \notin {"file"} \cup {node} \cup Children[node] => missing = "nothing"
      BY <2>5, LacksNothing, NodesAre DEF Read, MainType
    <3> QED
      BY <2>5, <3>1 DEF Read
  <2> QED
    BY <2>1, <2>2, <2>3, <2>4, <2>5, NodesAre
<1>5. Chosen'
  BY DEF MainType, Read, Chosen
<1>6. Made'
  BY DEF MainType, Made
<1>7. Semaphores'
  BY DEF MainType, ThreadType, Made, Semaphores, Threads
<1>8. SpeaksAsConfigured'
  BY DEF Read, Chosen, Made, SpeaksAsConfigured
<1> QED
  BY <1>1, <1>2, <1>3, <1>4, <1>5, <1>6, <1>7, <1>8

LEMMA NewLoggerInv ==
  ASSUME StartupAssumption, IInv, NewLogger
  PROVE  IInv'
<1> USE DEF StartupAssumption, IInv, file, server, threads, writers, exit
<1> USE DEF NewLogger, At, Goto, Writers
<1>1. MainType'
  BY NodesAre DEF MainType, Made
<1>2. ThreadType'
  BY DEF ThreadType, MainType, Made, Threads
<1>3. WriterType'
  BY DEF WriterType
<1>4. Read'
  BY DEF Read
<1>5. Chosen'
  BY DEF MainType, Read, Chosen
<1>6. Made'
  BY DEF MainType, Made
<1>7. Semaphores'
  BY DEF MainType, ThreadType, Made, Semaphores, Threads
<1>8. SpeaksAsConfigured'
  BY DEF Read, Chosen, Made, SpeaksAsConfigured
<1> QED
  BY <1>1, <1>2, <1>3, <1>4, <1>5, <1>6, <1>7, <1>8

LEMMA ChooseProtocalInv ==
  ASSUME StartupAssumption, IInv, ChooseProtocal
  PROVE  IInv'
<1> USE DEF StartupAssumption, IInv, file, server, threads, writers, exit
<1> USE DEF ChooseProtocal, At, Goto, Crash, m_server_protocal, toupper, Protocals
<1>1. MainType'
  BY NodesAre, EndType DEF MainType, Made
<1>2. ThreadType'
  BY EndType DEF ThreadType, MainType, Made, Threads
<1>3. WriterType'
  BY EndType DEF WriterType
<1>4. Read'
  BY EndType DEF Read
<1>5. Chosen'
  BY EndType DEF MainType, Read, Chosen
<1>6. Made'
  BY EndType DEF MainType, Made
<1>7. Semaphores'
  BY EndType DEF MainType, ThreadType, Made, Semaphores, Threads
<1>8. SpeaksAsConfigured'
  BY EndType DEF Read, Chosen, Made, SpeaksAsConfigured
<1> QED
  BY <1>1, <1>2, <1>3, <1>4, <1>5, <1>6, <1>7, <1>8

LEMMA NewTcpServerInv ==
  ASSUME StartupAssumption, IInv, NewTcpServer
  PROVE  IInv'
<1> USE DEF StartupAssumption, IInv, file, server, threads, writers, exit
<1> USE DEF NewTcpServer, At, Goto, Crash, m_server_protocal, toupper
<1>1. MainType'
  BY NodesAre, EndType DEF MainType, Made
<1>2. ThreadType'
  BY EndType DEF ThreadType, MainType, Made, Threads
<1>3. WriterType'
  BY EndType DEF WriterType
<1>4. Read'
  BY EndType DEF Read
<1>5. Chosen'
  BY EndType DEF MainType, Read, Chosen
<1>6. Made'
  BY EndType DEF MainType, Made
<1>7. Semaphores'
  BY EndType DEF MainType, ThreadType, Made, Semaphores, Threads
<1>8. SpeaksAsConfigured'
  BY EndType DEF Read, Chosen, Made, SpeaksAsConfigured
<1> QED
  BY <1>1, <1>2, <1>3, <1>4, <1>5, <1>6, <1>7, <1>8

LEMMA CreateThreadInv ==
  ASSUME StartupAssumption, IInv, CreateThread
  PROVE  IInv'
<1> USE DEF StartupAssumption, IInv, file, server, threads, writers, exit
<1> USE DEF CreateThread, At, Goto
<1>1. MainType'
  BY NodesAre DEF MainType, Made
<1>2. ThreadType'
  BY DEF ThreadType, MainType, Made, Threads
<1>3. WriterType'
  BY DEF WriterType
<1>4. Read'
  BY DEF Read
<1>5. Chosen'
  BY DEF MainType, Read, Chosen
<1>6. Made'
  BY DEF MainType, Made
<1>7. Semaphores'
  BY DEF MainType, ThreadType, Made, Semaphores, Threads
<1>8. SpeaksAsConfigured'
  BY DEF Read, Chosen, Made, SpeaksAsConfigured
<1> QED
  BY <1>1, <1>2, <1>3, <1>4, <1>5, <1>6, <1>7, <1>8

LEMMA WaitInitInv ==
  ASSUME StartupAssumption, IInv, WaitInit
  PROVE  IInv'
<1> USE DEF StartupAssumption, IInv, file, server, threads, writers, exit
<1> USE DEF WaitInit, At, Goto
<1>1. MainType'
  BY NodesAre DEF MainType, Made
<1>2. ThreadType'
  BY SMTT(30) DEF ThreadType, MainType, Made, Threads
<1>3. WriterType'
  BY DEF WriterType
<1>4. Read'
  BY DEF Read
<1>5. Chosen'
  BY DEF MainType, Read, Chosen
<1>6. Made'
  BY DEF MainType, Made
<1>7. Semaphores'
  <2>1. made \in Threads /\ m_reactor[made]
    BY DEF MainType, Made, Semaphores, Threads
  <2>2. \A t \in Threads : init_sem'[t] > 0 => init_sem[t] > 0
    BY <2>1 DEF ThreadType
  <2>3. \A t \in Threads : t < made' => t < made \/ t = made
    BY DEF MainType, Threads
  <2> QED
    BY <2>1, <2>2, <2>3 DEF Semaphores
<1>8. SpeaksAsConfigured'
  BY DEF Read, Chosen, Made, SpeaksAsConfigured
<1> QED
  BY <1>1, <1>2, <1>3, <1>4, <1>5, <1>6, <1>7, <1>8

LEMMA BuiltInv ==
  ASSUME StartupAssumption, IInv, Built
  PROVE  IInv'
<1> USE DEF StartupAssumption, IInv, file, server, threads, writers, exit
<1> USE DEF Built, At, Goto
<1>1. MainType'
  BY NodesAre DEF MainType, Made
<1>2. ThreadType'
  BY DEF ThreadType, MainType, Made, Threads
<1>3. WriterType'
  BY DEF WriterType
<1>4. Read'
  BY DEF Read
<1>5. Chosen'
  BY DEF MainType, Read, Chosen
<1>6. Made'
  BY DEF MainType, Made
<1>7. Semaphores'
  BY DEF MainType, ThreadType, Made, Semaphores, Threads
<1>8. SpeaksAsConfigured'
  BY DEF Read, Chosen, Made, SpeaksAsConfigured
<1> QED
  BY <1>1, <1>2, <1>3, <1>4, <1>5, <1>6, <1>7, <1>8

LEMMA StartRpcServerInv ==
  ASSUME StartupAssumption, IInv, StartRpcServer
  PROVE  IInv'
<1> USE DEF StartupAssumption, IInv, file, server, threads, writers, exit
<1> USE DEF StartRpcServer, At, Goto, Crash
<1>1. MainType'
  BY NodesAre, EndType DEF MainType, Made
<1>2. ThreadType'
  BY EndType DEF ThreadType, MainType, Made, Threads
<1>3. WriterType'
  BY EndType DEF WriterType
<1>4. Read'
  BY EndType DEF Read
<1>5. Chosen'
  BY EndType DEF MainType, Read, Chosen
<1>6. Made'
  BY EndType DEF MainType, Made
<1>7. Semaphores'
  BY EndType DEF MainType, ThreadType, Made, Semaphores, Threads
<1>8. SpeaksAsConfigured'
  BY EndType DEF Read, Chosen, Made, SpeaksAsConfigured
<1> QED
  BY <1>1, <1>2, <1>3, <1>4, <1>5, <1>6, <1>7, <1>8

LEMMA MainReturnsInv ==
  ASSUME StartupAssumption, IInv, MainReturns
  PROVE  IInv'
<1> USE DEF StartupAssumption, IInv, file, server, threads, writers, exit
<1> USE DEF MainReturns, At, Goto
<1>1. MainType'
  BY NodesAre DEF MainType, Made
<1>2. ThreadType'
  BY DEF ThreadType, MainType, Made, Threads
<1>3. WriterType'
  BY DEF WriterType
<1>4. Read'
  BY DEF Read
<1>5. Chosen'
  BY DEF MainType, Read, Chosen
<1>6. Made'
  BY DEF MainType, Made
<1>7. Semaphores'
  BY DEF MainType, ThreadType, Made, Semaphores, Threads
<1>8. SpeaksAsConfigured'
  BY DEF Read, Chosen, Made, SpeaksAsConfigured
<1> QED
  BY <1>1, <1>2, <1>3, <1>4, <1>5, <1>6, <1>7, <1>8

LEMMA ListenInv ==
  ASSUME StartupAssumption, IInv, Listen
  PROVE  IInv'
<1> USE DEF StartupAssumption, IInv, file, server, threads, writers, exit
<1> USE DEF Listen, At, Goto
<1>1. MainType'
  BY NodesAre, EndType DEF MainType, Made
<1>2. ThreadType'
  BY EndType DEF ThreadType, MainType, Made, Threads
<1>3. WriterType'
  BY EndType DEF WriterType
<1>4. Read'
  BY EndType DEF Read
<1>5. Chosen'
  BY EndType DEF MainType, Read, Chosen
<1>6. Made'
  BY EndType DEF MainType, Made
<1>7. Semaphores'
  BY EndType DEF MainType, ThreadType, Made, Semaphores, Threads
<1>8. SpeaksAsConfigured'
  BY EndType DEF Read, Chosen, Made, SpeaksAsConfigured
<1> QED
  BY <1>1, <1>2, <1>3, <1>4, <1>5, <1>6, <1>7, <1>8

LEMMA ResumeAcceptInv ==
  ASSUME StartupAssumption, IInv, ResumeAccept
  PROVE  IInv'
<1> USE DEF StartupAssumption, IInv, file, server, threads, writers, exit
<1> USE DEF ResumeAccept, At, Goto
<1>1. MainType'
  BY NodesAre, EndType DEF MainType, Made
<1>2. ThreadType'
  BY EndType DEF ThreadType, MainType, Made, Threads
<1>3. WriterType'
  BY EndType DEF WriterType
<1>4. Read'
  BY EndType DEF Read
<1>5. Chosen'
  BY EndType DEF MainType, Read, Chosen
<1>6. Made'
  BY EndType DEF MainType, Made
<1>7. Semaphores'
  BY EndType DEF MainType, ThreadType, Made, Semaphores, Threads
<1>8. SpeaksAsConfigured'
  BY EndType DEF Read, Chosen, Made, SpeaksAsConfigured
<1> QED
  BY <1>1, <1>2, <1>3, <1>4, <1>5, <1>6, <1>7, <1>8

LEMMA PostStartInv ==
  ASSUME StartupAssumption, IInv, PostStart
  PROVE  IInv'
<1> USE DEF StartupAssumption, IInv, file, server, threads, writers, exit
<1> USE DEF PostStart, At, Goto
<1>1. MainType'
  BY NodesAre DEF MainType, Made
<1>2. ThreadType'
  <2>1. posted # m_io_thread_num => posted \in Threads
    BY DEF MainType, Threads
  <2> QED
    BY <2>1 DEF ThreadType
<1>3. WriterType'
  BY DEF WriterType
<1>4. Read'
  BY DEF Read
<1>5. Chosen'
  BY DEF MainType, Read, Chosen
<1>6. Made'
  BY DEF MainType, Made
<1>7. Semaphores'
  <2>1. posted # m_io_thread_num => posted \in Threads
    BY DEF MainType, Threads
  <2>2. posted \in Nat /\ posted' \in Nat /\ posted' >= posted
    BY DEF MainType
  <2>3. CASE UNCHANGED <<posted, start_sem>>
    BY <2>3 DEF Semaphores, Threads
  <2>4. CASE posted' = posted + 1 /\ start_sem' = [start_sem EXCEPT ![posted] = @ + 1]
    <3>1. \A t \in Threads : start_sem'[t] > 0 => start_sem[t] > 0 \/ t = posted
      BY <2>4 DEF ThreadType
    <3> QED
      BY <2>2, <2>4, <3>1 DEF Semaphores, Threads
  <2> QED
    BY <2>3, <2>4
<1>8. SpeaksAsConfigured'
  BY DEF Read, Chosen, Made, SpeaksAsConfigured
<1> QED
  BY <1>1, <1>2, <1>3, <1>4, <1>5, <1>6, <1>7, <1>8

LEMMA MainReactorStopsInv ==
  ASSUME StartupAssumption, IInv, MainReactorStops
  PROVE  IInv'
<1> USE DEF StartupAssumption, IInv, file, server, threads, writers, exit
<1> USE DEF MainReactorStops, At, Goto
<1>1. MainType'
  BY NodesAre DEF MainType, Made
<1>2. ThreadType'
  BY DEF ThreadType, MainType, Made, Threads
<1>3. WriterType'
  BY DEF WriterType
<1>4. Read'
  BY DEF Read
<1>5. Chosen'
  BY DEF MainType, Read, Chosen
<1>6. Made'
  BY DEF MainType, Made
<1>7. Semaphores'
  BY DEF MainType, ThreadType, Made, Semaphores, Threads
<1>8. SpeaksAsConfigured'
  BY DEF Read, Chosen, Made, SpeaksAsConfigured
<1> QED
  BY <1>1, <1>2, <1>3, <1>4, <1>5, <1>6, <1>7, <1>8

LEMMA DestructorsInv ==
  ASSUME StartupAssumption, IInv, Destructors
  PROVE  IInv'
<1> USE DEF StartupAssumption, IInv, file, server, threads, writers, exit
<1> USE DEF Destructors, At, Goto
<1>1. MainType'
  BY NodesAre, EndType DEF MainType, Made
<1>2. ThreadType'
  BY EndType DEF ThreadType, MainType, Made, Threads
<1>3. WriterType'
  BY EndType DEF WriterType
<1>4. Read'
  BY EndType DEF Read
<1>5. Chosen'
  BY EndType DEF MainType, Read, Chosen
<1>6. Made'
  BY EndType DEF MainType, Made
<1>7. Semaphores'
  BY EndType DEF MainType, ThreadType, Made, Semaphores, Threads
<1>8. SpeaksAsConfigured'
  BY EndType DEF Read, Chosen, Made, SpeaksAsConfigured
<1> QED
  BY <1>1, <1>2, <1>3, <1>4, <1>5, <1>6, <1>7, <1>8

LEMMA DestroyServerInv ==
  ASSUME StartupAssumption, IInv, DestroyServer
  PROVE  IInv'
<1> USE DEF StartupAssumption, IInv, file, server, threads, writers, exit
<1> USE DEF DestroyServer, At, Goto, Crash
<1>1. MainType'
  BY NodesAre, EndType DEF MainType, Made
<1>2. ThreadType'
  BY EndType DEF ThreadType, MainType, Made, Threads
<1>3. WriterType'
  BY EndType DEF WriterType
<1>4. Read'
  BY EndType DEF Read
<1>5. Chosen'
  BY EndType DEF MainType, Read, Chosen
<1>6. Made'
  BY EndType DEF MainType, Made
<1>7. Semaphores'
  BY EndType DEF MainType, ThreadType, Made, Semaphores, Threads
<1>8. SpeaksAsConfigured'
  BY EndType DEF Read, Chosen, Made, SpeaksAsConfigured
<1> QED
  BY <1>1, <1>2, <1>3, <1>4, <1>5, <1>6, <1>7, <1>8

LEMMA StopThreadInv ==
  ASSUME StartupAssumption, IInv, StopThread
  PROVE  IInv'
<1> USE DEF StartupAssumption, IInv, file, server, threads, writers, exit
<1> USE DEF StopThread, At, Goto
<1>1. MainType'
  BY NodesAre, EndType DEF MainType, Made
<1>2. ThreadType'
  BY EndType DEF ThreadType, MainType, Made, Threads
<1>3. WriterType'
  BY EndType DEF WriterType
<1>4. Read'
  BY EndType DEF Read
<1>5. Chosen'
  BY EndType DEF MainType, Read, Chosen
<1>6. Made'
  BY EndType DEF MainType, Made
<1>7. Semaphores'
  BY EndType DEF MainType, ThreadType, Made, Semaphores, Threads
<1>8. SpeaksAsConfigured'
  BY EndType DEF Read, Chosen, Made, SpeaksAsConfigured
<1> QED
  BY <1>1, <1>2, <1>3, <1>4, <1>5, <1>6, <1>7, <1>8

LEMMA JoinThreadInv ==
  ASSUME StartupAssumption, IInv, JoinThread
  PROVE  IInv'
<1> USE DEF StartupAssumption, IInv, file, server, threads, writers, exit
<1> USE DEF JoinThread, At, Goto
<1>1. MainType'
  BY NodesAre DEF MainType, Made
<1>2. ThreadType'
  BY DEF ThreadType, MainType, Made, Threads
<1>3. WriterType'
  BY DEF WriterType
<1>4. Read'
  BY DEF Read
<1>5. Chosen'
  BY DEF MainType, Read, Chosen
<1>6. Made'
  BY DEF MainType, Made
<1>7. Semaphores'
  BY DEF MainType, ThreadType, Made, Semaphores, Threads
<1>8. SpeaksAsConfigured'
  BY DEF Read, Chosen, Made, SpeaksAsConfigured
<1> QED
  BY <1>1, <1>2, <1>3, <1>4, <1>5, <1>6, <1>7, <1>8

LEMMA FlushInv ==
  ASSUME StartupAssumption, IInv, Flush
  PROVE  IInv'
<1> USE DEF StartupAssumption, IInv, file, server, threads, writers, exit
<1> USE DEF Flush, At, Goto
<1>1. MainType'
  BY NodesAre DEF MainType, Made
<1>2. ThreadType'
  BY DEF ThreadType, MainType, Made, Threads
<1>3. WriterType'
  BY DEF WriterType
<1>4. Read'
  BY DEF Read
<1>5. Chosen'
  BY DEF MainType, Read, Chosen
<1>6. Made'
  BY DEF MainType, Made
<1>7. Semaphores'
  BY DEF MainType, ThreadType, Made, Semaphores, Threads
<1>8. SpeaksAsConfigured'
  BY DEF Read, Chosen, Made, SpeaksAsConfigured
<1> QED
  BY <1>1, <1>2, <1>3, <1>4, <1>5, <1>6, <1>7, <1>8

LEMMA JoinWritersInv ==
  ASSUME StartupAssumption, IInv, JoinWriters
  PROVE  IInv'
<1> USE DEF StartupAssumption, IInv, file, server, threads, writers, exit
<1> USE DEF JoinWriters, At, Goto
<1>1. MainType'
  <2>1. joins # <<>> => Tail(joins) \in Seq(Writers)
    BY DEF MainType
  <2> QED
    BY <2>1 DEF MainType, Nodes
<1>2. ThreadType'
  BY DEF ThreadType, MainType, Made, Threads
<1>3. WriterType'
  BY DEF WriterType
<1>4. Read'
  BY DEF Read
<1>5. Chosen'
  BY DEF MainType, Read, Chosen
<1>6. Made'
  BY DEF MainType, Made
<1>7. Semaphores'
  BY DEF MainType, ThreadType, Made, Semaphores, Threads
<1>8. SpeaksAsConfigured'
  BY DEF Read, Chosen, Made, SpeaksAsConfigured
<1> QED
  BY <1>1, <1>2, <1>3, <1>4, <1>5, <1>6, <1>7, <1>8

LEMMA NewReactorInv ==
  ASSUME StartupAssumption, IInv, NEW t \in Threads, NewReactor(t)
  PROVE  IInv'
<1> USE DEF StartupAssumption, IInv, file, server, threads, writers, exit
<1> USE DEF NewReactor, ThreadGoes
<1>1. MainType'
  BY NodesAre DEF MainType, Made
<1>2. ThreadType'
  BY DEF ThreadType, MainType, Made, Threads
<1>3. WriterType'
  BY DEF WriterType
<1>4. Read'
  BY DEF Read
<1>5. Chosen'
  BY DEF MainType, Read, Chosen
<1>6. Made'
  BY DEF MainType, Made
<1>7. Semaphores'
  BY DEF MainType, ThreadType, Made, Semaphores, Threads
<1>8. SpeaksAsConfigured'
  BY DEF Read, Chosen, Made, SpeaksAsConfigured
<1> QED
  BY <1>1, <1>2, <1>3, <1>4, <1>5, <1>6, <1>7, <1>8

LEMMA PostInitInv ==
  ASSUME StartupAssumption, IInv, NEW t \in Threads, PostInit(t)
  PROVE  IInv'
<1> USE DEF StartupAssumption, IInv, file, server, threads, writers, exit
<1> USE DEF PostInit, ThreadGoes
<1>1. MainType'
  BY NodesAre DEF MainType, Made
<1>2. ThreadType'
  BY SMTT(30) DEF ThreadType, MainType, Made, Threads
<1>3. WriterType'
  BY DEF WriterType
<1>4. Read'
  BY DEF Read
<1>5. Chosen'
  BY DEF MainType, Read, Chosen
<1>6. Made'
  BY DEF MainType, Made
<1>7. Semaphores'
  BY DEF MainType, ThreadType, Made, Semaphores, Threads
<1>8. SpeaksAsConfigured'
  BY DEF Read, Chosen, Made, SpeaksAsConfigured
<1> QED
  BY <1>1, <1>2, <1>3, <1>4, <1>5, <1>6, <1>7, <1>8

LEMMA WaitStartInv ==
  ASSUME StartupAssumption, IInv, NEW t \in Threads, WaitStart(t)
  PROVE  IInv'
<1> USE DEF StartupAssumption, IInv, file, server, threads, writers, exit
<1> USE DEF WaitStart, ThreadGoes
<1>1. MainType'
  BY NodesAre DEF MainType, Made
<1>2. ThreadType'
  BY SMTT(30) DEF ThreadType, MainType, Made, Threads
<1>3. WriterType'
  BY DEF WriterType
<1>4. Read'
  BY DEF Read
<1>5. Chosen'
  BY DEF MainType, Read, Chosen
<1>6. Made'
  BY DEF MainType, Made
<1>7. Semaphores'
  BY DEF MainType, ThreadType, Made, Semaphores, Threads
<1>8. SpeaksAsConfigured'
  BY DEF Read, Chosen, Made, SpeaksAsConfigured
<1> QED
  BY <1>1, <1>2, <1>3, <1>4, <1>5, <1>6, <1>7, <1>8

LEMMA LoopingInv ==
  ASSUME StartupAssumption, IInv, NEW t \in Threads, Looping(t)
  PROVE  IInv'
<1> USE DEF StartupAssumption, IInv, file, server, threads, writers, exit
<1> USE DEF Looping, ThreadGoes
<1>1. MainType'
  BY NodesAre DEF MainType, Made
<1>2. ThreadType'
  BY DEF ThreadType, MainType, Made, Threads
<1>3. WriterType'
  BY DEF WriterType
<1>4. Read'
  BY DEF Read
<1>5. Chosen'
  BY DEF MainType, Read, Chosen
<1>6. Made'
  BY DEF MainType, Made
<1>7. Semaphores'
  BY DEF MainType, ThreadType, Made, Semaphores, Threads
<1>8. SpeaksAsConfigured'
  BY DEF Read, Chosen, Made, SpeaksAsConfigured
<1> QED
  BY <1>1, <1>2, <1>3, <1>4, <1>5, <1>6, <1>7, <1>8

LEMMA ResetStopInv ==
  ASSUME StartupAssumption, IInv, NEW t \in Threads, ResetStop(t)
  PROVE  IInv'
<1> USE DEF StartupAssumption, IInv, file, server, threads, writers, exit
<1> USE DEF ResetStop, ThreadGoes
<1>1. MainType'
  BY NodesAre DEF MainType, Made
<1>2. ThreadType'
  BY DEF ThreadType, MainType, Made, Threads
<1>3. WriterType'
  BY DEF WriterType
<1>4. Read'
  BY DEF Read
<1>5. Chosen'
  BY DEF MainType, Read, Chosen
<1>6. Made'
  BY DEF MainType, Made
<1>7. Semaphores'
  BY DEF MainType, ThreadType, Made, Semaphores, Threads
<1>8. SpeaksAsConfigured'
  BY DEF Read, Chosen, Made, SpeaksAsConfigured
<1> QED
  BY <1>1, <1>2, <1>3, <1>4, <1>5, <1>6, <1>7, <1>8

LEMMA LoopEndsInv ==
  ASSUME StartupAssumption, IInv, NEW t \in Threads, LoopEnds(t)
  PROVE  IInv'
<1> USE DEF StartupAssumption, IInv, file, server, threads, writers, exit
<1> USE DEF LoopEnds, ThreadGoes
<1>1. MainType'
  BY NodesAre DEF MainType, Made
<1>2. ThreadType'
  BY DEF ThreadType, MainType, Made, Threads
<1>3. WriterType'
  BY DEF WriterType
<1>4. Read'
  BY DEF Read
<1>5. Chosen'
  BY DEF MainType, Read, Chosen
<1>6. Made'
  BY DEF MainType, Made
<1>7. Semaphores'
  BY DEF MainType, ThreadType, Made, Semaphores, Threads
<1>8. SpeaksAsConfigured'
  BY DEF Read, Chosen, Made, SpeaksAsConfigured
<1> QED
  BY <1>1, <1>2, <1>3, <1>4, <1>5, <1>6, <1>7, <1>8

LEMMA WriterTestsInv ==
  ASSUME StartupAssumption, IInv, NEW w \in Writers, WriterTests(w)
  PROVE  IInv'
<1> USE DEF StartupAssumption, IInv, file, server, threads, writers, exit
<1> USE DEF WriterTests, WriterGoes
<1>1. MainType'
  BY NodesAre DEF MainType, Made
<1>2. ThreadType'
  BY DEF ThreadType, MainType, Made, Threads
<1>3. WriterType'
  BY DEF WriterType
<1>4. Read'
  BY DEF Read
<1>5. Chosen'
  BY DEF MainType, Read, Chosen
<1>6. Made'
  BY DEF MainType, Made
<1>7. Semaphores'
  BY DEF MainType, ThreadType, Made, Semaphores, Threads
<1>8. SpeaksAsConfigured'
  BY DEF Read, Chosen, Made, SpeaksAsConfigured
<1> QED
  BY <1>1, <1>2, <1>3, <1>4, <1>5, <1>6, <1>7, <1>8

LEMMA WriterSleepsInv ==
  ASSUME StartupAssumption, IInv, NEW w \in Writers, WriterSleeps(w)
  PROVE  IInv'
<1> USE DEF StartupAssumption, IInv, file, server, threads, writers, exit
<1> USE DEF WriterSleeps, WriterGoes
<1>1. MainType'
  BY NodesAre DEF MainType, Made
<1>2. ThreadType'
  BY DEF ThreadType, MainType, Made, Threads
<1>3. WriterType'
  BY DEF WriterType
<1>4. Read'
  BY DEF Read
<1>5. Chosen'
  BY DEF MainType, Read, Chosen
<1>6. Made'
  BY DEF MainType, Made
<1>7. Semaphores'
  BY DEF MainType, ThreadType, Made, Semaphores, Threads
<1>8. SpeaksAsConfigured'
  BY DEF Read, Chosen, Made, SpeaksAsConfigured
<1> QED
  BY <1>1, <1>2, <1>3, <1>4, <1>5, <1>6, <1>7, <1>8

LEMMA WriterEndsInv ==
  ASSUME StartupAssumption, IInv, NEW w \in Writers, WriterEnds(w)
  PROVE  IInv'
<1> USE DEF StartupAssumption, IInv, file, server, threads, writers, exit
<1> USE DEF WriterEnds, WriterGoes
<1>1. MainType'
  BY NodesAre DEF MainType, Made
<1>2. ThreadType'
  BY DEF ThreadType, MainType, Made, Threads
<1>3. WriterType'
  BY DEF WriterType
<1>4. Read'
  BY DEF Read
<1>5. Chosen'
  BY DEF MainType, Read, Chosen
<1>6. Made'
  BY DEF MainType, Made
<1>7. Semaphores'
  BY DEF MainType, ThreadType, Made, Semaphores, Threads
<1>8. SpeaksAsConfigured'
  BY DEF Read, Chosen, Made, SpeaksAsConfigured
<1> QED
  BY <1>1, <1>2, <1>3, <1>4, <1>5, <1>6, <1>7, <1>8

-----------------------------------------------------------------------------
LEMMA MainInv ==
  ASSUME StartupAssumption, IInv, MainSteps
  PROVE  IInv'
BY ReadConfInv, NewLoggerInv, ChooseProtocalInv, NewTcpServerInv, CreateThreadInv, WaitInitInv,
   BuiltInv, StartRpcServerInv, MainReturnsInv, ListenInv, ResumeAcceptInv, PostStartInv,
   DestructorsInv, DestroyServerInv, StopThreadInv, JoinThreadInv, FlushInv, JoinWritersInv
DEF MainSteps

LEMMA NextInv == StartupAssumption /\ IInv /\ [Next]_vars => IInv'
<1> SUFFICES ASSUME StartupAssumption, IInv, [Next]_vars PROVE IInv'
  OBVIOUS
<1>1. CASE MainSteps \/ MainReactorStops
  BY <1>1, MainInv, MainReactorStopsInv
<1>2. ASSUME NEW t \in Threads, ThreadSteps(t) PROVE IInv'
  BY <1>2, NewReactorInv, PostInitInv, WaitStartInv, LoopingInv, ResetStopInv, LoopEndsInv
  DEF ThreadSteps
<1>3. ASSUME NEW w \in Writers, WriterSteps(w) PROVE IInv'
  BY <1>3, WriterTestsInv, WriterSleepsInv, WriterEndsInv DEF WriterSteps
<1>4. CASE UNCHANGED vars
  <2> USE <1>4 DEF vars, file, server, threads, writers, exit, IInv
  <2>1. MainType' /\ ThreadType' /\ WriterType'
    BY DEF MainType, ThreadType, WriterType
  <2>2. Read' /\ Chosen' /\ Made' /\ Semaphores' /\ SpeaksAsConfigured'
    BY DEF Read, Chosen, Made, Semaphores, SpeaksAsConfigured
  <2> QED
    BY <2>1, <2>2
<1> QED
  BY <1>1, <1>2, <1>3, <1>4 DEF Next

(* IInv is the invariant; the theorems below are parts of it.              *)
THEOREM Invariant == Spec => []IInv
BY StartupAssumption, InitInv, NextInv, PTL DEF Spec

(* Every variable keeps its type: among others no thread is made, posted   *)
(* or joined beyond the last.                                              *)
THEOREM TypeCorrect == Spec => []TypeOK
<1>1. IInv => TypeOK
  BY DEF IInv, TypeOK
<1> QED
  BY <1>1, Invariant, PTL

(* The two semaphores of an IO thread do what they are for, with any       *)
(* number of threads: a thread that is made has its reactor, and none      *)
(* loops before the server has been started.                               *)
THEOREM ThreadsReady == Spec => []IOThreadsReady
<1>1. IInv => IOThreadsReady
  BY DEF IInv, MainType, Made, Semaphores, IOThreadsReady, Threads
<1> QED
  BY <1>1, Invariant, PTL

(* A server exists only when all the file was read, and speaks what the    *)
(* comparison of the upper-case text lets through.                         *)
THEOREM ProtocolAsConfigured == Spec => []SpeaksAsConfigured
<1>1. IInv => SpeaksAsConfigured
  BY DEF IInv
<1> QED
  BY <1>1, Invariant, PTL
==============================================================================
