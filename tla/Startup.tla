------------------------------- MODULE Startup -------------------------------
(***************************************************************************)
(* The start and the end of a process that links the library: the main     *)
(* thread reads the configuration before main() runs (config.cpp), makes   *)
(* the logger and the server with its IO threads, starts the server        *)
(* (start.cpp, tcp_server.cpp) and, on its way out, runs the destructors,  *)
(* Exit() or the signal handler, which join the other threads.             *)
(*                                                                         *)
(* Two things of the code end every start, and are chosen in Init so that  *)
(* what lies behind them is modelled too.  zRpcConfig = FALSE is the code: *)
(* the pointer is null until the configuration has been read, and its      *)
(* reading uses it (tcp_server.cpp:118, log.h:28).  m_cor_need_resume =    *)
(* FALSE is the code: resume() refuses the accept coroutine                *)
(* (coroutine.cpp:232).                                                    *)
(***************************************************************************)
EXTENDS Integers, Sequences

CONSTANT m_io_thread_num

ASSUME StartupAssumption == m_io_thread_num \in Nat

Threads == 0 .. m_io_thread_num - 1
Writers == {"rpc", "app"}   \* the threads of the two AsyncLoggers

(* The nodes of the file and what is read of each, its text included: one  *)
(* that is missing ends the process.                                       *)
Children ==
  [log        |-> {"log_path", "log_prefix", "log_max_file_size", "rpc_log_level",
                   "app_log_level", "log_sync_interval"},
   coroutine  |-> {"coroutine_stack_size", "coroutine_pool_size"},
   time_wheel |-> {"bucket_num", "interval"},
   other      |-> {"msg_req_len", "max_connect_timeout", "io_thread_num"},
   server     |-> {"ip", "port", "protocal"}]
Nodes == DOMAIN Children
Protocals == {"http", "HTTP", "zRpcPb"}

VARIABLES
  missing, protocal,             \* the configuration file: the first thing it lacks
  zRpcConfig, m_cor_need_resume, \* see above
  main_pc,
  zRpcLogger, zRpcServer,        \* made
  m_protocal_type, m_accept_cor,
  made, posted, stopped,         \* IO threads constructed, started, destroyed
  init_sem, start_sem, thread_pc, m_reactor, m_is_looping, m_stop_flag,  \* by IO thread
  writer_pc, m_stop,             \* by writer
  ending, joins,                 \* how the process ends; the writers still to join
  outcome

file    == <<missing, protocal, zRpcConfig, m_cor_need_resume>>
server  == <<zRpcServer, m_protocal_type, m_accept_cor, made, posted, stopped>>
threads == <<init_sem, start_sem, thread_pc, m_reactor, m_is_looping, m_stop_flag>>
writers == <<writer_pc, m_stop>>
exit    == <<ending, joins>>
vars    == <<file, main_pc, zRpcLogger, server, threads, writers, exit, outcome>>

Lacks == {"nothing", "file"} \cup Nodes \cup UNION {Children[node] : node \in Nodes}

MainType ==
  /\ missing \in Lacks /\ protocal \in Protocals
  /\ {zRpcConfig, m_cor_need_resume, zRpcLogger, zRpcServer, m_accept_cor} \subseteq BOOLEAN
  /\ main_pc \in Nodes \cup {"Logger", "protocal", "TcpServer", "create", "wait_init", "built",
                             "main", "listen", "accept", "post", "loop", "exit", "~TcpServer",
                             "stop", "join", "flush", "join_writers", "ended"}
  /\ m_protocal_type \in {"none", "Http", "zRpcPb"}
  /\ {made, posted, stopped} \subseteq 0 .. m_io_thread_num
  /\ ending \in {"none", "exit", "Exit", "signal"} /\ joins \in Seq(Writers)
  /\ outcome \in {"none", "exit", "Exit", "signal"}

ThreadType ==
  /\ init_sem \in [Threads -> Nat] /\ start_sem \in [Threads -> Nat]
  /\ thread_pc \in [Threads -> {"none", "begin", "post", "wait_start", "looping", "reset", "loop",
                                "ended"}]
  /\ m_reactor \in [Threads -> BOOLEAN]
  /\ m_is_looping \in [Threads -> BOOLEAN] /\ m_stop_flag \in [Threads -> BOOLEAN]

WriterType ==
  /\ writer_pc \in [Writers -> {"none", "lock", "to_wait", "asleep", "take", "ended"}]
  /\ m_stop \in [Writers -> BOOLEAN]

TypeOK == MainType /\ ThreadType /\ WriterType

Init ==
  /\ missing \in Lacks /\ protocal \in Protocals
  /\ zRpcConfig \in BOOLEAN /\ m_cor_need_resume \in BOOLEAN
  /\ main_pc = "log" /\ zRpcLogger = FALSE /\ zRpcServer = FALSE
  /\ m_protocal_type = "none" /\ m_accept_cor = FALSE
  /\ made = 0 /\ posted = 0 /\ stopped = 0
  /\ init_sem = [t \in Threads |-> 0] /\ start_sem = [t \in Threads |-> 0]
  /\ thread_pc = [t \in Threads |-> "none"] /\ m_reactor = [t \in Threads |-> FALSE]
  /\ m_is_looping = [t \in Threads |-> FALSE] /\ m_stop_flag = [t \in Threads |-> FALSE]
  /\ writer_pc = [w \in Writers |-> "none"] /\ m_stop = [w \in Writers |-> FALSE]
  /\ ending = "none" /\ joins = <<>> /\ outcome = "none"

-----------------------------------------------------------------------------
(* How the process ends *)

Goto(pc) == main_pc' = pc

(* The writers that each end joins, in this order: ~Logger, Exit() and     *)
(* CoredumpHandler.  Exit() leaves the app's writer.                       *)
Joins == [exit |-> <<"app", "rpc">>, Exit |-> <<"rpc">>, signal |-> <<"rpc", "app">>]

(* Each first calls Logger::flush().  Without a logger there is nothing to *)
(* end.                                                                    *)
End(how) ==
  /\ Goto("flush")
  /\ ending' = how /\ joins' = Joins[how]

(* A null pointer or a failed assertion: CoredumpHandler.                  *)
Crash == End("signal") /\ UNCHANGED server

At(pc) == outcome = "none" /\ main_pc = pc

(* Mutant: flush() stops one of the two writers.                           *)
FlushRpc ==
  /\ At("flush")
  /\ IF zRpcLogger
     THEN /\ m_stop' = [m_stop EXCEPT !["rpc"] = TRUE]
          /\ writer_pc' = [writer_pc EXCEPT !["rpc"] = IF @ = "asleep" THEN "lock" ELSE @]
          /\ Goto("join_writers") /\ UNCHANGED outcome
     ELSE outcome' = ending /\ Goto("ended") /\ UNCHANGED writers
  /\ UNCHANGED <<file, zRpcLogger, server, threads, exit>>

Flush ==
  /\ At("flush")
  /\ IF zRpcLogger
     THEN /\ m_stop' = [w \in Writers |-> TRUE]
          /\ writer_pc' = [w \in Writers |-> IF writer_pc[w] = "asleep" /\ ~m_stop[w] THEN "lock"
                                             ELSE writer_pc[w]]
          /\ Goto("join_writers") /\ UNCHANGED outcome
     ELSE outcome' = ending /\ Goto("ended") /\ UNCHANGED writers
  /\ UNCHANGED <<file, zRpcLogger, server, threads, exit>>

JoinWriters ==
  /\ At("join_writers")
  /\ IF joins = <<>>
     THEN outcome' = ending /\ Goto("ended") /\ UNCHANGED joins
     ELSE writer_pc[Head(joins)] = "ended" /\ joins' = Tail(joins) /\ UNCHANGED <<outcome, main_pc>>
  /\ UNCHANGED <<file, zRpcLogger, server, threads, writers, ending>>

-----------------------------------------------------------------------------
(* The configuration *)

After == [log |-> "Logger", coroutine |-> "time_wheel", time_wheel |-> "other",
          other |-> "server", server |-> "protocal"]

(* exit(0) when the file, the node or one of its children is not there.    *)
readConf(node) ==
  /\ At(node)
  /\ IF missing \in {"file", node} \cup Children[node] THEN Goto("exit") ELSE Goto(After[node])
  /\ UNCHANGED <<file, zRpcLogger, server, threads, writers, exit, outcome>>

(* Logger::init makes two AsyncLoggers and waits until their threads run.  *)
NewLogger ==
  /\ At("Logger") /\ Goto("coroutine")
  /\ zRpcLogger' = TRUE
  /\ writer_pc' = [w \in Writers |-> "lock"]
  /\ UNCHANGED <<file, server, threads, m_stop, exit, outcome>>

toupper == [http |-> "HTTP", HTTP |-> "HTTP", zRpcPb |-> "ZRPCPB"]

(* Mutant: the text is not transformed before it is compared.              *)
m_server_protocalAsIs == protocal

m_server_protocal == toupper[protocal]

(* Whatever it is, the macro that reports it uses zRpcConfig.              *)
ChooseProtocal ==
  /\ At("protocal")
  /\ \/ /\ m_server_protocal \in {"HTTP", "zRpcPb"}
        /\ Goto("TcpServer") /\ UNCHANGED <<exit, server>>
     \/ /\ m_server_protocal \notin {"HTTP", "zRpcPb"}
        /\ IF zRpcConfig THEN Goto("main") /\ UNCHANGED <<exit, server>> ELSE Crash
  /\ UNCHANGED <<file, zRpcLogger, threads, writers, outcome>>
-----------------------------------------------------------------------------
(* The server and its IO threads *)

(* TcpServer's constructor up to the IO threads.                           *)
NewTcpServer ==
  /\ At("TcpServer")
  /\ IF zRpcConfig
     THEN /\ Goto("create") /\ UNCHANGED exit
          /\ m_protocal_type' = IF m_server_protocal = "HTTP" THEN "Http" ELSE "zRpcPb"
          /\ UNCHANGED <<zRpcServer, m_accept_cor, made, posted, stopped>>
     ELSE Crash
  /\ UNCHANGED <<file, zRpcLogger, threads, writers, outcome>>

(* IOThread's constructor starts the thread and waits for it.              *)
CreateThread ==
  /\ At("create")
  /\ IF made = m_io_thread_num
     THEN Goto("built") /\ UNCHANGED thread_pc
     ELSE Goto("wait_init") /\ thread_pc' = [thread_pc EXCEPT ![made] = "begin"]
  /\ UNCHANGED <<file, zRpcLogger, server, init_sem, start_sem, m_reactor, m_is_looping,
                 m_stop_flag, writers, exit, outcome>>

(* Mutant: the constructor does not wait for the thread.                   *)
WaitInitNot ==
  /\ At("wait_init")
  /\ made' = made + 1 /\ Goto("create")
  /\ UNCHANGED <<file, zRpcLogger, zRpcServer, m_protocal_type, m_accept_cor, posted, stopped,
                 threads, writers, exit, outcome>>

WaitInit ==
  /\ At("wait_init") /\ init_sem[made] > 0
  /\ init_sem' = [init_sem EXCEPT ![made] = @ - 1]
  /\ made' = made + 1 /\ Goto("create")
  /\ UNCHANGED <<file, zRpcLogger, zRpcServer, m_protocal_type, m_accept_cor, posted, stopped,
                 start_sem, thread_pc, m_reactor, m_is_looping, m_stop_flag, writers, exit, outcome>>

(* zRpcServer is assigned, the configuration has been read.                *)
Built ==
  /\ At("built") /\ Goto("main")
  /\ zRpcServer' = TRUE
  /\ UNCHANGED <<file, zRpcLogger, m_protocal_type, m_accept_cor, made, posted, stopped, threads,
                 writers, exit, outcome>>

(* main() starts the server, or returns, as a test does.                   *)
StartRpcServer ==
  /\ At("main")
  /\ IF zRpcServer THEN Goto("listen") /\ UNCHANGED <<exit, server>> ELSE Crash
  /\ UNCHANGED <<file, zRpcLogger, threads, writers, outcome>>

MainReturns ==
  /\ At("main") /\ Goto("exit")
  /\ UNCHANGED <<file, zRpcLogger, server, threads, writers, exit, outcome>>

(* TcpAcceptor::init: socket, bind and listen may fail.                    *)
Listen ==
  /\ At("listen")
  /\ \/ Goto("accept") /\ UNCHANGED exit
     \/ End("Exit")
  /\ UNCHANGED <<file, zRpcLogger, server, threads, writers, outcome>>

ResumeAccept ==
  /\ At("accept")
  /\ m_accept_cor' = TRUE
  /\ IF m_cor_need_resume THEN Goto("post") /\ UNCHANGED exit ELSE End("signal")
  /\ UNCHANGED <<file, zRpcLogger, zRpcServer, m_protocal_type, made, posted, stopped, threads,
                 writers, outcome>>

PostStart ==
  /\ At("post")
  /\ IF posted = m_io_thread_num
     THEN Goto("loop") /\ UNCHANGED <<posted, start_sem>>
     ELSE /\ start_sem' = [start_sem EXCEPT ![posted] = @ + 1]
          /\ posted' = posted + 1 /\ UNCHANGED main_pc
  /\ UNCHANGED <<file, zRpcLogger, zRpcServer, m_protocal_type, m_accept_cor, made, stopped,
                 init_sem, thread_pc, m_reactor, m_is_looping, m_stop_flag, writers, exit, outcome>>

(* The main reactor loops until a task stops it; then main() returns.      *)
MainReactorStops ==
  /\ At("loop") /\ Goto("exit")
  /\ UNCHANGED <<file, zRpcLogger, server, threads, writers, exit, outcome>>

-----------------------------------------------------------------------------
(* The destructors of the globals, zRpcServer's first *)

Destructors ==
  /\ At("exit")
  /\ IF zRpcServer THEN Goto("~TcpServer") /\ UNCHANGED exit ELSE End("exit")
  /\ UNCHANGED <<file, zRpcLogger, server, threads, writers, outcome>>

(* The accept coroutine, null before the start, goes back to the pool,     *)
(* which has been destroyed by then: undefined.                            *)
DestroyServer ==
  /\ At("~TcpServer")
  /\ \/ m_accept_cor /\ Goto("stop") /\ UNCHANGED <<exit, server>>
     \/ Crash
  /\ UNCHANGED <<file, zRpcLogger, threads, writers, outcome>>

(* ~IOThread: Reactor::stop, which a reactor that does not loop ignores,   *)
(* and the join.                                                           *)
StopThread ==
  /\ At("stop")
  /\ IF stopped = m_io_thread_num
     THEN End("exit") /\ UNCHANGED m_stop_flag
     ELSE /\ Goto("join") /\ UNCHANGED exit
          /\ m_stop_flag' = [m_stop_flag EXCEPT ![stopped] = @ \/ m_is_looping[stopped]]
  /\ UNCHANGED <<file, zRpcLogger, server, init_sem, start_sem, thread_pc, m_reactor,
                 m_is_looping, writers, outcome>>

JoinThread ==
  /\ At("join") /\ thread_pc[stopped] = "ended"
  /\ stopped' = stopped + 1 /\ Goto("stop")
  /\ UNCHANGED <<file, zRpcLogger, zRpcServer, m_protocal_type, m_accept_cor, made, posted,
                 threads, writers, exit, outcome>>

-----------------------------------------------------------------------------
(* IOThread::main *)

ThreadGoes(t, from, to) ==
  /\ outcome = "none" /\ thread_pc[t] = from
  /\ thread_pc' = [thread_pc EXCEPT ![t] = to]
  /\ UNCHANGED <<file, main_pc, zRpcLogger, server, writers, exit, outcome>>

NewReactor(t) ==
  /\ ThreadGoes(t, "begin", "post")
  /\ m_reactor' = [m_reactor EXCEPT ![t] = TRUE]
  /\ UNCHANGED <<init_sem, start_sem, m_is_looping, m_stop_flag>>

PostInit(t) ==
  /\ ThreadGoes(t, "post", "wait_start")
  /\ init_sem' = [init_sem EXCEPT ![t] = @ + 1]
  /\ UNCHANGED <<start_sem, m_reactor, m_is_looping, m_stop_flag>>

WaitStart(t) ==
  /\ start_sem[t] > 0 /\ ThreadGoes(t, "wait_start", "looping")
  /\ start_sem' = [start_sem EXCEPT ![t] = @ - 1]
  /\ UNCHANGED <<init_sem, m_reactor, m_is_looping, m_stop_flag>>

(* Reactor::loop says that it loops, and then forgets an earlier stop.     *)
Looping(t) ==
  /\ ThreadGoes(t, "looping", "reset")
  /\ m_is_looping' = [m_is_looping EXCEPT ![t] = TRUE]
  /\ UNCHANGED <<init_sem, start_sem, m_reactor, m_stop_flag>>

ResetStop(t) ==
  /\ ThreadGoes(t, "reset", "loop")
  /\ m_stop_flag' = [m_stop_flag EXCEPT ![t] = FALSE]
  /\ UNCHANGED <<init_sem, start_sem, m_reactor, m_is_looping>>

LoopEnds(t) ==
  /\ m_stop_flag[t] /\ ThreadGoes(t, "loop", "ended")
  /\ m_is_looping' = [m_is_looping EXCEPT ![t] = FALSE]
  /\ UNCHANGED <<init_sem, start_sem, m_reactor, m_stop_flag>>

-----------------------------------------------------------------------------
(* A writer that has nothing to write (AsyncLogger is the whole of it)     *)

WriterGoes(w, from, to) ==
  /\ outcome = "none" /\ writer_pc[w] = from
  /\ writer_pc' = [writer_pc EXCEPT ![w] = to]
  /\ UNCHANGED <<file, main_pc, zRpcLogger, server, threads, m_stop, exit>>

WriterTests(w)  == WriterGoes(w, "lock", IF m_stop[w] THEN "take" ELSE "to_wait")
                     /\ UNCHANGED outcome
WriterSleeps(w) == WriterGoes(w, "to_wait", "asleep") /\ UNCHANGED outcome

(* It takes from an empty queue, which may end the process.                *)
WriterEnds(w) ==
  /\ WriterGoes(w, "take", "ended")
  /\ \/ UNCHANGED outcome
     \/ outcome' = "signal"

-----------------------------------------------------------------------------
MainSteps ==
  \/ \E node \in Nodes : readConf(node)
  \/ NewLogger \/ ChooseProtocal \/ NewTcpServer \/ CreateThread \/ WaitInit \/ Built
  \/ StartRpcServer \/ MainReturns \/ Listen \/ ResumeAccept \/ PostStart
  \/ Destructors \/ DestroyServer \/ StopThread \/ JoinThread \/ Flush \/ JoinWriters

ThreadSteps(t) == NewReactor(t) \/ PostInit(t) \/ WaitStart(t) \/ Looping(t) \/ ResetStop(t)
                    \/ LoopEnds(t)
WriterSteps(w) == WriterTests(w) \/ WriterSleeps(w) \/ WriterEnds(w)

Next == \/ MainSteps \/ MainReactorStops
        \/ \E t \in Threads : ThreadSteps(t)
        \/ \E w \in Writers : WriterSteps(w)

Spec == Init /\ [][Next]_vars

(* Every thread that can go on does; nobody has to stop the server.        *)
FairSpec == /\ Spec /\ WF_vars(MainSteps)
            /\ \A t \in Threads : WF_vars(ThreadSteps(t))
            /\ \A w \in Writers : WF_vars(WriterSteps(w))

-----------------------------------------------------------------------------
(* The reactor of every IO thread that has been constructed can be used,   *)
(* none loops before the acceptor listens, and all are on their way when   *)
(* the main reactor accepts: connections, tasks and coroutines are handed  *)
(* to getReactor() of any thread without a lock (the two semaphores).      *)
IOThreadsReady ==
  \A t \in Threads : /\ t < made => m_reactor[t]
                     /\ thread_pc[t] \in {"looping", "reset", "loop"} => m_accept_cor /\ t < posted
                     /\ main_pc = "loop" => t < made /\ t < posted

(* A server that is made speaks the protocol the file names, in any case;  *)
(* a file that names zRpcPb makes no server, whatever its spelling.        *)
SpeaksAsConfigured ==
  zRpcServer => missing = "nothing" /\ m_protocal_type = "Http" /\ protocal \in {"http", "HTTP"}

(* stop() went unheard: by a writer that had tested m_stop, or by an IO    *)
(* thread whose loop had not come past its reset.                          *)
LostSignal == \E w \in Writers : m_stop[w] /\ writer_pc[w] = "asleep"
LostStop   == main_pc = "join" /\ ~m_stop_flag[stopped]

(* A process that begins to end does end, whatever its threads are doing,  *)
(* unless one of the threads it joins has missed its stop.                 *)
EndsUnlessLost ==
  (main_pc \in {"exit", "flush"}) ~> (outcome # "none" \/ LostSignal \/ LostStop)
=============================================================================
