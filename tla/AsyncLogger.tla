---------------------------- MODULE AsyncLogger ----------------------------
(***************************************************************************)
(* One log of the program (src/src/common/log.cpp): the buffer that        *)
(* pushRpcLog or pushAppLog fills, loopFunc, which the timer runs and      *)
(* which Exit, the signal handler and ~Logger run as the first part of     *)
(* flush(), and the AsyncLogger whose thread writes what it is handed to   *)
(* a file that it changes with the day and with the file's size.           *)
(*                                                                         *)
(* m_stop is written and the condition is signalled without m_mutex.  The  *)
(* sizes of files are counted in lines.                                    *)
(***************************************************************************)
EXTENDS Naturals, FiniteSets, SequencesExt

CONSTANTS
  Flushers,       (* threads that run loopFunc                               *)
  Exiting,        (* those that may call flush() and wait for the writer     *)
  m_max_size,
  MaxLines,       (* bound: log lines                                        *)
  MaxDate,        (* bound: days                                             *)
  MaxNo,          (* bound: m_no                                             *)
  MaxStarts       (* bound: how often the process is started                 *)

LoggerAssumption ==
  /\ Exiting \subseteq Flushers
  /\ {m_max_size, MaxLines, MaxNo} \subseteq Nat
  /\ {MaxDate, MaxStarts} \subseteq Nat \ {0}

ASSUME LoggerAssumption

Lines == 1 .. MaxLines
Files == (1 .. MaxDate) \X (0 .. MaxNo)
NoFile == <<0, 0>>

VARIABLES
  active,             \* the threads that call loopFunc()
  made,               \* lines logged so far: line n is the n-th
  buffer,             \* m_rpc_buffer or m_app_buffer
  m_tasks, m_stop,
  flusher_pc, batch, exiting,
  writer_pc, tmp, is_stop,
  today, m_date, m_no, m_file_handle,
  files,              \* the files, which survive the process
  starts,             \* how often the process was started
  written,            \* history: the lines in the order they were written
  lost                \* history: the lines that went down with a process

logs    == <<made, buffer>>
queue   == <<m_tasks, m_stop>>
flusher == <<flusher_pc, batch, exiting>>
writer  == <<writer_pc, tmp, is_stop>>
disk    == <<m_date, m_no, m_file_handle, files, written>>
moves   == <<logs, queue, flusher, writer, disk>>
vars    == <<active, logs, queue, flusher, writer, today, disk, starts, lost>>

Init ==
  /\ active \in SUBSET Flushers \ {{}}
  /\ made = 0 /\ buffer = <<>>
  /\ m_tasks = <<>> /\ m_stop = FALSE
  /\ flusher_pc = [t \in Flushers |-> "idle"]
  /\ batch = [t \in Flushers |-> <<>>] /\ exiting = [t \in Flushers |-> FALSE]
  /\ writer_pc = "lock" /\ tmp = <<>> /\ is_stop = FALSE
  /\ today = 1 /\ m_date = 1 /\ m_no = 0 /\ m_file_handle = NoFile
  /\ files = [f \in Files |-> <<>>]
  /\ starts = 1 /\ written = <<>> /\ lost = {}

TypeOK ==
  /\ active \subseteq Flushers
  /\ made \in Lines \cup {0} /\ buffer \in Seq(Lines)
  /\ m_tasks \in Seq(Seq(Lines)) /\ m_stop \in BOOLEAN
  /\ flusher_pc \in
       [Flushers -> {"idle", "push", "signal", "stop", "stop_signal", "join", "exited"}]
  /\ batch \in [Flushers -> Seq(Lines)] /\ exiting \in [Flushers -> BOOLEAN]
  /\ writer_pc \in {"lock", "to_wait", "asleep", "take", "write", "ended", "down"}
  /\ tmp \in Seq(Lines) /\ is_stop \in BOOLEAN
  /\ {today, m_date} \subseteq 1 .. MaxDate /\ m_no \in 0 .. MaxNo
  /\ m_file_handle \in Files \cup {NoFile}
  /\ files \in [Files -> Seq(Lines)]
  /\ starts \in 1 .. MaxStarts /\ written \in Seq(Lines) /\ lost \subseteq Lines

Up == writer_pc # "down"

-----------------------------------------------------------------------------
(* Any thread logs a line: one critical section of the buffer's mutex.     *)
pushLog ==
  /\ Up /\ made < MaxLines
  /\ made' = made + 1
  /\ buffer' = Append(buffer, made + 1)
  /\ UNCHANGED <<queue, flusher, writer, today, disk, starts, lost>>

Goto(t, pc) == flusher_pc' = [flusher_pc EXCEPT ![t] = pc]

(* Mutant: the buffer is copied and not emptied.                           *)
CopyBuffer(t) ==
  /\ Up /\ t \in active /\ flusher_pc[t] = "idle"
  /\ batch' = [batch EXCEPT ![t] = buffer]
  /\ Goto(t, "push")
  /\ UNCHANGED <<logs, exiting, queue, writer, today, disk, starts, lost>>

(* loopFunc() empties the buffer in a critical section of its own ...      *)
SwapBuffer(t) ==
  /\ Up /\ t \in active /\ flusher_pc[t] = "idle"
  /\ batch' = [batch EXCEPT ![t] = buffer]
  /\ buffer' = <<>>
  /\ \E e \in {x \in BOOLEAN : x => t \in Exiting} : exiting' = [exiting EXCEPT ![t] = e]
  /\ Goto(t, "push")
  /\ UNCHANGED <<made, queue, writer, today, disk, starts, lost>>

(* m_mutex is free unless the writer is between the test of the queue and  *)
(* its wait or its pop.                                                    *)
MutexFree == writer_pc \notin {"to_wait", "take"}
Pushed(t) == IF exiting[t] THEN "stop" ELSE "idle"

(* ... and hands over what it took, unless it is empty.                    *)
push(t) ==
  /\ Up /\ flusher_pc[t] = "push"
  /\ batch' = [batch EXCEPT ![t] = <<>>]
  /\ IF batch[t] = <<>>
     THEN /\ Goto(t, Pushed(t))
          /\ UNCHANGED m_tasks
     ELSE /\ MutexFree
          /\ m_tasks' = Append(m_tasks, batch[t])
          /\ Goto(t, "signal")
  /\ UNCHANGED <<logs, m_stop, exiting, writer, today, disk, starts, lost>>

(* Mutant: the condition is not signalled.                                 *)
noSignal == UNCHANGED writer_pc

(* pthread_cond_signal wakes a writer that waits, and is forgotten if none *)
(* does.                                                                   *)
signal == writer_pc' = IF writer_pc = "asleep" THEN "lock" ELSE writer_pc

pushSignal(t) ==
  /\ Up /\ flusher_pc[t] = "signal"
  /\ signal
  /\ Goto(t, Pushed(t))
  /\ UNCHANGED <<logs, queue, batch, exiting, tmp, is_stop, today, disk, starts, lost>>

stop(t) ==
  /\ Up /\ flusher_pc[t] = "stop"
  /\ Goto(t, IF m_stop THEN "join" ELSE "stop_signal")
  /\ m_stop' = TRUE
  /\ UNCHANGED <<logs, m_tasks, batch, exiting, writer, today, disk, starts, lost>>

stopSignal(t) ==
  /\ Up /\ flusher_pc[t] = "stop_signal"
  /\ signal
  /\ Goto(t, "join")
  /\ UNCHANGED <<logs, queue, batch, exiting, tmp, is_stop, today, disk, starts, lost>>

(* What the process held and had not written is gone.                      *)
Volatile ==
  Range(buffer) \cup Range(FlattenSeq(m_tasks)) \cup Range(tmp)
    \cup UNION {Range(batch[t]) : t \in Flushers}

GoDown == writer_pc' = "down" /\ lost' = lost \cup Volatile
          /\ buffer' = <<>> /\ m_tasks' = <<>> /\ tmp' = <<>>
          /\ batch' = [t \in Flushers |-> <<>>]

(* Exit joins the writer and ends the process.                             *)
Exit(t) ==
  /\ flusher_pc[t] = "join" /\ writer_pc = "ended"
  /\ GoDown /\ Goto(t, "exited")
  /\ UNCHANGED <<made, m_stop, exiting, is_stop, today, disk, starts>>

-----------------------------------------------------------------------------
(* The writer: AsyncLogger::execute                                        *)

WriterCheck ==
  /\ writer_pc = "lock"
  /\ writer_pc' = IF m_tasks = <<>> /\ ~m_stop THEN "to_wait" ELSE "take"
  /\ UNCHANGED <<logs, queue, flusher, tmp, is_stop, today, disk, starts, lost>>

(* pthread_cond_wait releases m_mutex; it may also return without a signal.*)
WriterWait ==
  /\ writer_pc = "to_wait" /\ writer_pc' = "asleep"
  /\ UNCHANGED <<logs, queue, flusher, tmp, is_stop, today, disk, starts, lost>>

SpuriousWakeup ==
  /\ writer_pc = "asleep" /\ writer_pc' = "lock"
  /\ UNCHANGED <<logs, queue, flusher, tmp, is_stop, today, disk, starts, lost>>

(* Mutant: the newest batch is taken first.                                *)
WriterTakesLast ==
  /\ writer_pc = "take" /\ m_tasks # <<>>
  /\ writer_pc' = "write"
  /\ tmp' = Last(m_tasks) /\ m_tasks' = Front(m_tasks)
  /\ is_stop' = m_stop
  /\ UNCHANGED <<logs, m_stop, flusher, today, disk, starts, lost>>

WriterTake ==
  /\ writer_pc = "take" /\ m_tasks # <<>>
  /\ writer_pc' = "write"
  /\ tmp' = Head(m_tasks) /\ m_tasks' = Tail(m_tasks)
  /\ is_stop' = m_stop
  /\ UNCHANGED <<logs, m_stop, flusher, today, disk, starts, lost>>

(* After stop() the queue may be empty: front() and pop() of an empty      *)
(* queue are undefined, and yield an empty vector or end the process.      *)
WriterTakesNothing ==
  /\ writer_pc = "take" /\ m_tasks = <<>>
  /\ \/ /\ writer_pc' = "write" /\ is_stop' = m_stop
        /\ UNCHANGED <<logs, queue, flusher, tmp, today, disk, starts, lost>>
     \/ /\ GoDown
        /\ UNCHANGED <<made, m_stop, flusher_pc, exiting, is_stop, today, disk, starts>>

-----------------------------------------------------------------------------
(* The file: a new day starts at m_no = 0; a file that has grown over      *)
(* m_max_size is left for the next number.                                 *)
NumberToday == IF m_date = today THEN m_no ELSE 0
OverSize(f) == Len(files[f]) > m_max_size

(* Mutant: the next file of a day replaces the first one.                  *)
NextNumberWraps == IF OverSize(<<today, NumberToday>>) THEN 1 - NumberToday ELSE NumberToday

NextNumber ==
  IF OverSize(<<today, NumberToday>>) THEN NumberToday + 1 ELSE NumberToday

WriteBatch ==
  /\ writer_pc = "write" /\ NextNumber <= MaxNo
  /\ LET f == <<today, NextNumber>> IN
     /\ m_date' = today /\ m_no' = NextNumber
     /\ m_file_handle' = IF is_stop THEN NoFile ELSE f
     /\ files' = [files EXCEPT ![f] = @ \o tmp]
  /\ written' = written \o tmp
  /\ tmp' = <<>>
  /\ writer_pc' = IF is_stop THEN "ended" ELSE "lock"
  /\ UNCHANGED <<logs, queue, flusher, is_stop, today, starts, lost>>

-----------------------------------------------------------------------------
Midnight ==
  /\ today < MaxDate /\ today' = today + 1
  /\ UNCHANGED <<logs, queue, flusher, writer, disk, starts, lost>>

(* The process may be killed, and started again: Logger::init makes a new  *)
(* AsyncLogger on the files that are there.                                *)
Kill ==
  /\ Up /\ starts < MaxStarts /\ GoDown
  /\ UNCHANGED <<made, m_stop, flusher_pc, exiting, is_stop, today, disk, starts>>

Start ==
  /\ ~Up /\ starts < MaxStarts /\ starts' = starts + 1
  /\ writer_pc' = "lock" /\ m_stop' = FALSE /\ is_stop' = FALSE
  /\ flusher_pc' = [t \in Flushers |-> "idle"]
  /\ exiting' = [t \in Flushers |-> FALSE]
  /\ m_date' = today /\ m_no' = 0 /\ m_file_handle' = NoFile
  /\ UNCHANGED <<logs, m_tasks, batch, tmp, today, files, written, lost>>

FlusherSteps(t) ==
  push(t) \/ pushSignal(t) \/ stop(t) \/ stopSignal(t) \/ Exit(t)

WriterSteps ==
  WriterCheck \/ WriterWait \/ WriterTake \/ WriterTakesNothing \/ WriteBatch

Next ==
  /\ \/ pushLog \/ (\E t \in Flushers : SwapBuffer(t) \/ FlusherSteps(t))
     \/ WriterSteps \/ SpuriousWakeup \/ Midnight \/ Kill \/ Start
  /\ UNCHANGED active

Spec == Init /\ [][Next]_vars

(* Threads that run keep running, a thread that waits for m_mutex gets it  *)
(* when it is free again and again, and the timer runs loopFunc again.     *)
FairSpec ==
  /\ Spec /\ WF_moves(WriterSteps)
  /\ \A t \in Flushers : SF_moves(FlusherSteps(t)) /\ WF_moves(SwapBuffer(t))

-----------------------------------------------------------------------------
(* What was handed to the writer, and with it what is still on its way,    *)
(* from the file back to the buffer.                                       *)
Handed      == written \o tmp \o FlattenSeq(m_tasks)
OnTheWay(t) == Handed \o batch[t] \o buffer

(* Each line is in one place: written once, on its way, or gone with a     *)
(* process.  Two threads in loopFunc and the writer, a stop and a restart  *)
(* make no line vanish from a running process or appear twice.             *)
Shared == Handed \o buffer
EachLineOnce ==
  LET all == Range(Shared) \cup UNION {Range(batch[t]) : t \in Flushers}
  IN  /\ IsInjective(Shared)
      /\ \A t \in Flushers : IsInjective(batch[t]) /\ Range(batch[t]) \cap Range(Shared) = {}
      /\ \A t, u \in Flushers : t # u => Range(batch[t]) \cap Range(batch[u]) = {}
      /\ all \cap lost = {}
      /\ all \cup lost = 1 .. made

(* When one thread runs loopFunc the lines are written in the order they   *)
(* were logged, through the buffer, the queue of batches and the file.     *)
WrittenAsLogged ==
  \A t \in Flushers : active = {t} =>
    \A i, j \in DOMAIN OnTheWay(t) : i < j => OnTheWay(t)[i] < OnTheWay(t)[j]

(* In the first run of the process the files, read by day and by number,   *)
(* hold the lines in the order they were written (execute, the rotation).  *)
OfDay(d) == FlattenSeq([n \in 1 .. MaxNo + 1 |-> files[<<d, n - 1>>]])
FilesReadInOrder == starts = 1 => FlattenSeq([d \in 1 .. MaxDate |-> OfDay(d)]) = written

(* Who reads the files finds the lines in the order they were logged.      *)
LinesInOrder == WrittenAsLogged /\ FilesReadInOrder

(* A line that is logged is written, however the pushes, their signals and *)
(* the writer's wait fall, unless stop() is called or the process dies.    *)
EveryLineWritten ==
  \A n \in Lines : (n <= made) ~> (n \in Range(written) \cup lost \/ m_stop)
=============================================================================
