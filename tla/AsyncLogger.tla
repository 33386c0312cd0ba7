----------------------------- MODULE AsyncLogger -----------------------------
(***************************************************************************)
(* AsyncLogger (AsyncLogger.h): log() collects entries in current_buffer_  *)
(* and queues it when full; a thread takes the buffers and writes them;    *)
(* stop() ends that thread and writes what is left.                        *)
(*                                                                         *)
(* Entries are numbered in the order log() takes the lock.  The loop       *)
(* condition of the thread reads both containers without the lock, so the  *)
(* two halves of log(), and the reads, are steps of their own.             *)
(* Notifications are left out: they shorten a wait that ends by itself     *)
(* after 100 ms.  A stop() that finds running_ false returns at once and   *)
(* is left out as well.                                                    *)
(***************************************************************************)
EXTENDS Naturals, Sequences

CONSTANTS
    MaxLogs,     \* bound on the calls of log()
    BufferSize,  \* buffer_size_
    Sizes,       \* the sizes of an entry
    Batch        \* buffers taken at a time

ASSUME LoggerAssumption ==
    /\ MaxLogs \in Nat /\ BufferSize \in Nat /\ Batch \in Nat \ {0}
    /\ Sizes \subseteq Nat \ {0}

VARIABLES
    running,         \* running_
    current_buffer,  \* current_buffer_, the entries in it
    room,            \* capacity() - size() of current_buffer_
    buffers,         \* buffers_to_write_
    local,           \* local_buffers, those not yet written
    file,            \* log_file_
    logged,          \* entries accepted
    size,            \* of the entry log() is adding, or 0 when it does not have mutex_
    writer,          \* where write_thread_ is
    stop,            \* where stop() is: "no", "join", "drain" with mutex_, "done"
    mark             \* entries accepted when running_ became false

logVars == <<running, current_buffer, room, buffers, local, file, logged, size,
             writer, stop, mark>>

LogInit ==
    /\ running = TRUE
    /\ current_buffer = << >>
    /\ room = BufferSize
    /\ buffers = << >>
    /\ local = << >>
    /\ file = << >>
    /\ logged = 0
    /\ size = 0
    /\ writer = "running"
    /\ stop = "no"
    /\ mark = 0

MutexFree == size = 0 /\ stop # "drain"

-----------------------------------------------------------------------------
(* log() has the lock.  A full buffer is queued; an entry larger than      *)
(* buffer_size_ queues an empty one.                                       *)
LogBegin(n) ==
    /\ MutexFree
    /\ logged < MaxLogs
    /\ size' = n
    /\ IF room < n
         THEN /\ buffers' = Append(buffers, current_buffer)
              /\ current_buffer' = << >>
              /\ room' = BufferSize
         ELSE UNCHANGED <<buffers, current_buffer, room>>
    /\ UNCHANGED <<running, local, file, logged, writer, stop, mark>>

(* The string grows when even the fresh buffer is too small. *)
LogEnd ==
    /\ size # 0
    /\ logged' = logged + 1
    /\ current_buffer' = Append(current_buffer, logged')
    /\ room' = IF size > room THEN 0 ELSE room - size
    /\ size' = 0
    /\ UNCHANGED <<running, buffers, local, file, writer, stop, mark>>

-----------------------------------------------------------------------------
Goto(place) == writer' = place

loopFrame == <<running, current_buffer, room, buffers, local, file, logged, size, stop, mark>>

(* Mutant: the thread ends as soon as running_ is false. *)
ReadRunning_Stop ==
    /\ writer = "running"
    /\ Goto(IF running THEN "lock" ELSE "ended")
    /\ UNCHANGED loopFrame

(* The loop condition, read without the lock. *)
ReadRunning ==
    /\ writer = "running"
    /\ Goto(IF running THEN "lock" ELSE "buffers")
    /\ UNCHANGED loopFrame

ReadBuffers ==
    /\ writer = "buffers"
    /\ Goto(IF buffers # << >> THEN "lock" ELSE "current")
    /\ UNCHANGED loopFrame

ReadCurrent ==
    /\ writer = "current"
    /\ Goto(IF current_buffer # << >> THEN "lock" ELSE "ended")
    /\ UNCHANGED loopFrame

Least(a, b) == IF a < b THEN a ELSE b

(* buffers_to_write_ with the current buffer behind, unless it is empty. *)
Queued == IF current_buffer = << >> THEN buffers ELSE Append(buffers, current_buffer)

(* Mutant: only what is queued is written; a part-filled buffer waits. *)
Take_OnlyFull ==
    /\ writer = "lock"
    /\ MutexFree
    /\ IF buffers = << >>
         THEN Goto("wait") /\ UNCHANGED <<current_buffer, room, buffers, local>>
         ELSE LET n == Least(Len(buffers), Batch)
              IN  /\ local' = SubSeq(buffers, 1, n)
                  /\ buffers' = SubSeq(buffers, n + 1, Len(buffers))
                  /\ UNCHANGED <<current_buffer, room>>
                  /\ Goto("write")
    /\ UNCHANGED <<running, file, logged, size, stop, mark>>

(* The critical section: wait if there is nothing, or take a batch. *)
Take ==
    /\ writer = "lock"
    /\ MutexFree
    /\ IF Queued = << >>
         THEN Goto("wait") /\ UNCHANGED <<current_buffer, room, buffers, local>>
         ELSE LET n == Least(Len(Queued), Batch)
              IN  /\ local' = SubSeq(Queued, 1, n)
                  /\ buffers' = SubSeq(Queued, n + 1, Len(Queued))
                  /\ current_buffer' = << >>
                  /\ room' = IF current_buffer = << >> THEN room ELSE BufferSize
                  /\ Goto("write")
    /\ UNCHANGED <<running, file, logged, size, stop, mark>>

(* wait_for() returns with the lock, which continue gives up. *)
EndWait ==
    /\ writer = "wait"
    /\ MutexFree
    /\ Goto("running")
    /\ UNCHANGED loopFrame

WriteToFile ==
    /\ writer = "write"
    /\ IF local = << >>
         THEN Goto("running") /\ UNCHANGED <<local, file>>
         ELSE /\ file' = file \o Head(local)
              /\ local' = Tail(local)
              /\ UNCHANGED writer
    /\ UNCHANGED <<running, current_buffer, room, buffers, logged, size, stop, mark>>

WriteLoop ==
    ReadRunning \/ ReadBuffers \/ ReadCurrent \/ Take \/ EndWait \/ WriteToFile

-----------------------------------------------------------------------------
(* Mutant: running_ is tested and not cleared. *)
Stop_KeepRunning ==
    /\ stop = "no"
    /\ mark' = logged
    /\ stop' = "join"
    /\ UNCHANGED <<running, current_buffer, room, buffers, local, file, logged, size, writer>>

(* stop(): running_.exchange(false) ... *)
Stop ==
    /\ stop = "no"
    /\ running' = FALSE
    /\ mark' = logged
    /\ stop' = "join"
    /\ UNCHANGED <<current_buffer, room, buffers, local, file, logged, size, writer>>

(* ... and, the thread joined, the rest is written with the lock held:     *)
(* first the current buffer, which is not cleared ...                      *)
StopCurrent ==
    /\ stop = "join"
    /\ writer = "ended"
    /\ MutexFree
    /\ file' = file \o current_buffer
    /\ stop' = "drain"
    /\ UNCHANGED <<running, current_buffer, room, buffers, local, logged, size, writer, mark>>

(* ... then the queue.  The file is closed. *)
StopDrain ==
    /\ stop = "drain"
    /\ IF buffers = << >>
         THEN stop' = "done" /\ UNCHANGED <<file, buffers>>
         ELSE /\ file' = file \o Head(buffers)
              /\ buffers' = Tail(buffers)
              /\ UNCHANGED stop
    /\ UNCHANGED <<running, current_buffer, room, local, logged, size, writer, mark>>

LogNext ==
    (\E n \in Sizes : LogBegin(n)) \/ LogEnd \/ WriteLoop \/ Stop \/ StopCurrent \/ StopDrain

LogSpec == LogInit /\ [][LogNext]_logVars

(* A log() in the critical section leaves it, the thread runs and its wait *)
(* times out, and a stop() that has begun goes on.                         *)
LogFairSpec ==
    LogSpec /\ WF_logVars(LogEnd) /\ WF_logVars(WriteLoop) /\ WF_logVars(StopCurrent \/ StopDrain)

-----------------------------------------------------------------------------
Held == local \o buffers \o <<current_buffer>>

(* f is the first entries and bs holds those behind them up to n, each     *)
(* once, in order within a buffer and from one to the next.                *)
InOrder(f, bs, n) ==
    /\ Len(f) <= n /\ \A i \in DOMAIN f : f[i] = i
    /\ \A b \in DOMAIN bs : \A k \in DOMAIN bs[b] : bs[b][k] \in Len(f) + 1 .. n
    /\ \A m \in Len(f) + 1 .. n : \E b \in DOMAIN bs : \E k \in DOMAIN bs[b] : bs[b][k] = m
    /\ \A b, c \in DOMAIN bs : \A k \in DOMAIN bs[b] : \A l \in DOMAIN bs[c] :
          b < c \/ (b = c /\ k < l) => bs[b][k] < bs[c][l]

(* Until stop() writes the rest, the file, the batch, the queue and the    *)
(* current buffer together are the entries in the order they were          *)
(* accepted: none is lost, written twice or overtaken.  When stop()        *)
(* returns the entries accepted before it are all in the file, in order    *)
(* among themselves; entries that race it may be out of order, and later   *)
(* ones are lost.                                                          *)
WrittenInOrder ==
    /\ stop \in {"no", "join"} => InOrder(file, Held, logged)
    /\ stop = "done" =>
          /\ \A m \in 1 .. mark : \E i \in DOMAIN file : file[i] = m
          /\ \A i, j \in DOMAIN file :
                i < j /\ file[i] <= mark /\ file[j] <= mark => file[i] < file[j]

(* Every entry accepted before stop() reaches the file without further     *)
(* calls of log(): the buffer need not fill up first.                      *)
EventuallyWritten ==
    \A m \in 1 .. MaxLogs :
        (m <= logged /\ (running \/ m <= mark)) ~> \E i \in DOMAIN file : file[i] = m

(* A stop() returns once the calls of log() have ceased. *)
StopReturns == (stop = "join") ~> (stop = "done")
=============================================================================
