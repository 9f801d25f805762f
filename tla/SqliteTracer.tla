----------------------------- MODULE SqliteTracer -----------------------------
(***************************************************************************)
(* rllm/sdk/tracers/sqlite.py: a tracer that accepts LLM traces into a     *)
(* bounded queue.Queue and lets a background thread, which runs an asyncio *)
(* loop of its own, persist them in a SqliteTraceStore.                    *)
(*                                                                         *)
(* Threads: any number of callers of log_llm_call (one per trace here),    *)
(* callers of flush, callers of close, and the worker threads.  A worker   *)
(* is started by __init__ and again by every log_llm_call that finds the   *)
(* last one dead.  What another thread can observe between two statements  *)
(* is a step; the awaited sqlite write is one step that succeeds or fails. *)
(***************************************************************************)
EXTENDS Naturals, Sequences, FiniteSets

CONSTANTS Traces,      \* the traces callers log, one log_llm_call each
          NoUids,      \* those of them logged with no session_uids
          Flushers,    \* callers of flush
          Closers,     \* callers of close / close_sync
          MaxQueue,    \* max_queue_size
          MaxRetries,  \* max_retries of _store_trace_with_retry (3 in the code)
          MaxWorkers   \* bound: worker threads ever started

ASSUME TracerAssumption ==
    /\ IsFiniteSet(Traces)
    /\ NoUids \subseteq Traces
    /\ MaxQueue \in Nat \ {0}
    /\ MaxRetries \in Nat \ {0}
    /\ MaxWorkers \in Nat \ {0}

Workers == 1..MaxWorkers
STOP    == "STOP"    \* SqliteTracer._STOP
None    == 0         \* Python's None where a worker is expected

ASSUME StopIsNoTrace == STOP \notin Traces

VARIABLES queue,       \* _store_queue: traces and STOP sentinels
          unfinished,  \* _store_queue.unfinished_tasks
          thread,      \* _worker_thread: the last worker started
          loop,        \* _worker_loop: the worker whose loop it is, or None
          wpc,         \* where each worker thread is
          item,        \* the queue item a worker holds
          attempt,     \* its attempt of _store_trace_with_retry
          stopReq,     \* the _stop callback is scheduled on this worker's loop
          lpc,         \* where the log_llm_call of each trace is
          fpc,         \* where each flush call is
          snap,        \* the traces accepted when it was called (history)
          cpc,         \* where each close call is
          joined,      \* the worker whose thread it joins
          accepted,    \* traces put on the queue, in order (history)
          stored,      \* traces committed to the store
          failed       \* traces given up, an error in the log

workerVars == <<wpc, item, attempt, stopReq>>
flushVars  == <<fpc, snap>>
closeVars  == <<cpc, joined>>
vars == <<queue, unfinished, thread, loop, workerVars, lpc, flushVars,
          closeVars, accepted, stored, failed>>

Accepted == {t \in Traces : lpc[t] = "queued"}
Settled  == stored \cup failed

Full == Len(queue) >= MaxQueue    \* put_nowait raises queue.Full

Alive(w) == wpc[w] \notin {"unborn", "dead"}

-------------------------------------------------------------------------------
(* __init__ starts the first worker and waits until its loop runs. *)
Init ==
    /\ queue = <<>>
    /\ unfinished = 0
    /\ thread = 1
    /\ loop = 1
    /\ wpc = [w \in Workers |-> IF w = 1 THEN "get" ELSE "unborn"]
    /\ item = [w \in Workers |-> STOP]
    /\ attempt = [w \in Workers |-> 0]
    /\ stopReq = [w \in Workers |-> FALSE]
    /\ lpc = [t \in Traces |-> "idle"]
    /\ fpc = [f \in Flushers |-> "idle"]
    /\ snap = [f \in Flushers |-> {}]
    /\ cpc = [c \in Closers |-> "idle"]
    /\ joined = [c \in Closers |-> None]
    /\ accepted = <<>>
    /\ stored = {}
    /\ failed = {}

-------------------------------------------------------------------------------
(* log_llm_call *)

\* _queue_trace, and _start_background_worker again, read is_alive; another
\* thread may act on the same answer before this one does.
LogCheck(t) ==
    /\ lpc[t] = "idle"
    /\ lpc' = [lpc EXCEPT ![t] = IF Alive(thread) THEN "put" ELSE "start"]
    /\ UNCHANGED <<queue, unfinished, thread, loop, workerVars, flushVars,
                   closeVars, accepted, stored, failed>>

\* _start_background_worker replaces the thread.  Its wait returns at once:
\* _worker_started stays set from the first worker on.
LogStart(t) ==
    /\ lpc[t] = "start"
    /\ lpc' = [lpc EXCEPT ![t] = "put"]
    /\ \E w \in Workers :
          /\ wpc[w] = "unborn"
          /\ \A v \in Workers : v < w => wpc[v] # "unborn"
          /\ thread' = w
          /\ wpc' = [wpc EXCEPT ![w] = "boot"]
    /\ UNCHANGED <<queue, unfinished, loop, item, attempt, stopReq, flushVars,
                   closeVars, accepted, stored, failed>>

\* put_nowait: on queue.Full the trace is dropped with a warning.
LogPut(t) ==
    /\ lpc[t] = "put"
    /\ \/ /\ ~Full
          /\ queue' = Append(queue, t)
          /\ unfinished' = unfinished + 1
          /\ lpc' = [lpc EXCEPT ![t] = "queued"]
          /\ accepted' = Append(accepted, t)
       \/ /\ Full
          /\ lpc' = [lpc EXCEPT ![t] = "dropped"]
          /\ UNCHANGED <<queue, unfinished, accepted>>
    /\ UNCHANGED <<thread, loop, workerVars, flushVars, closeVars, stored,
                   failed>>

-------------------------------------------------------------------------------
(* The worker thread *)

\* _run_worker_loop publishes the loop of its thread.  Left out: a second worker
\* doing so before this one has read the field back, two statements later.
WorkerBoot(w) ==
    /\ wpc[w] = "boot"
    /\ \A v \in Workers : wpc[v] # "born"
    /\ loop' = w
    /\ wpc' = [wpc EXCEPT ![w] = "born"]
    /\ UNCHANGED <<queue, unfinished, thread, item, attempt, stopReq, lpc,
                   flushVars, closeVars, accepted, stored, failed>>

\* It reads the field again for create_task and for run_forever.  A close that
\* was late has closed and forgotten the loop by then: either call raises, and
\* the thread ends before it took anything.
WorkerRun(w) ==
    /\ wpc[w] = "born"
    /\ wpc' = [wpc EXCEPT ![w] = IF loop = w THEN "get" ELSE "dead"]
    /\ UNCHANGED <<queue, unfinished, thread, loop, item, attempt, stopReq, lpc,
                   flushVars, closeVars, accepted, stored, failed>>

\* Mutants of WorkerGet: task_done right after get; the item is only looked at.
WorkerGet_Done(w) ==
    /\ wpc[w] = "get"
    /\ queue # <<>>
    /\ Head(queue) # STOP
    /\ queue' = Tail(queue)
    /\ unfinished' = unfinished - 1
    /\ item' = [item EXCEPT ![w] = Head(queue)]
    /\ attempt' = [attempt EXCEPT ![w] = 1]
    /\ wpc' = [wpc EXCEPT ![w] = "store"]
    /\ UNCHANGED <<thread, loop, stopReq, lpc, flushVars, closeVars, accepted,
                   stored, failed>>
WorkerGet_Peeks(w) ==
    /\ wpc[w] = "get"
    /\ queue # <<>>
    /\ Head(queue) # STOP
    /\ item' = [item EXCEPT ![w] = Head(queue)]
    /\ attempt' = [attempt EXCEPT ![w] = 1]
    /\ wpc' = [wpc EXCEPT ![w] = "store"]
    /\ UNCHANGED <<queue, unfinished, thread, loop, stopReq, lpc, flushVars,
                   closeVars, accepted, stored, failed>>

\* _worker_coroutine takes a trace.  The blocking get holds the loop's thread,
\* so nothing scheduled on the loop runs in "get".
WorkerGet(w) ==
    /\ wpc[w] = "get"
    /\ queue # <<>>
    /\ Head(queue) # STOP
    /\ queue' = Tail(queue)
    /\ item' = [item EXCEPT ![w] = Head(queue)]
    /\ attempt' = [attempt EXCEPT ![w] = 1]
    /\ wpc' = [wpc EXCEPT ![w] = "store"]
    /\ UNCHANGED <<unfinished, thread, loop, stopReq, lpc, flushVars, closeVars,
                   accepted, stored, failed>>

\* It takes the sentinel: no task_done, and the loop in _worker_loop is asked
\* to stop, if there is one.
WorkerGetStop(w) ==
    /\ wpc[w] = "get"
    /\ queue # <<>>
    /\ Head(queue) = STOP
    /\ queue' = Tail(queue)
    /\ wpc' = [wpc EXCEPT ![w] = IF loop = w THEN "exit" ELSE "ended"]
    /\ stopReq' = IF loop \in Workers \ {w}
                  THEN [stopReq EXCEPT ![loop] = TRUE]
                  ELSE stopReq
    /\ UNCHANGED <<unfinished, thread, loop, item, attempt, lpc, flushVars,
                   closeVars, accepted, stored, failed>>

TaskDone(w) ==
    /\ unfinished' = unfinished - 1
    /\ wpc' = [wpc EXCEPT ![w] = "get"]
    /\ item' = [item EXCEPT ![w] = STOP]
    /\ attempt' = [attempt EXCEPT ![w] = 0]

\* store() commits.
StoreOk(w) ==
    /\ wpc[w] = "store"
    /\ item[w] \notin NoUids
    /\ stored' = stored \cup {item[w]}
    /\ TaskDone(w)
    /\ UNCHANGED <<queue, thread, loop, stopReq, lpc, flushVars, closeVars,
                   accepted, failed>>

\* Mutants of StoreRetry: an attempt too many; the trace goes to the back.
StoreRetry_OnceMore(w) ==
    /\ wpc[w] = "store"
    /\ item[w] \notin NoUids
    /\ attempt[w] <= MaxRetries
    /\ wpc' = [wpc EXCEPT ![w] = "sleep"]
    /\ attempt' = [attempt EXCEPT ![w] = @ + 1]
    /\ UNCHANGED <<queue, unfinished, thread, loop, item, stopReq, lpc,
                   flushVars, closeVars, accepted, stored, failed>>
StoreRetry_Requeues(w) ==
    /\ wpc[w] = "store"
    /\ attempt[w] < MaxRetries
    /\ queue' = Append(queue, item[w])
    /\ wpc' = [wpc EXCEPT ![w] = "get"]
    /\ item' = [item EXCEPT ![w] = STOP]
    /\ attempt' = [attempt EXCEPT ![w] = 0]
    /\ UNCHANGED <<unfinished, thread, loop, stopReq, lpc, flushVars,
                   closeVars, accepted, stored, failed>>

\* store() raises and an attempt is left: the coroutine sleeps before it.
StoreRetry(w) ==
    /\ wpc[w] = "store"
    /\ item[w] \notin NoUids
    /\ attempt[w] < MaxRetries
    /\ wpc' = [wpc EXCEPT ![w] = "sleep"]
    /\ attempt' = [attempt EXCEPT ![w] = @ + 1]
    /\ UNCHANGED <<queue, unfinished, thread, loop, item, stopReq, lpc,
                   flushVars, closeVars, accepted, stored, failed>>

WorkerWake(w) ==
    /\ wpc[w] = "sleep"
    /\ wpc' = [wpc EXCEPT ![w] = "store"]
    /\ UNCHANGED <<queue, unfinished, thread, loop, item, attempt, stopReq, lpc,
                   flushVars, closeVars, accepted, stored, failed>>

\* Mutant of StoreGiveUp: the exception ends the coroutine.
StoreGiveUp_Escapes(w) ==
    /\ wpc[w] = "store"
    /\ item[w] \in NoUids \/ attempt[w] = MaxRetries
    /\ wpc' = [wpc EXCEPT ![w] = "ended"]
    /\ UNCHANGED <<queue, unfinished, thread, loop, item, attempt, stopReq, lpc,
                   flushVars, closeVars, accepted, stored, failed>>

\* The last attempt raised, or there were no session_uids: the error is logged
\* and the task is marked done all the same.
StoreGiveUp(w) ==
    /\ wpc[w] = "store"
    /\ item[w] \in NoUids \/ attempt[w] = MaxRetries
    /\ failed' = failed \cup {item[w]}
    /\ TaskDone(w)
    /\ UNCHANGED <<queue, thread, loop, stopReq, lpc, flushVars, closeVars,
                   accepted, stored>>

\* A state in which the loop is back in control and can run its callbacks.
Yields(w) == \/ wpc[w] = "store" /\ item[w] \notin NoUids
             \/ wpc[w] \in {"sleep", "ended"}

\* run_forever returned: the finally block closes the loop _worker_loop names.
\* Closing another worker's running loop raises and leaves the field alone.
ExitThread(w) ==
    /\ wpc' = [wpc EXCEPT ![w] = "dead"]
    /\ loop' = IF loop = w THEN None ELSE loop

\* The _stop callback of _stop_worker_loop runs on w's loop.  It stops the loop
\* the field names now; a suspended coroutine is abandoned with its item.
RunStop(w) ==
    /\ stopReq[w]
    /\ Yields(w)
    /\ IF loop = w
       THEN /\ ExitThread(w)
            /\ stopReq' = [stopReq EXCEPT ![w] = FALSE]
       ELSE /\ stopReq' = [v \in Workers |->
                             IF v = w THEN FALSE ELSE stopReq[v] \/ v = loop]
            /\ UNCHANGED <<wpc, loop>>
    /\ UNCHANGED <<queue, unfinished, thread, item, attempt, lpc, flushVars,
                   closeVars, accepted, stored, failed>>

\* The interpreter collects the coroutine a stopped loop abandoned, some time
\* or never: its finally block marks the task done, and asyncio logs that a
\* pending task was destroyed.
Collect(w) ==
    /\ wpc[w] = "dead"
    /\ item[w] # STOP
    /\ failed' = failed \cup {item[w]}
    /\ item' = [item EXCEPT ![w] = STOP]
    /\ unfinished' = unfinished - 1
    /\ UNCHANGED <<queue, thread, loop, wpc, attempt, stopReq, lpc, flushVars,
                   closeVars, accepted, stored>>

\* After the sentinel the loop stops and the thread ends.
WorkerExit(w) ==
    /\ wpc[w] = "exit"
    /\ ExitThread(w)
    /\ UNCHANGED <<queue, unfinished, thread, item, attempt, stopReq, lpc,
                   flushVars, closeVars, accepted, stored, failed>>

-------------------------------------------------------------------------------
(* flush: wait for _store_queue.join() at most timeout seconds *)

FlushCall(f) ==
    /\ fpc[f] = "idle"
    /\ fpc' = [fpc EXCEPT ![f] = "join"]
    /\ snap' = [snap EXCEPT ![f] = Accepted]
    /\ UNCHANGED <<queue, unfinished, thread, loop, workerVars, lpc, closeVars,
                   accepted, stored, failed>>

FlushTrue(f) ==
    /\ fpc[f] = "join"
    /\ unfinished = 0
    /\ fpc' = [fpc EXCEPT ![f] = "true"]
    /\ UNCHANGED <<queue, unfinished, thread, loop, workerVars, lpc, snap,
                   closeVars, accepted, stored, failed>>

\* False: the join times out, or anything at all raises.
FlushTimeout(f) ==
    /\ fpc[f] = "join"
    /\ fpc' = [fpc EXCEPT ![f] = "false"]
    /\ UNCHANGED <<queue, unfinished, thread, loop, workerVars, lpc, snap,
                   closeVars, accepted, stored, failed>>

-------------------------------------------------------------------------------
(* close / close_sync *)

\* put_nowait(_STOP), any error swallowed.
CloseSentinel(c) ==
    /\ cpc[c] = "idle"
    /\ cpc' = [cpc EXCEPT ![c] = "stop"]
    /\ \/ /\ ~Full
          /\ queue' = Append(queue, STOP)
          /\ unfinished' = unfinished + 1
       \/ /\ Full
          /\ UNCHANGED <<queue, unfinished>>
    /\ UNCHANGED <<thread, loop, workerVars, lpc, flushVars, joined,
                   accepted, stored, failed>>

\* _stop_worker_loop returns when _worker_loop is None; otherwise it schedules
\* _stop on that loop and joins _worker_thread if it is alive.
CloseSchedule(c) ==
    /\ cpc[c] = "stop"
    /\ \/ /\ loop = None
          /\ cpc' = [cpc EXCEPT ![c] = "closed"]
          /\ UNCHANGED <<stopReq, joined>>
       \/ /\ loop # None
          /\ cpc' = [cpc EXCEPT ![c] = "join"]
          /\ stopReq' = [stopReq EXCEPT ![loop] = TRUE]
          /\ joined' = [joined EXCEPT ![c] = thread]
    /\ UNCHANGED <<queue, unfinished, thread, loop, wpc, item, attempt, lpc,
                   flushVars, accepted, stored, failed>>

\* Mutant of CloseJoined: join has no timeout.
CloseJoined_Waits(c) ==
    /\ cpc[c] = "join"
    /\ ~Alive(joined[c])
    /\ cpc' = [cpc EXCEPT ![c] = "closed"]
    /\ loop' = None
    /\ UNCHANGED <<queue, unfinished, thread, workerVars, lpc, flushVars,
                   joined, accepted, stored, failed>>

\* join returns because the thread ended, or after 5 s because nothing stops
\* it: it blocks in get on an empty queue, or no _stop is scheduled on its loop.
\* The finally block then forgets the loop, whoever's it is by now (closing a
\* loop that runs raises, and the error is logged).
CloseJoined(c) ==
    LET w == joined[c] IN
    /\ cpc[c] = "join"
    /\ \/ ~Alive(w)
       \/ wpc[w] = "get" /\ queue = <<>>
       \/ wpc[w] \in {"store", "sleep", "ended"} /\ ~stopReq[w]
    /\ cpc' = [cpc EXCEPT ![c] = "closed"]
    /\ loop' = None
    /\ UNCHANGED <<queue, unfinished, thread, workerVars, lpc, flushVars,
                   joined, accepted, stored, failed>>

-------------------------------------------------------------------------------
LoggerStep(t) == LogCheck(t) \/ LogStart(t) \/ LogPut(t)
WorkerStep(w) == \/ WorkerBoot(w) \/ WorkerRun(w)
                 \/ WorkerGet(w) \/ WorkerGetStop(w)
                 \/ StoreOk(w) \/ StoreRetry(w) \/ WorkerWake(w)
                 \/ StoreGiveUp(w) \/ RunStop(w) \/ WorkerExit(w)
FlushStep(f)  == FlushCall(f) \/ FlushTrue(f) \/ FlushTimeout(f)
CloseStep(c)  == CloseSentinel(c) \/ CloseSchedule(c) \/ CloseJoined(c)

Next == \/ \E t \in Traces : LoggerStep(t)
        \/ \E w \in Workers : WorkerStep(w) \/ Collect(w)
        \/ \E f \in Flushers : FlushStep(f)
        \/ \E c \in Closers : CloseStep(c)

Spec == Init /\ [][Next]_vars

\* Every thread that can run does; sleeps, joins and flushes time out.
FairSpec ==
    /\ Spec
    /\ \A t \in Traces : WF_vars(LogStart(t)) /\ WF_vars(LogPut(t))
    /\ \A w \in Workers : WF_vars(WorkerStep(w)) /\ WF_vars(RunStop(w))
    /\ \A f \in Flushers : WF_vars(FlushTrue(f)) /\ WF_vars(FlushTimeout(f))
    /\ \A c \in Closers : WF_vars(CloseSchedule(c)) /\ WF_vars(CloseJoined(c))

-------------------------------------------------------------------------------
(* Safety *)

TypeOK ==
    /\ queue \in Seq(Traces \cup {STOP})
    /\ unfinished \in Nat
    /\ thread \in Workers
    /\ loop \in Workers \cup {None}
    /\ wpc \in [Workers -> {"unborn", "boot", "born", "get", "store", "sleep",
                            "exit", "ended", "dead"}]
    /\ item \in [Workers -> Traces \cup {STOP}]
    /\ attempt \in [Workers -> 0..MaxRetries]
    /\ stopReq \in [Workers -> BOOLEAN]
    /\ lpc \in [Traces -> {"idle", "start", "put", "queued", "dropped"}]
    /\ fpc \in [Flushers -> {"idle", "join", "true", "false"}]
    /\ snap \in [Flushers -> SUBSET Traces]
    /\ cpc \in [Closers -> {"idle", "stop", "join", "closed"}]
    /\ joined \in [Closers -> Workers \cup {None}]
    /\ accepted \in Seq(Traces)
    /\ stored \in SUBSET Traces
    /\ failed \in SUBSET Traces

\* A flush that answers True has waited for every trace accepted before the
\* call: each is stored, or dropped with an error in the log; none is on its
\* way any more, however many workers there were and whatever close left
\* behind for the garbage collector.  It is less than flush's docstring
\* says, "Block until all queued traces are persisted": task_done follows a
\* failed store too (137).
FlushWaitsForAll ==
    \A f \in Flushers : fpc[f] = "true" => snap[f] \subseteq Settled

\* Why join can be trusted: the counter never falls below the number of
\* accepted traces nobody has settled, those an abandoned coroutine holds too.
CounterCovers == Cardinality(Accepted \ Settled) <= unfinished

\* A trace is in one place: the queue holds no trace twice, no two coroutines
\* hold the same one, what is queued or held is accepted and not yet settled,
\* and a worker that stores holds what it stores.
Working(w) == wpc[w] \in {"store", "sleep"}
Holds(w)   == item[w] # STOP
Custody ==
    /\ \A i, j \in 1..Len(queue) :
          queue[i] = queue[j] /\ queue[i] # STOP => i = j
    /\ \A i \in 1..Len(queue) :
          queue[i] # STOP => queue[i] \in Accepted \ Settled
    /\ \A w \in Workers : Holds(w) =>
          /\ item[w] \in Accepted \ Settled
          /\ \A i \in 1..Len(queue) : queue[i] # item[w]
          /\ \A v \in Workers : Holds(v) /\ item[v] = item[w] => v = w
    /\ \A w \in Workers : Working(w) => Holds(w)

\* Until a second worker is started, traces settle in the order they were
\* accepted: one that waits for its retry holds back those behind it.
SettledInOrder ==
    thread = 1 =>
        \A i, j \in 1..Len(accepted) :
            i < j /\ accepted[j] \in Settled => accepted[i] \in Settled

(* Refinement *)

StatusOf(t) == IF t \in stored THEN "stored"
               ELSE IF t \in failed THEN "failed"
               ELSE IF lpc[t] = "queued" THEN "pending"
               ELSE IF lpc[t] = "dropped" THEN "dropped"
               ELSE "new"
Abstract == INSTANCE TraceLog WITH
                status <- [t \in Traces |-> StatusOf(t)],
                asked  <- snap,
                answer <- fpc

\* The tracer is a TraceLog: its counter, its queue and however many workers
\* took turns at it settle a trace at most once, and answer no flush too early.
ImplementsTraceLog == Abstract!Spec

(* Liveness *)

\* An accepted trace is stored or reported, unless the tracer is closed.
Closing == \E c \in Closers : cpc[c] # "idle"
AcceptedIsSettled ==
    \A t \in Traces : lpc[t] = "queued" ~> t \in Settled \/ Closing

\* A close that began ends, though its sentinel may not fit in the queue and
\* the worker may block in get where no callback reaches it.
CloseReturns == \A c \in Closers : cpc[c] = "stop" ~> cpc[c] = "closed"

===============================================================================
