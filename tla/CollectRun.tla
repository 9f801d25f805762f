------------------------------ MODULE CollectRun ------------------------------
(***************************************************************************)
(* utils/collect/collect_swe_trajectories.py: sample_loop runs tasks       *)
(* through the engine until --target of them passed, and survives being    *)
(* killed and started again with the same --output.                        *)
(*                                                                         *)
(* In rejection mode the passing records are written to the output parquet *)
(* every checkpoint_interval passes and at the end, by a rename.  In dpo   *)
(* mode every record is appended to one of two JSONL sidecars at once, and *)
(* the parquet of pairs is written at the end.  Python runs on one event   *)
(* loop: _process_trajectory is one step; a kill may still catch it in the *)
(* middle of an append, a write may raise OSError, and the output may not  *)
(* be readable.                                                            *)
(***************************************************************************)
EXTENDS Naturals, Sequences, FiniteSets, SequencesExt, Lists

CONSTANTS Tasks,        \* load_tasks: the instance of each task, in order
          Target,       \* --target
          NParallel,    \* --n_parallel
          Interval,     \* --checkpoint_interval
          MaxAttempts,  \* bound: trajectories ever launched
          MaxRuns,      \* bound: times the script is started
          MaxFaults     \* bound: writes of one run that raise

ASSUME CollectAssumption ==
    /\ Tasks \in Seq(STRING)
    /\ Len(Tasks) > 0
    /\ Target \in Nat \ {0}
    /\ NParallel \in Nat \ {0}
    /\ Interval \in Nat \ {0}
    /\ MaxAttempts \in Nat
    /\ MaxRuns \in Nat
    /\ MaxFaults \in Nat

VARIABLES mode,       \* --mode
          up,         \* where sample_loop is; "down": no process
          exit,       \* how the last process ended
          task,       \* the asyncio.Task of each attempt
          inst,       \* the instance each attempt works on
          launched,   \* attempts launched so far; the last one is the newest
          cursor,     \* position of itertools.cycle(tasks)
          collected,  \* rejection: the records of this run, resumed ones first
          pos, neg,   \* dpo: pos_cache and neg_cache, in order of arrival
          nPass,      \* n_pass
          lastCkpt,   \* last_checkpoint_pass
          done,       \* done_event
          disk,       \* rejection: the rows of the output parquet
          pairs,      \* dpo: the rows of the output parquet
          posFile, negFile,  \* dpo: the sidecars
          output,     \* history: "known", its rows are what collected begins
                      \* with; "unread", the run could not read them
          runs, faults

loopVars  == <<task, inst, launched, cursor>>
cacheVars == <<collected, pos, neg, nPass, lastCkpt, done>>
fileVars  == <<disk, pairs, posFile, negFile, output>>
vars == <<mode, up, exit, loopVars, cacheVars, fileVars, runs, faults>>

Attempts == 1..MaxAttempts
Active   == {a \in Attempts : task[a] \in {"new", "run"}}

-------------------------------------------------------------------------------
(* The sidecars: whole lines, and what stands behind the last newline: *)
(* nothing, a fragment, or a record that lacks only its newline.       *)
Clean == 0
Torn  == MaxAttempts + 1
EmptyFile == [lines |-> <<>>, tail |-> Clean]

\* _load_jsonl_cache: a line that is no JSON document is skipped.
Readable(f) ==
    IF f.tail \in Attempts THEN Append(f.lines, f.tail) ELSE f.lines

\* Mutant: the file is opened to be written anew.
Appended_Overwrites(f, a) == [lines |-> <<a>>, tail |-> Clean]

\* _append_to_jsonl writes behind whatever the file ends in: a fragment and
\* the record become one malformed line.
Appended(f, a) ==
    [lines |-> IF f.tail = Clean THEN Append(f.lines, a) ELSE f.lines,
     tail |-> Clean]

\* The ways an append that does not complete can leave the file.
Interrupted(f, a) ==
    {f} \cup {[f EXCEPT !.tail = t] :
                 t \in IF f.tail = Clean THEN {Torn, a} ELSE {Torn}}

\* The records of an instance, in the order of the cache.
OfInstance(s, t) == Select(s, {a \in Attempts : inst[a] = t})

\* Mutant: always the first negative.
PairUp_First(ps, ns) ==
    {<<a, OfInstance(ns, inst[a])[1]>> :
        a \in {p \in ToSet(ps) : OfInstance(ns, inst[p]) # <<>>}}

\* Every positive with a negative, and these in turn.
InTurn(P, N) ==
    {<<P[i], N[((i - 1) % Len(N)) + 1]>> : i \in IF N = <<>> THEN {}
                                                 ELSE DOMAIN P}

\* pair_dpo_data pairs the records of each instance.
PairUp(ps, ns) ==
    UNION {InTurn(OfInstance(ps, t), OfInstance(ns, t)) : t \in ToSet(Tasks)}

-------------------------------------------------------------------------------
Init ==
    /\ mode \in {"rejection", "dpo"}
    /\ up = "down"
    /\ exit = "none"
    /\ task = [a \in Attempts |-> "none"]
    /\ inst = [a \in Attempts |-> Tasks[1]]
    /\ launched = 0
    /\ cursor = 1
    /\ collected = <<>>
    /\ pos = <<>>
    /\ neg = <<>>
    /\ nPass = 0
    /\ lastCkpt = 0
    /\ done = FALSE
    /\ disk = <<>>
    /\ pairs = {}
    /\ posFile = EmptyFile
    /\ negFile = EmptyFile
    /\ output = "known"
    /\ runs = 0
    /\ faults = 0

-------------------------------------------------------------------------------
(* A process starts, and ends *)

\* Mutant: the records found in the output are not taken over.
Resume_Fresh ==
    /\ up = "down"
    /\ runs < MaxRuns
    /\ runs' = runs + 1
    /\ collected' = <<>>
    /\ pos' = IF mode = "dpo" THEN Readable(posFile) ELSE <<>>
    /\ neg' = IF mode = "dpo" THEN Readable(negFile) ELSE <<>>
    /\ nPass' = Len(IF mode = "dpo" THEN pos' ELSE disk)
    /\ lastCkpt' = nPass'
    /\ done' = FALSE
    /\ faults' = 0
    /\ cursor' = 1
    /\ nPass' < Target
    /\ up' = "loop"
    /\ exit' = "none"
    /\ UNCHANGED <<mode, task, inst, launched, fileVars>>

\* load_rejection_checkpoint or load_dpo_checkpoint.  An output that cannot be
\* read counts as none, and the next checkpoint replaces it.  (A sidecar that
\* cannot be opened ends the process before it has done anything.)
Resume ==
    /\ up = "down"
    /\ runs < MaxRuns
    /\ runs' = runs + 1
    /\ collected' \in IF mode = "rejection" THEN {disk, <<>>} ELSE {<<>>}
    /\ output' = IF mode = "rejection" /\ collected' # disk
                 THEN "unread" ELSE "known"
    /\ pos' = IF mode = "dpo" THEN Readable(posFile) ELSE <<>>
    /\ neg' = IF mode = "dpo" THEN Readable(negFile) ELSE <<>>
    /\ nPass' = Len(IF mode = "dpo" THEN pos' ELSE collected')
    /\ lastCkpt' = nPass'
    /\ done' = FALSE
    /\ cursor' = 1
    /\ \/ /\ nPass' < Target
          /\ up' = "loop"
          /\ exit' = "none"
          /\ faults' = 0
          /\ UNCHANGED pairs
       \/ /\ nPass' >= Target    \* "Nothing to do."
          /\ up' = "down"
          /\ \/ /\ exit' = "ok"
                /\ faults' = 0
                /\ pairs' = IF mode = "dpo" /\ PairUp(pos', neg') # {}
                            THEN PairUp(pos', neg') ELSE pairs
             \/ /\ mode = "dpo" /\ PairUp(pos', neg') # {}
                /\ MaxFaults > 0
                /\ exit' = "failed"
                /\ faults' = 1
                /\ UNCHANGED pairs
    /\ UNCHANGED <<mode, task, inst, launched, disk, posFile, negFile>>

StopTasks == task' = [a \in Attempts |-> IF a \in Active THEN "over"
                                                         ELSE task[a]]

\* The finally block: the final save, which may raise as well.
FinalSave ==
    /\ up' = "down"
    /\ StopTasks
    /\ \/ /\ exit' = "ok"
          /\ disk' = IF mode = "rejection" /\ collected # <<>>
                     THEN collected ELSE disk
          /\ output' = IF collected # <<>> THEN "known" ELSE output
          /\ pairs' = IF mode = "dpo" /\ PairUp(pos, neg) # {}
                      THEN PairUp(pos, neg) ELSE pairs
          /\ UNCHANGED faults
       \/ /\ faults < MaxFaults
          /\ faults' = faults + 1
          /\ exit' = "failed"
          /\ UNCHANGED <<disk, pairs, output>>
    /\ UNCHANGED <<mode, inst, launched, cursor, cacheVars, posFile, negFile,
                   runs>>

\* asyncio.gather returns: no trajectory is in flight.
GatherDone ==
    /\ up = "gather"
    /\ Active = {}
    /\ FinalSave

\* Ctrl-C cancels sample_loop where it waits, and the tasks with it.
Interrupt ==
    /\ up # "down"
    /\ FinalSave

\* SIGKILL, wherever the loop is: only the files are left.
Kill ==
    /\ up # "down"
    /\ up' = "down"
    /\ exit' = "killed"
    /\ StopTasks
    /\ UNCHANGED <<mode, inst, launched, cursor, cacheVars, fileVars, runs,
                   faults>>

\* SIGKILL in the middle of an append.
KillInAppend(a) ==
    /\ up # "down"
    /\ mode = "dpo"
    /\ task[a] = "run"
    /\ up' = "down"
    /\ exit' = "killed"
    /\ StopTasks
    /\ \/ /\ posFile' \in Interrupted(posFile, a)
          /\ UNCHANGED negFile
       \/ /\ negFile' \in Interrupted(negFile, a)
          /\ UNCHANGED posFile
    /\ UNCHANGED <<mode, inst, launched, cursor, cacheVars, disk, pairs, output,
                   runs, faults>>

-------------------------------------------------------------------------------
(* The producer *)

\* Mutants: the event is not looked at behind semaphore.acquire; the cycle
\* does not begin again.
Launch_Blind ==
    /\ up = "loop"
    /\ Cardinality(Active) < NParallel
    /\ launched < MaxAttempts
    /\ launched' = launched + 1
    /\ task' = [task EXCEPT ![launched + 1] = "run"]
    /\ inst' = [inst EXCEPT ![launched + 1] = Tasks[cursor]]
    /\ cursor' = (cursor % Len(Tasks)) + 1
    /\ UNCHANGED <<mode, up, exit, cacheVars, fileVars, runs, faults>>
Launch_Once ==
    /\ up = "loop"
    /\ ~done
    /\ Cardinality(Active) < NParallel
    /\ launched < MaxAttempts
    /\ launched' = launched + 1
    /\ task' = [task EXCEPT ![launched + 1] = "new"]
    /\ inst' = [inst EXCEPT ![launched + 1] = Tasks[cursor]]
    /\ cursor' = cursor + 1
    /\ UNCHANGED <<mode, up, exit, cacheVars, fileVars, runs, faults>>

\* A free semaphore slot, and a task is created for it.
Launch ==
    /\ up = "loop"
    /\ ~done
    /\ Cardinality(Active) < NParallel
    /\ launched < MaxAttempts
    /\ launched' = launched + 1
    /\ task' = [task EXCEPT ![launched + 1] = "new"]
    /\ inst' = [inst EXCEPT ![launched + 1] = Tasks[cursor]]
    /\ cursor' = (cursor % Len(Tasks)) + 1
    /\ UNCHANGED <<mode, up, exit, cacheVars, fileVars, runs, faults>>

\* The event is seen at the top of the loop or behind semaphore.acquire.
LeaveLoop ==
    /\ up = "loop"
    /\ done
    /\ Cardinality(Active) < NParallel
    /\ up' = "gather"
    /\ UNCHANGED <<mode, exit, loopVars, cacheVars, fileVars, runs, faults>>

-------------------------------------------------------------------------------
(* _run_one *)

\* Mutant: such a task waits instead of returning.
Start_Waits(a) ==
    /\ up # "down"
    /\ task[a] = "new"
    /\ ~done
    /\ task' = [task EXCEPT ![a] = "run"]
    /\ UNCHANGED <<mode, up, exit, inst, launched, cursor, cacheVars, fileVars,
                   runs, faults>>

\* A task that starts after the target was reached returns at once.
Start(a) ==
    /\ up # "down"
    /\ task[a] = "new"
    /\ task' = [task EXCEPT ![a] = IF done THEN "over" ELSE "run"]
    /\ UNCHANGED <<mode, up, exit, inst, launched, cursor, cacheVars, fileVars,
                   runs, faults>>

\* The trajectory ends, well or by an exception; its slot and the semaphore
\* are free again.
Ends(a) ==
    /\ up # "down"
    /\ task[a] = "run"
    /\ task' = [task EXCEPT ![a] = "over"]
    /\ UNCHANGED <<mode, up, exit, inst, launched, cursor, runs>>

\* run_agent_trajectory_with_retry raised, or a failing record in rejection
\* mode: only counters of the log change.
Dropped(a) ==
    /\ Ends(a)
    /\ UNCHANGED <<cacheVars, fileVars, faults>>

\* Mutant: the distance from the last checkpoint must exceed the interval.
Due_Late == nPass + 1 - lastCkpt > Interval
Due == nPass + 1 - lastCkpt >= Interval

Reached == done \/ nPass + 1 >= Target

\* A passing record in rejection mode.
Passed(a) ==
    /\ mode = "rejection"
    /\ Ends(a)
    /\ collected' = Append(collected, a)
    /\ nPass' = nPass + 1
    /\ IF Due
       THEN /\ disk' = collected'
            /\ lastCkpt' = nPass'
            /\ output' = "known"
       ELSE UNCHANGED <<disk, lastCkpt, output>>
    /\ done' = Reached
    /\ UNCHANGED <<pos, neg, pairs, posFile, negFile, faults>>

\* The checkpoint raises: the pass counts, the event is not set.
PassedUnsaved(a) ==
    /\ mode = "rejection"
    /\ Due
    /\ faults < MaxFaults
    /\ Ends(a)
    /\ collected' = Append(collected, a)
    /\ nPass' = nPass + 1
    /\ faults' = faults + 1
    /\ UNCHANGED <<pos, neg, lastCkpt, done, fileVars>>

\* A record in dpo mode goes to the cache and to the sidecar.
PassedDpo(a) ==
    /\ mode = "dpo"
    /\ Ends(a)
    /\ pos' = Append(pos, a)
    /\ posFile' = Appended(posFile, a)
    /\ nPass' = nPass + 1
    /\ done' = Reached
    /\ UNCHANGED <<collected, neg, lastCkpt, disk, pairs, negFile, output,
                   faults>>

FailedDpo(a) ==
    /\ mode = "dpo"
    /\ Ends(a)
    /\ neg' = Append(neg, a)
    /\ negFile' = Appended(negFile, a)
    /\ UNCHANGED <<collected, pos, nPass, lastCkpt, done, disk, pairs, posFile,
                   output, faults>>

\* The append raises: the cache has the record, the counters do not.
AppendRaises(a) ==
    /\ mode = "dpo"
    /\ faults < MaxFaults
    /\ faults' = faults + 1
    /\ Ends(a)
    /\ \/ /\ pos' = Append(pos, a)
          /\ posFile' \in Interrupted(posFile, a)
          /\ UNCHANGED <<neg, negFile>>
       \/ /\ neg' = Append(neg, a)
          /\ negFile' \in Interrupted(negFile, a)
          /\ UNCHANGED <<pos, posFile>>
    /\ UNCHANGED <<collected, nPass, lastCkpt, done, disk, pairs, output>>

Finish(a) == \/ Dropped(a)
             \/ Passed(a)
             \/ PassedUnsaved(a)
             \/ PassedDpo(a)
             \/ FailedDpo(a)
             \/ AppendRaises(a)

Next ==
    \/ Resume
    \/ GatherDone
    \/ Interrupt
    \/ Kill
    \/ Launch
    \/ LeaveLoop
    \/ \E a \in Attempts : Start(a) \/ Finish(a) \/ KillInAppend(a)

Spec == Init /\ [][Next]_vars

\* The event loop runs what is ready, and the engine's timeouts end every
\* trajectory.
Fairness ==
    /\ WF_vars(LeaveLoop)
    /\ WF_vars(GatherDone)
    /\ \A a \in Attempts : WF_vars(Start(a)) /\ WF_vars(Finish(a))

FairSpec == Spec /\ Fairness

-------------------------------------------------------------------------------
(* Properties *)

Sidecars == [lines : Seq(Attempts), tail : Attempts \cup {Clean, Torn}]

TypeOK ==
    /\ mode \in {"rejection", "dpo"}
    /\ up \in {"down", "loop", "gather"}
    /\ exit \in {"none", "ok", "failed", "killed"}
    /\ task \in [Attempts -> {"none", "new", "run", "over"}]
    /\ inst \in [Attempts -> ToSet(Tasks)]
    /\ launched \in 0..MaxAttempts
    /\ cursor \in 1..Len(Tasks)
    /\ collected \in Seq(Attempts)
    /\ pos \in Seq(Attempts)
    /\ neg \in Seq(Attempts)
    /\ nPass \in Nat
    /\ lastCkpt \in Nat
    /\ done \in BOOLEAN
    /\ disk \in Seq(Attempts)
    /\ pairs \subseteq Attempts \X Attempts
    /\ posFile \in Sidecars
    /\ negFile \in Sidecars
    /\ output \in {"known", "unread"}
    /\ runs \in 0..MaxRuns
    /\ faults \in 0..MaxFaults

\* The rows of the output that collected begins with.
Saved == IF output = "known" THEN disk ELSE <<>>

\* A kill in rejection mode costs fewer than checkpoint_interval passes of what
\* the run knows of, and one more for each checkpoint of the run that raised:
\* the next pass saves again (lines 423 to 427).
KillCostsLessThanInterval ==
    mode = "rejection" /\ up # "down"
        => /\ Len(Saved) <= Len(collected)
           /\ SubSeq(collected, 1, Len(Saved)) = Saved
           /\ Len(collected) - Len(Saved) < Interval + faults

\* What the output parquet of rejection mode holds stays in it, in place,
\* through kills, restarts, failing writes and final saves, save once in a run
\* that could not read it: the loader's empty list (lines 119 to 121) is what
\* that run's first checkpoint or final save goes out from, and it then holds
\* the records of that run alone (lines 101 to 130, 426, 500 to 520).
OutputLosesOnlyTheUnread ==
    [][\/ /\ Len(disk) <= Len(disk')
          /\ SubSeq(disk', 1, Len(disk)) = disk
       \/ /\ up # "down" /\ output = "unread" /\ output' = "known"
          /\ disk' = collected']_vars

\* The target is overshot by the other trajectories in flight at most; a
\* checkpoint that raises leaves the event unset until the next pass (lines
\* 423 to 430, 436, 475 to 485).
OvershootsByTheOthers ==
    up # "down" => nPass < Target + NParallel + faults

\* A sidecar lacks at most two records of the cache for each append that did
\* not complete: the one before the kill and those of this run; a fragment
\* swallows the record appended behind it (lines 174 to 188).
TearCostsTwo ==
    mode = "dpo" /\ up # "down"
        => /\ Cardinality(ToSet(pos) \ ToSet(Readable(posFile)))
                  <= 2 * (1 + faults)
           /\ Cardinality(ToSet(neg) \ ToSet(Readable(negFile)))
                  <= 2 * (1 + faults)

\* After a dpo run that ended well the parquet holds one pair for each
\* positive whose instance has a negative, and uses the negatives of an
\* instance evenly (lines 196 to 222).
PairsAreComplete ==
    mode = "dpo" /\ up = "down" /\ exit = "ok" /\ PairUp(pos, neg) # {}
        => LET Uses(n) == Cardinality({p \in pairs : p[2] = n})
               P == ToSet(pos)
               N == ToSet(neg)
           IN  /\ {p[1] : p \in pairs} =
                      {a \in P : \E n \in N : inst[n] = inst[a]}
               /\ Cardinality(pairs) = Cardinality({p[1] : p \in pairs})
               /\ \A p \in pairs : p[2] \in N /\ inst[p[1]] = inst[p[2]]
               /\ \A m, n \in N :
                      inst[m] = inst[n] => Uses(m) <= Uses(n) + 1

\* Once the target is reached the process ends, whatever the trajectories in
\* flight do (lines 475 to 500).
TargetEndsTheRun == done /\ up # "down" ~> up = "down"
===============================================================================
