--------------------------- MODULE CollectRunProofs ---------------------------
(***************************************************************************)
(* Theorems about CollectRun for any list of tasks, target, checkpoint     *)
(* interval, and any number of trajectories, restarts and failing writes:  *)
(* what a kill costs in rejection mode and a torn append in dpo mode, that *)
(* the output loses rows only to a run that could not read them, by how    *)
(* much the target may be overshot, and that the pairs of a run are        *)
(* complete and use the negatives evenly.                                  *)
(***************************************************************************)
EXTENDS CollectRun, ListsProofs, SequenceTheorems, FiniteSetTheorems, TLAPS

USE CollectAssumption DEF Attempts

\* s is what t begins with.
Begins(s, t) == Len(s) <= Len(t) /\ SubSeq(t, 1, Len(s)) = s

\* The counters of the loop agree with what they count.
Books ==
    mode = "rejection" /\ up # "down"
        => nPass = Len(collected) /\ lastCkpt = Len(Saved)

\* KillCostsLessThanInterval is inductive with the counters, by which the code
\* decides when to save.
IInv ==
    /\ mode \in {"rejection", "dpo"}
    /\ collected \in Seq(Attempts)
    /\ disk \in Seq(Attempts)
    /\ output \in {"known", "unread"}
    /\ faults \in Nat
    /\ Books
    /\ KillCostsLessThanInterval

-------------------------------------------------------------------------------
\* A sequence begins with itself and with nothing, and goes on doing so when
\* it grows.
LEMMA BeginsItself ==
    ASSUME NEW S, NEW s \in Seq(S)
    PROVE  Begins(s, s) /\ Begins(<<>>, s)
  BY SubSeqFull, SubSeqEmpty, EmptySeq DEF Begins

\* A sequence begins one that was appended to when it began it before.
LEMMA BeginsAppend ==
    ASSUME NEW S, NEW s \in Seq(S), NEW t \in Seq(S), NEW e \in S,
           Begins(s, t)
    PROVE  Begins(s, Append(t, e))
<1>1. Len(Append(t, e)) = Len(t) + 1 /\ Append(t, e) \in Seq(S)
  BY AppendProperties
<1>2. \A i \in 1..Len(s) : Append(t, e)[i] = t[i] /\ s[i] = t[i]
  BY AppendProperties, <1>1, SMT DEF Begins
<1>3. SubSeq(Append(t, e), 1, Len(s)) = s
  BY <1>1, <1>2, SMT DEF Begins
<1>4. QED
  BY <1>1, <1>3 DEF Begins

\* The cost of a kill, in these terms.
LEMMA Cost ==
    ASSUME mode = "rejection", up # "down"
    PROVE  KillCostsLessThanInterval <=>
               /\ Begins(Saved, collected)
               /\ Len(collected) - Len(Saved) < Interval + faults
  BY DEF KillCostsLessThanInterval, Begins

\* What the output goes through in a step.
Kept ==
    \/ Begins(disk, disk')
    \/ /\ up # "down" /\ output = "unread" /\ output' = "known"
       /\ disk' = collected'

-------------------------------------------------------------------------------
\* The final save leaves what is on disk, or replaces it by what it begins or
\* what the run has of its own.
LEMMA SaveGrows ==
    ASSUME IInv, up # "down", FinalSave
    PROVE  IInv' /\ Kept
<1>1. /\ mode' = mode /\ collected' = collected /\ up' = "down"
      /\ faults' \in Nat /\ output' \in {"known", "unread"}
  BY DEF FinalSave, cacheVars, IInv
<1>2. \/ disk' = disk
      \/ /\ mode = "rejection" /\ disk' = collected
         /\ collected # <<>> /\ output' = "known"
  BY DEF FinalSave
<1>3. Kept
  <2>1. CASE disk' = disk
    BY <2>1, BeginsItself DEF Kept, IInv
  <2>2. CASE disk' # disk /\ output = "unread"
    BY <1>1, <1>2, <2>2 DEF Kept
  <2>3. CASE disk' # disk /\ output = "known"
    BY <1>2, <2>3, Cost DEF Kept, IInv, Saved
  <2>4. QED
    BY <2>1, <2>2, <2>3 DEF IInv
<1>4. QED
  BY <1>1, <1>2, <1>3 DEF IInv, Books, KillCostsLessThanInterval

\* Writes that raised only widen the bounds.
LEMMA Widens ==
    ASSUME NEW n \in Nat
    PROVE  /\ 0 < Interval + n
           /\ \A m \in Nat : m < Target => m < Target + n
<1>1. Interval \in Nat \ {0} /\ Target \in Nat \ {0}
  OBVIOUS
<1>2. QED
  BY <1>1

\* A process that starts takes over what it can read.
LEMMA ResumeKeeps ==
    ASSUME IInv, Resume
    PROVE  IInv' /\ Kept
<1>1. mode' = mode /\ disk' = disk /\ faults' \in Nat
  BY DEF Resume
<1>2. /\ collected' \in IF mode = "rejection" THEN {disk, <<>>} ELSE {<<>>}
      /\ output' = IF mode = "rejection" /\ collected' # disk
                   THEN "unread" ELSE "known"
  BY DEF Resume
<1>3. collected' \in Seq(Attempts) /\ output' \in {"known", "unread"}
  BY <1>2, EmptySeq DEF IInv
<1>4. mode = "rejection" => Saved' = collected'
  <2>1. SUFFICES ASSUME mode = "rejection" PROVE Saved' = collected'
    OBVIOUS
  <2>2. Saved' = IF output' = "known" THEN disk ELSE <<>>
    BY <1>1 DEF Saved
  <2>3. QED
    BY <1>2, <2>1, <2>2
<1>5. mode = "rejection" => nPass' = Len(collected') /\ lastCkpt' = nPass'
  BY DEF Resume
<1>6. Len(collected') - Len(collected') = 0
  BY <1>3, LenProperties
<1>7. Books'
  BY <1>1, <1>4, <1>5 DEF Books
<1>8. KillCostsLessThanInterval'
  <2>1. SUFFICES ASSUME mode' = "rejection"
                 PROVE  /\ Begins(Saved', collected')
                        /\ Len(collected') - Len(Saved') < Interval + faults'
    BY DEF KillCostsLessThanInterval, Begins
  <2>2. Saved' = collected'
    BY <1>1, <1>4, <2>1
  <2>3. Begins(Saved', collected')
    BY <1>3, <2>2, BeginsItself
  <2>4. Len(collected') - Len(Saved') = 0
    BY <1>6, <2>2
  <2>5. 0 < Interval + faults'
    BY <1>1, Widens
  <2>6. QED
    BY <2>3, <2>4, <2>5
<1>9. QED
  BY <1>1, <1>3, <1>7, <1>8, BeginsItself DEF IInv, Kept

\* A pass is counted, and saved when it is due; or the save raises.
LEMMA PassKeeps ==
    ASSUME IInv, NEW a \in Attempts, Passed(a) \/ PassedUnsaved(a)
    PROVE  IInv' /\ Kept
<1> DEFINE more == Append(collected, a)
<1>1. /\ mode = "rejection" /\ mode' = mode
      /\ up # "down" /\ up' = up
      /\ collected' = more /\ nPass' = nPass + 1
  BY DEF Passed, PassedUnsaved, Ends
<1>2. more \in Seq(Attempts) /\ Len(more) = Len(collected) + 1
  BY AppendProperties DEF IInv
<1>3. Saved \in Seq(Attempts)
  BY EmptySeq DEF IInv, Saved
<1>4. /\ nPass = Len(collected) /\ lastCkpt = Len(Saved)
      /\ Len(Saved) \in Nat /\ Len(collected) \in Nat
      /\ Begins(Saved, collected)
      /\ Len(collected) - Len(Saved) < Interval + faults
  BY <1>1, <1>3, Cost, LenProperties DEF IInv, Books
<1>5. Begins(Saved, more) /\ Begins(more, more) /\ Begins(disk, disk)
  BY <1>1, <1>2, <1>3, <1>4, BeginsAppend, BeginsItself DEF IInv
<1>6. CASE Passed(a) /\ Due
  <2>1. /\ disk' = more /\ lastCkpt' = nPass + 1 /\ faults' = faults
        /\ output' = "known"
    BY <1>1, <1>6 DEF Passed
  <2>2. Saved' = more
    BY <2>1 DEF Saved
  <2>3. Kept
    <3>1. CASE output = "known"
      BY <1>5, <2>1, <3>1 DEF Kept, Saved
    <3>2. CASE output = "unread"
      BY <1>1, <2>1, <3>2 DEF Kept
    <3>3. QED
      BY <3>1, <3>2 DEF IInv
  <2>4. Books'
    BY <1>1, <1>2, <1>4, <2>1, <2>2 DEF Books
  <2>5. KillCostsLessThanInterval'
    BY <1>1, <1>2, <1>4, <1>5, <2>1, <2>2
       DEF KillCostsLessThanInterval, Begins, IInv
  <2>6. QED
    BY <1>1, <1>2, <2>1, <2>3, <2>4, <2>5 DEF IInv
<1>7. CASE (Passed(a) /\ ~Due) \/ PassedUnsaved(a)
  <2>1. /\ disk' = disk /\ lastCkpt' = lastCkpt /\ output' = output
        /\ Saved' = Saved
    BY <1>7 DEF Passed, PassedUnsaved, fileVars, Saved
  <2>2. /\ faults' \in Nat
        /\ Len(more) - Len(Saved) < Interval + faults'
    <3>1. CASE Passed(a) /\ ~Due
      BY <1>2, <1>4, <3>1 DEF Passed, Due, IInv
    <3>2. CASE PassedUnsaved(a)
      BY <1>2, <1>4, <3>2 DEF PassedUnsaved, IInv
    <3>3. QED
      BY <1>7, <3>1, <3>2
  <2>3. Books'
    BY <1>1, <1>2, <1>4, <2>1 DEF Books
  <2>4. KillCostsLessThanInterval'
    BY <1>1, <1>2, <1>4, <1>5, <2>1, <2>2
       DEF KillCostsLessThanInterval, Begins
  <2>5. QED
    BY <1>1, <1>2, <1>5, <2>1, <2>2, <2>3, <2>4 DEF IInv, Kept
<1>8. QED
  BY <1>6, <1>7

\* The other steps leave the records and the output as they are, or touch
\* dpo's only, or end the process.
LEMMA OthersKeep ==
    ASSUME IInv, UNCHANGED <<mode, collected, disk, output>>,
           \/ up' = "down" /\ faults' = faults
           \/ mode = "dpo" /\ faults' \in Nat
           \/ UNCHANGED <<faults, nPass, lastCkpt>>
              /\ (up # "down" \/ up' = up)
    PROVE  IInv' /\ Kept
<1>1. Begins(disk, disk')
  BY BeginsItself DEF IInv
<1>2. QED
  BY <1>1 DEF IInv, Books, KillCostsLessThanInterval, Saved, Kept

\* Every step keeps the inductive invariant and the rows of the output.
LEMMA StepKeeps ==
    ASSUME IInv, Next
    PROVE  IInv' /\ Kept
<1>1. CASE Resume
  BY <1>1, ResumeKeeps
<1>2. CASE GatherDone
  BY <1>2, SaveGrows DEF GatherDone
<1>3. CASE Interrupt
  BY <1>3, SaveGrows DEF Interrupt
<1>4. CASE Kill
  BY <1>4, OthersKeep DEF Kill, cacheVars, fileVars
<1>5. CASE Launch
  BY <1>5, OthersKeep DEF Launch, cacheVars, fileVars
<1>6. CASE LeaveLoop
  BY <1>6, OthersKeep DEF LeaveLoop, cacheVars, fileVars
<1>7. ASSUME NEW a \in Attempts,
             Start(a) \/ Finish(a) \/ KillInAppend(a)
      PROVE  IInv' /\ Kept
  <2>1. CASE Start(a)
    BY <2>1, OthersKeep DEF Start, cacheVars, fileVars
  <2>2. CASE Dropped(a)
    BY <2>2, OthersKeep DEF Dropped, Ends, cacheVars, fileVars
  <2>3. CASE Passed(a) \/ PassedUnsaved(a)
    BY <2>3, PassKeeps
  <2>4. CASE PassedDpo(a)
    BY <2>4, OthersKeep DEF PassedDpo, Ends, IInv
  <2>5. CASE FailedDpo(a)
    BY <2>5, OthersKeep DEF FailedDpo, Ends, IInv
  <2>6. CASE AppendRaises(a)
    BY <2>6, OthersKeep DEF AppendRaises, Ends, IInv
  <2>7. CASE KillInAppend(a)
    BY <2>7, OthersKeep DEF KillInAppend, cacheVars
  <2>8. QED
    BY <1>7, <2>1, <2>2, <2>3, <2>4, <2>5, <2>6, <2>7 DEF Finish
<1>8. QED
  BY <1>1, <1>2, <1>3, <1>4, <1>5, <1>6, <1>7 DEF Next

\* It holds when the first run starts.
LEMMA InitHolds ==
    ASSUME Init
    PROVE  IInv
  BY EmptySeq DEF Init, IInv, Books, KillCostsLessThanInterval

\* A step that changes nothing keeps both.
LEMMA StutterKeeps ==
    ASSUME IInv, UNCHANGED vars
    PROVE  IInv'
  BY DEF vars, loopVars, cacheVars, fileVars, IInv, Books,
         KillCostsLessThanInterval, Saved

-------------------------------------------------------------------------------
\* What a run of the collection has in memory and on disk agree up to the
\* passes since the last checkpoint, and the counters are right about them.
THEOREM Invariance == Spec => []IInv
<1>1. Init => IInv
  BY InitHolds
<1>2. IInv /\ [Next]_vars => IInv'
  BY StepKeeps, StutterKeeps
<1>3. QED
  BY <1>1, <1>2, PTL DEF Spec

\* A kill costs fewer than Interval passes, and one more for each checkpoint
\* that raised (lines 423 to 427).
THEOREM KillIsCheap == Spec => []KillCostsLessThanInterval
<1>1. IInv => KillCostsLessThanInterval
  BY DEF IInv
<1>2. QED
  BY <1>1, Invariance, PTL

\* A row leaves the output at one step only: the first save of a run that
\* could not read the output when it started (lines 101 to 130, 426, 500 to
\* 520).
THEOREM OutputKeeps == Spec => OutputLosesOnlyTheUnread
<1>1. IInv /\ [Next]_vars => [Kept]_vars
  BY StepKeeps
<1>2. [Kept]_vars
          => [\/ /\ Len(disk) <= Len(disk')
                 /\ SubSeq(disk', 1, Len(disk)) = disk
              \/ /\ up # "down" /\ output = "unread" /\ output' = "known"
                 /\ disk' = collected']_vars
  BY DEF Kept, Begins
<1>3. QED
  BY <1>1, <1>2, Invariance, PTL DEF Spec, OutputLosesOnlyTheUnread

-------------------------------------------------------------------------------
(* The target *)

Running == {a \in Attempts : task[a] = "run"}

\* Before the event is set the target is not reached, but for the passes whose
\* checkpoint raised; afterwards only what runs can still pass.
Headroom ==
    up # "down"
        => /\ ~done => nPass < Target + faults
           /\ done => nPass + Cardinality(Running)
                          < Target + NParallel + faults

TInv ==
    /\ nPass \in Nat
    /\ faults \in Nat
    /\ done \in BOOLEAN
    /\ launched \in 0..MaxAttempts
    /\ task \in [Attempts -> {"none", "new", "run", "over"}]
    /\ posFile \in Sidecars
    /\ up = "down" => Active = {}
    /\ Cardinality(Active) <= NParallel
    /\ Headroom

\* A set of trajectories is finite.
LEMMA Finite ==
    ASSUME NEW T \in SUBSET Attempts
    PROVE  IsFiniteSet(T) /\ Cardinality(T) \in Nat
<1>1. IsFiniteSet(1..MaxAttempts)
  BY FS_Interval
<1>2. QED
  BY <1>1, FS_Subset, FS_CardinalityType

\* Those that run are among those that are launched and not over.
LEMMA RunningCounts ==
    /\ Cardinality(Running) \in Nat
    /\ Cardinality(Active) \in Nat
    /\ Cardinality(Running) <= Cardinality(Active)
<1>1. Running \subseteq Active /\ Active \subseteq Attempts
  BY DEF Running, Active
<1>2. QED
  BY <1>1, Finite, FS_Subset

\* A trajectory that ends leaves the running ones.
LEMMA EndCounts ==
    ASSUME TInv, NEW a \in Attempts, Ends(a)
    PROVE  /\ task' \in [Attempts -> {"none", "new", "run", "over"}]
           /\ Cardinality(Running') = Cardinality(Running) - 1
           /\ Cardinality(Active') = Cardinality(Active) - 1
           /\ up # "down" /\ up' = up /\ launched' = launched
<1>1. task[a] = "run" /\ task' = [task EXCEPT ![a] = "over"]
  BY DEF Ends
<1>2. Running' = Running \ {a} /\ Active' = Active \ {a}
  BY <1>1 DEF Running, Active, TInv
<1>3. a \in Running /\ a \in Active
  BY <1>1 DEF Running, Active
<1>4. IsFiniteSet(Running) /\ IsFiniteSet(Active)
  BY Finite DEF Running, Active
<1>5. QED
  BY <1>1, <1>2, <1>3, <1>4, FS_RemoveElement DEF TInv, Ends

\* The sidecar keeps its form.
LEMMA SidecarForm ==
    ASSUME posFile \in Sidecars, NEW a \in Attempts
    PROVE  /\ Appended(posFile, a) \in Sidecars
           /\ Interrupted(posFile, a) \subseteq Sidecars
           /\ Len(Readable(posFile)) \in Nat
<1>1. posFile.lines \in Seq(Attempts)
      /\ posFile.tail \in Attempts \cup {Clean, Torn}
  BY DEF Sidecars
<1>2. Append(posFile.lines, a) \in Seq(Attempts)
  BY <1>1, AppendProperties
<1>3. Appended(posFile, a) \in Sidecars
  BY <1>1, <1>2 DEF Appended, Sidecars
<1>4. Interrupted(posFile, a) \subseteq Sidecars
  BY <1>1 DEF Interrupted, Sidecars
<1>5. Readable(posFile) \in Seq(Attempts)
  BY <1>1, AppendProperties DEF Readable
<1>6. QED
  BY <1>3, <1>4, <1>5, LenProperties

\* A process ends: nothing runs any more.
LEMMA DownKeeps ==
    ASSUME TInv, StopTasks, up' = "down", faults' \in Nat,
           UNCHANGED <<nPass, done, launched>>, posFile' \in Sidecars
    PROVE  TInv'
<1>1. Active' = {} /\ task' \in [Attempts -> {"none", "new", "run", "over"}]
  BY DEF StopTasks, Active, TInv
<1>2. QED
  BY <1>1, FS_EmptySet DEF TInv, Headroom

\* A trajectory ends and does not count.
LEMMA NoPassKeeps ==
    ASSUME TInv, NEW a \in Attempts, Ends(a), UNCHANGED <<nPass, done>>,
           faults' = faults \/ faults' = faults + 1, posFile' \in Sidecars
    PROVE  TInv'
<1>1. /\ task' \in [Attempts -> {"none", "new", "run", "over"}]
      /\ Cardinality(Running') = Cardinality(Running) - 1
      /\ Cardinality(Active') = Cardinality(Active) - 1
      /\ up # "down" /\ up' = up /\ launched' = launched
  BY EndCounts
<1>2. Cardinality(Running) \in Nat /\ Cardinality(Active) \in Nat
  BY RunningCounts
<1>3. /\ nPass \in Nat /\ faults \in Nat
      /\ ~done => nPass < Target + faults
      /\ done => nPass + Cardinality(Running)
                     < Target + NParallel + faults
  BY <1>1 DEF TInv, Headroom
<1>4. /\ ~done' => nPass' < Target + faults'
      /\ done' => nPass' + Cardinality(Running')
                      < Target + NParallel + faults'
  BY <1>1, <1>2, <1>3
<1>5. Headroom'
  BY <1>4 DEF Headroom
<1>6. QED
  BY <1>1, <1>2, <1>5 DEF TInv

\* A trajectory ends and counts: the event is set, or a write has raised.
LEMMA PassCounts ==
    ASSUME TInv, NEW a \in Attempts, Ends(a), nPass' = nPass + 1,
           \/ done' = Reached /\ faults' = faults
           \/ done' = done /\ faults' = faults + 1,
           posFile' \in Sidecars
    PROVE  TInv'
<1>1. /\ task' \in [Attempts -> {"none", "new", "run", "over"}]
      /\ Cardinality(Running') = Cardinality(Running) - 1
      /\ Cardinality(Active') = Cardinality(Active) - 1
      /\ up # "down" /\ up' = up /\ launched' = launched
  BY EndCounts
<1>2. /\ Cardinality(Running) \in Nat /\ Cardinality(Active) \in Nat
      /\ Cardinality(Running) <= Cardinality(Active)
  BY RunningCounts
<1>3. /\ nPass \in Nat /\ faults \in Nat /\ done \in BOOLEAN
      /\ Cardinality(Active) <= NParallel
      /\ ~done => nPass < Target + faults
      /\ done => nPass + Cardinality(Running)
                     < Target + NParallel + faults
  BY <1>1 DEF TInv, Headroom
<1>4. done' \in BOOLEAN
  BY <1>3, Zenon DEF Reached
<1>5. ~done' => /\ ~done
                /\ nPass + 1 >= Target => faults' = faults + 1
  BY <1>3, Zenon DEF Reached
<1>6. faults' = faults \/ faults' = faults + 1
  OBVIOUS
<1>7. ~done' => nPass' < Target + faults'
  BY <1>3, <1>5, <1>6
<1>8. nPass' + Cardinality(Running') < Target + NParallel + faults'
  BY <1>1, <1>2, <1>3, <1>6
<1>9. Headroom'
  BY <1>7, <1>8 DEF Headroom
<1>10. QED
  BY <1>1, <1>2, <1>3, <1>4, <1>6, <1>9 DEF TInv

\* A launch happens below the target and in a free slot.
LEMMA LaunchKeeps ==
    ASSUME TInv, Launch
    PROVE  TInv'
<1> DEFINE new == launched + 1
<1>1. new \in Attempts
  BY DEF Launch, TInv
<1>2. task' = [task EXCEPT ![new] = "new"]
  BY DEF Launch
<1>3. /\ Active' = Active \cup {new}
      /\ task' \in [Attempts -> {"none", "new", "run", "over"}]
  BY <1>1, <1>2 DEF Active, TInv
<1>4. Cardinality(Active') <= Cardinality(Active) + 1
      /\ Cardinality(Active') \in Nat
  <2>1. IsFiniteSet(Active)
    BY Finite DEF Active
  <2>2. Cardinality(Active \cup {new}) \in
            {Cardinality(Active), Cardinality(Active) + 1}
    BY <2>1, FS_AddElement
  <2>3. QED
    BY <1>3, <2>2, RunningCounts
<1>5. Cardinality(Active') <= NParallel
  BY <1>4, RunningCounts DEF Launch
<1>6. Headroom'
  BY DEF Launch, cacheVars, TInv, Headroom
<1>7. QED
  BY <1>1, <1>3, <1>5, <1>6 DEF Launch, cacheVars, fileVars, TInv

\* A launched trajectory that gets its slot joins the running ones.
LEMMA StartKeeps ==
    ASSUME TInv, NEW a \in Attempts, Start(a)
    PROVE  TInv'
<1>1. task[a] = "new"
      /\ task' = [task EXCEPT ![a] = IF done THEN "over" ELSE "run"]
  BY DEF Start
<1>2. Active' \subseteq Active
      /\ task' \in [Attempts -> {"none", "new", "run", "over"}]
  BY <1>1 DEF Active, TInv
<1>3. Cardinality(Active') <= Cardinality(Active)
  <2>1. IsFiniteSet(Active)
    BY Finite DEF Active
  <2>2. QED
    BY <1>2, <2>1, FS_Subset
<1>4. done => Running' = Running
  BY <1>1 DEF Running, TInv
<1>5. Headroom'
  BY <1>4 DEF Start, cacheVars, TInv, Headroom
<1>6. Cardinality(Active') <= NParallel
  <2>1. Cardinality(Active') \in Nat
    BY Finite, <1>2 DEF Active
  <2>2. QED
    BY <1>3, <2>1, RunningCounts DEF TInv
<1>7. QED
  BY <1>2, <1>5, <1>6 DEF Start, cacheVars, fileVars, TInv

\* A process that starts counts what it read, and nothing runs yet.
LEMMA ResumeCounts ==
    ASSUME TInv, disk \in Seq(Attempts), Resume
    PROVE  TInv'
<1>1. nPass' = Len(IF mode = "dpo" THEN Readable(posFile) ELSE collected')
  BY DEF Resume
<1>2. mode # "dpo" => collected' \in Seq(Attempts)
  BY EmptySeq DEF Resume
<1>3. nPass' \in Nat
  <2>1. CASE mode = "dpo"
    <3>1. CASE Attempts = {}
      BY <1>1, <2>1, <3>1, LenProperties DEF Readable, TInv, Sidecars
    <3>2. CASE Attempts # {}
      BY <1>1, <2>1, <3>2, SidecarForm DEF TInv
    <3>3. QED
      BY <3>1, <3>2
  <2>2. CASE mode # "dpo"
    BY <1>1, <1>2, <2>2, LenProperties
  <2>3. QED
    BY <2>1, <2>2
<1>4. up' # "down" => nPass' < Target
  BY DEF Resume
<1>5. done' = FALSE /\ faults' \in Nat
  BY DEF Resume
<1>6. /\ done' \in BOOLEAN /\ ~done'
      /\ up' # "down" => nPass' < Target + faults'
  <2>1. up' # "down" => nPass' < Target + faults'
    BY <1>3, <1>4, <1>5, Widens
  <2>2. QED
    BY <1>5, <2>1
<1>7. Active' = {} /\ Cardinality(Active') = 0
  BY FS_EmptySet DEF Resume, Active, TInv
<1>8. UNCHANGED <<task, launched, posFile>>
  BY DEF Resume
<1>9. Headroom'
  BY <1>6 DEF Headroom
<1>10. QED
  BY <1>3, <1>5, <1>6, <1>7, <1>8, <1>9 DEF TInv

\* Every step keeps the invariant of the counter.
LEMMA TargetStep ==
    ASSUME TInv, disk \in Seq(Attempts), [Next]_vars
    PROVE  TInv'
<1>1. CASE Resume
  BY <1>1, ResumeCounts
<1>2. CASE GatherDone \/ Interrupt
  <2>1. FinalSave
    BY <1>2 DEF GatherDone, Interrupt
  <2>2. QED
    BY <2>1, DownKeeps DEF FinalSave, cacheVars, TInv
<1>3. CASE Kill
  BY <1>3, DownKeeps DEF Kill, cacheVars, fileVars, TInv
<1>4. CASE Launch
  BY <1>4, LaunchKeeps
<1>5. CASE LeaveLoop
  BY <1>5 DEF LeaveLoop, loopVars, cacheVars, fileVars, TInv, Headroom,
              Active, Running
<1>6. ASSUME NEW a \in Attempts,
             Start(a) \/ Finish(a) \/ KillInAppend(a)
      PROVE  TInv'
  <2>1. CASE Start(a)
    BY <2>1, StartKeeps
  <2>2. CASE Dropped(a)
    BY <2>2, NoPassKeeps DEF Dropped, cacheVars, fileVars, TInv
  <2>3. CASE FailedDpo(a)
    BY <2>3, NoPassKeeps DEF FailedDpo, TInv
  <2>4. CASE AppendRaises(a)
    BY <2>4, NoPassKeeps, SidecarForm DEF AppendRaises, TInv
  <2>5. CASE Passed(a)
    BY <2>5, PassCounts DEF Passed, TInv
  <2>6. CASE PassedUnsaved(a)
    BY <2>6, PassCounts DEF PassedUnsaved, fileVars, TInv
  <2>7. CASE PassedDpo(a)
    BY <2>7, PassCounts, SidecarForm DEF PassedDpo, TInv
  <2>8. CASE KillInAppend(a)
    BY <2>8, DownKeeps, SidecarForm DEF KillInAppend, cacheVars, TInv
  <2>9. QED
    BY <1>6, <2>1, <2>2, <2>3, <2>4, <2>5, <2>6, <2>7, <2>8 DEF Finish
<1>7. CASE UNCHANGED vars
  BY <1>7 DEF vars, loopVars, cacheVars, fileVars, TInv, Headroom,
              Active, Running
<1>8. QED
  BY <1>1, <1>2, <1>3, <1>4, <1>5, <1>6, <1>7 DEF Next

\* It holds when the first run starts.
LEMMA TargetInit ==
    ASSUME Init
    PROVE  TInv
<1>1. Active = {} /\ Cardinality(Active) = 0
  BY FS_EmptySet DEF Init, Active
<1>2. posFile \in Sidecars
  BY EmptySeq DEF Init, Sidecars, EmptyFile
<1>3. task \in [Attempts -> {"none", "new", "run", "over"}]
  BY DEF Init
<1>4. /\ nPass = 0 /\ faults = 0 /\ launched = 0 /\ up = "down"
      /\ done \in BOOLEAN
  BY DEF Init
<1>5. QED
  BY <1>1, <1>2, <1>3, <1>4 DEF TInv, Headroom

\* A run never overshoots its target by more than the trajectories that were
\* in flight with the one that reached it, and the checkpoints that raised
\* (lines 423 to 430, 436, 475 to 485).
THEOREM TargetHolds == Spec => []OvershootsByTheOthers
<1>1. Init => TInv
  BY TargetInit
<1>2. IInv => disk \in Seq(Attempts)
  BY DEF IInv
<1>3. IInv /\ TInv /\ [Next]_vars => TInv'
  BY <1>2, TargetStep
<1>4. TInv => OvershootsByTheOthers
  BY RunningCounts DEF TInv, Headroom, OvershootsByTheOthers
<1>5. QED
  BY <1>1, <1>3, <1>4, Invariance, PTL DEF Spec

-------------------------------------------------------------------------------
(* Types *)

\* The records of an instance are among those of the cache.
LEMMA OfInstanceType ==
    ASSUME NEW s \in Seq(Attempts), NEW t
    PROVE  OfInstance(s, t) \in Seq(Attempts)
<1> DEFINE T == {a \in Attempts : inst[a] = t}
<1>1. Select(s, T) \in Seq(Attempts \cap T)
  BY SelectType
<1>2. Attempts \cap T = T /\ T \subseteq Attempts
  OBVIOUS
<1>3. QED
  BY <1>1, <1>2 DEF OfInstance

\* The place of the negative that is next in turn.
LEMMA TurnType ==
    ASSUME NEW k \in Nat \ {0}, NEW i \in Nat \ {0}
    PROVE  ((i - 1) % k) + 1 \in 1..k
  OBVIOUS

\* A pair is two records of one instance, the second one in turn.
LEMMA PairIs ==
    ASSUME NEW ps \in Seq(Attempts), NEW ns \in Seq(Attempts),
           NEW p \in PairUp(ps, ns)
    PROVE  \E t \in ToSet(Tasks) :
              /\ OfInstance(ns, t) # <<>>
              /\ p \in InTurn(OfInstance(ps, t), OfInstance(ns, t))
<1>1. PICK t \in ToSet(Tasks) :
          p \in InTurn(OfInstance(ps, t), OfInstance(ns, t))
  BY DEF PairUp
<1>2. OfInstance(ns, t) # <<>>
  BY <1>1 DEF InTurn
<1>3. QED
  BY <1>1, <1>2

\* What is paired are two records.
LEMMA InTurnType ==
    ASSUME NEW S, NEW P \in Seq(S), NEW N \in Seq(S), N # <<>>,
           NEW p \in InTurn(P, N)
    PROVE  \E i \in 1..Len(P) : \E j \in 1..Len(N) :
              /\ j = ((i - 1) % Len(N)) + 1
              /\ p = <<P[i], N[j]>>
<1>1. Len(N) \in Nat \ {0}
  BY EmptySeq, LenProperties
<1>2. PICK i \in 1..Len(P) : p = <<P[i], N[((i - 1) % Len(N)) + 1]>>
  <2>1. DOMAIN P = 1..Len(P)
    OBVIOUS
  <2>2. InTurn(P, N) = {<<P[i], N[((i - 1) % Len(N)) + 1]>> : i \in DOMAIN P}
    BY Zenon DEF InTurn
  <2>3. QED
    BY <2>1, <2>2, Zenon
<1>3. i \in Nat \ {0}
  OBVIOUS
<1>4. ((i - 1) % Len(N)) + 1 \in 1..Len(N)
  BY <1>1, <1>3, TurnType
<1>5. QED
  BY <1>2, <1>4

\* Pairs are of records.
LEMMA PairUpType ==
    ASSUME NEW ps \in Seq(Attempts), NEW ns \in Seq(Attempts)
    PROVE  PairUp(ps, ns) \subseteq Attempts \X Attempts
<1>1. ASSUME NEW p \in PairUp(ps, ns)
      PROVE  p \in Attempts \X Attempts
  <2>1. PICK t \in ToSet(Tasks) :
            /\ OfInstance(ns, t) # <<>>
            /\ p \in InTurn(OfInstance(ps, t), OfInstance(ns, t))
    BY <1>1, PairIs
  <2>2. PICK P \in Seq(Attempts) : P = OfInstance(ps, t)
    BY OfInstanceType
  <2>3. PICK N \in Seq(Attempts) : N = OfInstance(ns, t)
    BY OfInstanceType
  <2>4. \E i \in 1..Len(P) : \E j \in 1..Len(N) : p = <<P[i], N[j]>>
    <3>1. N # <<>> /\ p \in InTurn(P, N)
      BY <2>1, <2>2, <2>3
    <3>2. QED
      BY <3>1, InTurnType
  <2>5. PICK i \in 1..Len(P), j \in 1..Len(N) : p = <<P[i], N[j]>>
    BY <2>4
  <2>6. P[i] \in Attempts /\ N[j] \in Attempts
    BY <2>5, ElementOfSeq
  <2>7. QED
    BY <2>5, <2>6
<1>2. QED
  BY <1>1

\* A sidecar keeps its form, and what is read back are records.
LEMMA SidecarForms ==
    ASSUME NEW f \in Sidecars
    PROVE  /\ Readable(f) \in Seq(Attempts)
           /\ \A a \in Attempts : /\ Appended(f, a) \in Sidecars
                                  /\ Interrupted(f, a) \subseteq Sidecars
<1>1. f.lines \in Seq(Attempts) /\ f.tail \in Attempts \cup {Clean, Torn}
  BY DEF Sidecars
<1>2. \A a \in Attempts : Append(f.lines, a) \in Seq(Attempts)
  BY <1>1, AppendProperties
<1>3. Readable(f) \in Seq(Attempts)
  BY <1>1, <1>2 DEF Readable
<1>4. \A a \in Attempts : Appended(f, a) \in Sidecars
  BY <1>1, <1>2 DEF Appended, Sidecars
<1>5. \A a \in Attempts : Interrupted(f, a) \subseteq Sidecars
  BY <1>1 DEF Interrupted, Sidecars
<1>6. QED
  BY <1>3, <1>4, <1>5

\* What a process finds and what it pairs has its type.
LEMMA ResumeTypes ==
    ASSUME TypeOK, Resume
    PROVE  TypeOK'
<1>1. /\ mode' = mode /\ UNCHANGED <<task, inst, launched, disk, posFile,
                                     negFile>>
      /\ cursor' = 1 /\ faults' \in 0..MaxFaults /\ done' = FALSE
      /\ runs' \in 0..MaxRuns
      /\ up' \in {"loop", "down"} /\ exit' \in {"none", "ok", "failed"}
  BY DEF Resume, TypeOK
<1>2. /\ collected' \in Seq(Attempts) /\ output' \in {"known", "unread"}
      /\ pos' \in Seq(Attempts)
      /\ neg' \in Seq(Attempts)
  BY EmptySeq, SidecarForms DEF Resume, TypeOK
<1>3. nPass' \in Nat /\ lastCkpt' \in Nat
  <2>1. nPass' = Len(pos') \/ nPass' = Len(collected')
    BY DEF Resume
  <2>2. lastCkpt' = nPass'
    BY DEF Resume
  <2>3. QED
    BY <1>2, <2>1, <2>2, LenProperties
<1>4. pairs' \subseteq Attempts \X Attempts
  <2>1. pairs' = pairs \/ pairs' = PairUp(pos', neg')
    BY DEF Resume
  <2>2. PairUp(pos', neg') \subseteq Attempts \X Attempts
    BY <1>2, PairUpType
  <2>3. QED
    BY <2>1, <2>2 DEF TypeOK
<1>5. cursor' \in 1..Len(Tasks)
  BY <1>1, LenProperties
<1>6. /\ mode' \in {"rejection", "dpo"}
      /\ up' \in {"down", "loop", "gather"}
      /\ exit' \in {"none", "ok", "failed", "killed"}
      /\ faults' \in 0..MaxFaults
  BY <1>1 DEF TypeOK
<1>7. /\ done' \in BOOLEAN
      /\ task' \in [Attempts -> {"none", "new", "run", "over"}]
      /\ inst' \in [Attempts -> ToSet(Tasks)]
      /\ launched' \in 0..MaxAttempts
      /\ disk' \in Seq(Attempts)
      /\ posFile' \in Sidecars
      /\ negFile' \in Sidecars
  BY <1>1 DEF TypeOK
<1>8. QED
  BY <1>1, <1>2, <1>3, <1>4, <1>5, <1>6, <1>7 DEF TypeOK

\* The other steps keep the types.
LEMMA StepTypes ==
    ASSUME TypeOK, [Next]_vars
    PROVE  TypeOK'
<1>1. CASE Resume
  BY <1>1, ResumeTypes
<1>2. CASE GatherDone \/ Interrupt
  <2>1. FinalSave
    BY <1>2 DEF GatherDone, Interrupt
  <2>2. UNCHANGED <<mode, inst, launched, cursor, cacheVars, posFile, negFile,
                    runs>>
    BY <2>1 DEF FinalSave
  <2>3. /\ up' = "down"
        /\ exit' \in {"ok", "failed"}
        /\ disk' = disk \/ disk' = collected
        /\ pairs' = pairs \/ pairs' = PairUp(pos, neg)
    BY <2>1 DEF FinalSave
  <2>4. task' \in [Attempts -> {"none", "new", "run", "over"}]
    BY <2>1 DEF FinalSave, StopTasks, TypeOK
  <2>5. PairUp(pos, neg) \subseteq Attempts \X Attempts
    BY PairUpType DEF TypeOK
  <2>6. output' \in {"known", "unread"}
    BY <2>1 DEF FinalSave, TypeOK
  <2>7. faults' \in 0..MaxFaults
    BY <2>1 DEF FinalSave, TypeOK
  <2>8. QED
    BY <2>2, <2>3, <2>4, <2>5, <2>6, <2>7 DEF cacheVars, TypeOK
<1>3. CASE Kill
  BY <1>3 DEF Kill, StopTasks, cacheVars, fileVars, TypeOK
<1>4. CASE Launch
  <2>1. /\ launched + 1 \in Attempts
        /\ launched' = launched + 1
        /\ task' = [task EXCEPT ![launched + 1] = "new"]
        /\ inst' = [inst EXCEPT ![launched + 1] = Tasks[cursor]]
        /\ cursor' = (cursor % Len(Tasks)) + 1
        /\ UNCHANGED <<mode, up, exit, cacheVars, fileVars, runs, faults>>
    BY <1>4 DEF Launch, TypeOK
  <2>2. Len(Tasks) \in Nat \ {0} /\ cursor \in 1..Len(Tasks)
    BY LenProperties DEF TypeOK
  <2>3. cursor' \in 1..Len(Tasks)
    BY <2>1, <2>2
  <2>4. Tasks[cursor] \in ToSet(Tasks)
    BY <2>2, Elements
  <2>5. /\ task' \in [Attempts -> {"none", "new", "run", "over"}]
        /\ inst' \in [Attempts -> ToSet(Tasks)]
    BY <2>1, <2>4 DEF TypeOK
  <2>6. launched' \in 0..MaxAttempts
    BY <2>1
  <2>7. QED
    BY <2>1, <2>3, <2>5, <2>6 DEF cacheVars, fileVars, TypeOK
<1>5. CASE LeaveLoop
  BY <1>5 DEF LeaveLoop, loopVars, cacheVars, fileVars, TypeOK
<1>6. ASSUME NEW a \in Attempts,
             Start(a) \/ Finish(a) \/ KillInAppend(a)
      PROVE  TypeOK'
  <2>1. /\ posFile \in Sidecars /\ negFile \in Sidecars
        /\ Append(pos, a) \in Seq(Attempts)
        /\ Append(neg, a) \in Seq(Attempts)
        /\ Append(collected, a) \in Seq(Attempts)
    BY AppendProperties DEF TypeOK
  <2>2. /\ Appended(posFile, a) \in Sidecars
        /\ Appended(negFile, a) \in Sidecars
        /\ Interrupted(posFile, a) \subseteq Sidecars
        /\ Interrupted(negFile, a) \subseteq Sidecars
    BY <2>1, SidecarForms
  <2>3. CASE Start(a)
    BY <2>3 DEF Start, cacheVars, fileVars, TypeOK
  <2>4. CASE KillInAppend(a)
    <3>1. /\ posFile' \in Sidecars /\ negFile' \in Sidecars
          /\ up' = "down" /\ exit' = "killed"
      BY <2>2, <2>4 DEF KillInAppend, TypeOK
    <3>2. task' \in [Attempts -> {"none", "new", "run", "over"}]
      BY <2>4 DEF KillInAppend, StopTasks, TypeOK
    <3>3. QED
      BY <2>4, <3>1, <3>2 DEF KillInAppend, cacheVars, TypeOK
  <2>5. CASE Finish(a)
    <3>1. Ends(a)
      BY <2>5 DEF Finish, Dropped, Passed, PassedUnsaved, PassedDpo, FailedDpo,
                  AppendRaises
    <3>2. /\ task' \in [Attempts -> {"none", "new", "run", "over"}]
          /\ UNCHANGED <<mode, up, exit, inst, launched, cursor, runs>>
      BY <3>1 DEF Ends, TypeOK
    <3>3. Reached \in BOOLEAN
      BY Zenon DEF Reached, TypeOK
    <3>4. CASE Dropped(a)
      BY <3>2, <3>4 DEF Dropped, cacheVars, fileVars, TypeOK
    <3>5. CASE Passed(a)
      <4>1. /\ collected' = Append(collected, a)
            /\ nPass' = nPass + 1
            /\ disk' = disk \/ disk' = Append(collected, a)
            /\ lastCkpt' = lastCkpt \/ lastCkpt' = nPass + 1
            /\ output' = output \/ output' = "known"
            /\ UNCHANGED <<pos, neg, pairs, posFile, negFile, faults>>
        BY <3>5 DEF Passed
      <4>2. done' \in BOOLEAN
        BY <3>3, <3>5 DEF Passed
      <4>3. /\ nPass' \in Nat /\ lastCkpt' \in Nat
        BY <4>1 DEF TypeOK
      <4>4. /\ collected' \in Seq(Attempts)
            /\ disk' \in Seq(Attempts)
        BY <2>1, <4>1 DEF TypeOK
      <4>5. QED
        BY <3>2, <4>1, <4>2, <4>3, <4>4 DEF TypeOK
    <3>6. CASE PassedUnsaved(a)
      BY <2>1, <3>2, <3>6 DEF PassedUnsaved, fileVars, TypeOK
    <3>7. CASE PassedDpo(a)
      BY <2>1, <2>2, <3>2, <3>3, <3>7 DEF PassedDpo, TypeOK
    <3>8. CASE FailedDpo(a)
      BY <2>1, <2>2, <3>2, <3>8 DEF FailedDpo, TypeOK
    <3>9. CASE AppendRaises(a)
      <4>1. /\ pos' = pos \/ pos' = Append(pos, a)
            /\ neg' = neg \/ neg' = Append(neg, a)
            /\ posFile' \in Sidecars /\ negFile' \in Sidecars
            /\ faults' \in 0..MaxFaults
            /\ UNCHANGED <<collected, nPass, lastCkpt, done, disk, pairs,
                           output>>
        BY <2>2, <3>9 DEF AppendRaises, TypeOK
      <4>2. QED
        BY <2>1, <3>2, <4>1 DEF TypeOK
    <3>10. QED
      BY <2>5, <3>4, <3>5, <3>6, <3>7, <3>8, <3>9 DEF Finish
  <2>6. QED
    BY <1>6, <2>3, <2>4, <2>5
<1>7. CASE UNCHANGED vars
  BY <1>7 DEF vars, loopVars, cacheVars, fileVars, TypeOK
<1>8. QED
  BY <1>1, <1>2, <1>3, <1>4, <1>5, <1>6, <1>7 DEF Next

\* Every variable keeps its type.
THEOREM TypesHold == Spec => []TypeOK
<1>1. Init => TypeOK
  <2>1. SUFFICES ASSUME Init PROVE TypeOK
    OBVIOUS
  <2>2. 1 \in 1..Len(Tasks)
    BY LenProperties
  <2>3. Tasks[1] \in ToSet(Tasks)
    BY <2>2, Elements
  <2>4. /\ task \in [Attempts -> {"none", "new", "run", "over"}]
        /\ inst \in [Attempts -> ToSet(Tasks)]
    BY <2>1, <2>3 DEF Init
  <2>5. <<>> \in Seq(Attempts) /\ EmptyFile \in Sidecars
    BY EmptySeq DEF EmptyFile, Sidecars
  <2>6. /\ launched = 0 /\ nPass = 0 /\ lastCkpt = 0 /\ runs = 0 /\ faults = 0
        /\ cursor = 1 /\ pairs = {}
        /\ collected = <<>> /\ pos = <<>> /\ neg = <<>> /\ disk = <<>>
        /\ posFile = EmptyFile /\ negFile = EmptyFile
    BY <2>1 DEF Init
  <2>7. /\ mode \in {"rejection", "dpo"}
        /\ up \in {"down", "loop", "gather"}
        /\ exit \in {"none", "ok", "failed", "killed"}
        /\ done \in BOOLEAN
        /\ output \in {"known", "unread"}
    BY <2>1 DEF Init
  <2>8. /\ launched \in 0..MaxAttempts
        /\ nPass \in Nat /\ lastCkpt \in Nat
        /\ runs \in 0..MaxRuns /\ faults \in 0..MaxFaults
        /\ cursor \in 1..Len(Tasks)
        /\ pairs \subseteq Attempts \X Attempts
    BY <2>2, <2>6
  <2>9. QED
    BY <2>4, <2>5, <2>6, <2>7, <2>8 DEF TypeOK
<1>2. TypeOK /\ [Next]_vars => TypeOK'
  BY StepTypes
<1>3. QED
  BY <1>1, <1>2, PTL DEF Spec

-------------------------------------------------------------------------------
(* Torn appends *)

\* What is in the cache and cannot be read back.
Lost(cache, f) == ToSet(cache) \ ToSet(Readable(f))

\* What the next append may lose besides: the record behind a fragment, and a
\* record that lacks its newline with it.
AtStake(f) == IF f.tail = Clean THEN 0 ELSE IF f.tail = Torn THEN 1 ELSE 2

Debt(cache, f) == Cardinality(Lost(cache, f)) + AtStake(f)

\* A set with up to two elements more.
LEMMA Larger ==
    ASSUME NEW S \in SUBSET Attempts, NEW T, NEW a, NEW b
    PROVE  /\ Cardinality(S) \in Nat
           /\ T \subseteq S => Cardinality(T) \in 0..Cardinality(S)
           /\ T \subseteq S \cup {a}
                  => Cardinality(T) \in 0..Cardinality(S) + 1
           /\ T \subseteq S \cup {a, b}
                  => Cardinality(T) \in 0..Cardinality(S) + 2
<1>1. IsFiniteSet(S)
  <2>1. IsFiniteSet(1..MaxAttempts)
    BY FS_Interval
  <2>2. QED
    BY <2>1, FS_Subset
<1>2. ASSUME NEW U, IsFiniteSet(U), NEW V, V \subseteq U
      PROVE  Cardinality(V) \in 0..Cardinality(U)
  <2>1. IsFiniteSet(V) /\ Cardinality(V) <= Cardinality(U)
    BY <1>2, FS_Subset
  <2>2. QED
    BY <1>2, <2>1, FS_CardinalityType
<1>3. ASSUME NEW U, IsFiniteSet(U), NEW x
      PROVE  /\ IsFiniteSet(U \cup {x})
             /\ Cardinality(U \cup {x})
                    \in {Cardinality(U), Cardinality(U) + 1}
             /\ Cardinality(U) \in Nat
  BY <1>3, FS_AddElement, FS_CardinalityType
<1>4. ASSUME T \subseteq S \cup {a}
      PROVE  Cardinality(T) \in 0..Cardinality(S) + 1
  <2>1. IsFiniteSet(S \cup {a})
    BY <1>1, <1>3
  <2>2. Cardinality(T) \in 0..Cardinality(S \cup {a})
    BY <1>2, <1>4, <2>1
  <2>3. /\ Cardinality(S \cup {a}) \in {Cardinality(S), Cardinality(S) + 1}
        /\ Cardinality(S) \in Nat
    BY <1>1, <1>3
  <2>4. QED
    BY <2>2, <2>3
<1>5. ASSUME T \subseteq S \cup {a, b}
      PROVE  Cardinality(T) \in 0..Cardinality(S) + 2
  <2>1. S \cup {a, b} = (S \cup {a}) \cup {b}
    OBVIOUS
  <2>2. PICK U : U = S \cup {a}
    OBVIOUS
  <2>3. /\ IsFiniteSet(U)
        /\ Cardinality(U) \in {Cardinality(S), Cardinality(S) + 1}
        /\ Cardinality(S) \in Nat
    BY <1>1, <1>3, <2>2
  <2>4. /\ IsFiniteSet(U \cup {b})
        /\ Cardinality(U \cup {b}) \in {Cardinality(U), Cardinality(U) + 1}
    BY <1>3, <2>3
  <2>5. Cardinality(T) \in 0..Cardinality(U \cup {b})
    BY <1>2, <1>5, <2>1, <2>2, <2>4
  <2>6. QED
    BY <2>3, <2>4, <2>5
<1>6. QED
  BY <1>1, <1>2, <1>4, <1>5, FS_CardinalityType

\* The forms of a sidecar, and what is read back from each.
LEMMA Forms ==
    ASSUME NEW f \in Sidecars
    PROVE  /\ Clean \notin Attempts /\ Torn \notin Attempts /\ Clean # Torn
           /\ f.lines \in Seq(Attempts)
           /\ ToSet(f.lines) \subseteq Attempts
           /\ \/ /\ f.tail = Clean /\ AtStake(f) = 0
                 /\ Readable(f) = f.lines
              \/ /\ f.tail = Torn /\ f.tail # Clean /\ AtStake(f) = 1
                 /\ Readable(f) = f.lines
              \/ /\ f.tail \in Attempts /\ f.tail # Clean /\ AtStake(f) = 2
                 /\ ToSet(Readable(f)) = ToSet(f.lines) \cup {f.tail}
<1>1. f.lines \in Seq(Attempts) /\ f.tail \in Attempts \cup {Clean, Torn}
  BY DEF Sidecars
<1>2. Clean \notin Attempts /\ Torn \notin Attempts /\ Clean # Torn
  BY DEF Clean, Torn
<1>3. ToSet(f.lines) \subseteq Attempts
  BY <1>1, Elements
<1>4. CASE f.tail = Clean
  BY <1>1, <1>2, <1>3, <1>4 DEF AtStake, Readable
<1>5. CASE f.tail = Torn
  BY <1>1, <1>2, <1>3, <1>5 DEF AtStake, Readable
<1>6. CASE f.tail \in Attempts
  <2>1. f.tail # Clean /\ f.tail # Torn
    BY <1>2, <1>6
  <2>2. Readable(f) = Append(f.lines, f.tail)
    BY <1>6 DEF Readable
  <2>3. ToSet(Readable(f)) = ToSet(f.lines) \cup {f.tail}
    BY <1>1, <1>6, <2>2, AppendElements
  <2>4. AtStake(f) = 2
    BY <2>1 DEF AtStake
  <2>5. QED
    BY <1>1, <1>2, <1>3, <1>6, <2>1, <2>3, <2>4
<1>7. QED
  BY <1>1, <1>2, <1>4, <1>5, <1>6

\* A file that is read back owes nothing but what is at stake.
LEMMA DebtReadBack ==
    ASSUME NEW f \in Sidecars
    PROVE  Debt(Readable(f), f) <= 2
<1>1. Lost(Readable(f), f) = {}
  BY DEF Lost
<1>2. AtStake(f) \in {0, 1, 2}
  BY DEF AtStake
<1>3. QED
  BY <1>1, <1>2, FS_EmptySet DEF Debt

\* A record that is appended to cache and file adds to neither.
LEMMA DebtAppended ==
    ASSUME NEW c \in Seq(Attempts), NEW f \in Sidecars, NEW a \in Attempts
    PROVE  Debt(Append(c, a), Appended(f, a)) <= Debt(c, f)
<1> DEFINE g == Appended(f, a)
           d == Append(c, a)
<1>1. ToSet(d) = ToSet(c) \cup {a} /\ ToSet(c) \subseteq Attempts
  <2>1. ToSet(d) = ToSet(c) \cup {a}
    BY AppendElements
  <2>2. ToSet(c) \subseteq Attempts
    BY Elements
  <2>3. QED
    BY <2>1, <2>2
<1>2. g \in Sidecars
  BY SidecarForms
<1>3. g.tail = Clean /\ g.lines = IF f.tail = Clean THEN Append(f.lines, a)
                                                    ELSE f.lines
  BY DEF Appended
<1>4. AtStake(g) = 0 /\ Readable(g) = g.lines
  BY <1>3 DEF AtStake, Readable, Clean
<1>5. Lost(c, f) \in SUBSET Attempts
  BY <1>1 DEF Lost
<1>6. CASE f.tail = Clean
  <2>1. Readable(f) = f.lines /\ AtStake(f) = 0
    BY <1>6, Forms
  <2>2. f.lines \in Seq(Attempts) /\ Readable(g) = Append(f.lines, a)
    BY <1>3, <1>4, <1>6, Forms
  <2>3. ToSet(Readable(g)) = ToSet(Readable(f)) \cup {a}
    BY <2>1, <2>2, AppendElements
  <2>4. Lost(d, g) \subseteq Lost(c, f)
    BY <1>1, <2>3 DEF Lost
  <2>5. /\ Cardinality(Lost(d, g)) \in 0..Cardinality(Lost(c, f))
        /\ Cardinality(Lost(c, f)) \in Nat
    BY <1>5, <2>4, Larger
  <2>6. QED
    BY <1>4, <2>1, <2>5 DEF Debt
<1>7. CASE f.tail = Torn
  <2>1. Readable(g) = Readable(f) /\ AtStake(f) = 1
    BY <1>3, <1>4, <1>7, Forms
  <2>2. Lost(d, g) \subseteq Lost(c, f) \cup {a}
    BY <1>1, <2>1 DEF Lost
  <2>3. /\ Cardinality(Lost(d, g)) \in 0..Cardinality(Lost(c, f)) + 1
        /\ Cardinality(Lost(c, f)) \in Nat
    BY <1>5, <2>2, Larger
  <2>4. QED
    BY <1>4, <2>1, <2>3 DEF Debt
<1>8. CASE f.tail \in Attempts
  <2>1. /\ ToSet(Readable(f)) = ToSet(Readable(g)) \cup {f.tail}
        /\ AtStake(f) = 2
    BY <1>3, <1>4, <1>8, Forms DEF Clean, Torn
  <2>2. Lost(d, g) \subseteq Lost(c, f) \cup {a, f.tail}
    BY <1>1, <2>1 DEF Lost
  <2>3. /\ Cardinality(Lost(d, g)) \in 0..Cardinality(Lost(c, f)) + 2
        /\ Cardinality(Lost(c, f)) \in Nat
    BY <1>5, <2>2, Larger
  <2>4. QED
    BY <1>4, <2>1, <2>3 DEF Debt
<1>9. QED
  BY <1>6, <1>7, <1>8 DEF Sidecars

\* An append that does not complete costs two records: the new one and the one
\* that lacked its newline, or a fragment in place of the new one.
LEMMA DebtInterrupted ==
    ASSUME NEW c \in Seq(Attempts), NEW f \in Sidecars, NEW a \in Attempts,
           NEW g \in Interrupted(f, a)
    PROVE  Debt(Append(c, a), g) <= Debt(c, f) + 2
<1> DEFINE d == Append(c, a)
<1>1. ToSet(d) = ToSet(c) \cup {a} /\ ToSet(c) \subseteq Attempts
  <2>1. ToSet(d) = ToSet(c) \cup {a}
    BY AppendElements
  <2>2. ToSet(c) \subseteq Attempts
    BY Elements
  <2>3. QED
    BY <2>1, <2>2
<1>2. g \in Sidecars
  BY SidecarForms
<1>3. Lost(c, f) \in SUBSET Attempts
  BY <1>1 DEF Lost
<1>4. AtStake(f) \in {0, 1, 2}
  BY DEF AtStake
<1>5. CASE g = f
  <2>1. Lost(d, g) \subseteq Lost(c, f) \cup {a}
    BY <1>1, <1>5 DEF Lost
  <2>2. /\ Cardinality(Lost(d, g)) \in 0..Cardinality(Lost(c, f)) + 1
        /\ Cardinality(Lost(c, f)) \in Nat
    BY <1>3, <2>1, Larger
  <2>3. QED
    BY <1>4, <1>5, <2>2 DEF Debt
<1>6. CASE g = [f EXCEPT !.tail = Torn]
  <2>1. /\ f.lines = g.lines /\ g.tail = Torn
        /\ Readable(g) = g.lines /\ AtStake(g) = 1
    BY <1>2, <1>6, Forms DEF Sidecars, Clean, Torn
  <2>2. CASE f.tail \in Attempts
    <3>1. /\ ToSet(Readable(f)) = ToSet(Readable(g)) \cup {f.tail}
          /\ AtStake(f) = 2
      BY <2>1, <2>2, Forms DEF Clean, Torn
    <3>2. Lost(d, g) \subseteq Lost(c, f) \cup {a, f.tail}
      BY <1>1, <3>1 DEF Lost
    <3>3. /\ Cardinality(Lost(d, g)) \in 0..Cardinality(Lost(c, f)) + 2
          /\ Cardinality(Lost(c, f)) \in Nat
      BY <1>3, <3>2, Larger
    <3>4. QED
      BY <2>1, <3>1, <3>3 DEF Debt
  <2>3. CASE f.tail \notin Attempts
    <3>1. Readable(f) = Readable(g)
      BY <2>1, <2>3 DEF Readable
    <3>2. Lost(d, g) \subseteq Lost(c, f) \cup {a}
      BY <1>1, <3>1 DEF Lost
    <3>3. /\ Cardinality(Lost(d, g)) \in 0..Cardinality(Lost(c, f)) + 1
          /\ Cardinality(Lost(c, f)) \in Nat
      BY <1>3, <3>2, Larger
    <3>4. QED
      BY <1>4, <2>1, <3>3 DEF Debt
  <2>4. QED
    BY <2>2, <2>3
<1>7. CASE f.tail = Clean /\ g = [f EXCEPT !.tail = a]
  <2>1. f.lines = g.lines /\ g.tail = a
    BY <1>7 DEF Sidecars
  <2>2. /\ ToSet(Readable(g)) = ToSet(g.lines) \cup {a}
        /\ AtStake(g) = 2
    BY <1>2, <2>1, Forms
  <2>3. Readable(f) = f.lines /\ AtStake(f) = 0
    BY <1>7, Forms DEF Clean, Torn
  <2>4. Lost(d, g) \subseteq Lost(c, f)
    BY <1>1, <2>1, <2>2, <2>3 DEF Lost
  <2>5. /\ Cardinality(Lost(d, g)) \in 0..Cardinality(Lost(c, f))
        /\ Cardinality(Lost(c, f)) \in Nat
    BY <1>3, <2>4, Larger
  <2>6. QED
    BY <2>2, <2>3, <2>5 DEF Debt
<1>8. QED
  BY <1>5, <1>6, <1>7 DEF Interrupted

\* What the appends of a run cost, and what the next one may cost besides.
Tears ==
    mode = "dpo" /\ up # "down"
        => /\ Debt(pos, posFile) <= 2 * (1 + faults)
           /\ Debt(neg, negFile) <= 2 * (1 + faults)

\* A debt is a natural number.
LEMMA DebtType ==
    ASSUME NEW c \in Seq(Attempts), NEW f
    PROVE  /\ Debt(c, f) \in Nat
           /\ Cardinality(Lost(c, f)) <= Debt(c, f)
<1>1. Lost(c, f) \in SUBSET Attempts
  BY Elements DEF Lost
<1>2. Cardinality(Lost(c, f)) \in Nat
  BY <1>1, Larger
<1>3. AtStake(f) \in {0, 1, 2}
  BY DEF AtStake
<1>4. QED
  BY <1>2, <1>3 DEF Debt

\* No step makes a run owe more than its failing writes account for.
LEMMA TearsStep ==
    ASSUME TypeOK, Tears, [Next]_vars
    PROVE  Tears'
<1>1. /\ posFile \in Sidecars /\ negFile \in Sidecars
      /\ pos \in Seq(Attempts) /\ neg \in Seq(Attempts)
      /\ faults \in Nat
  BY DEF TypeOK
<1>2. /\ Debt(pos, posFile) \in Nat
      /\ Debt(neg, negFile) \in Nat
  BY <1>1, DebtType
<1>3. ASSUME UNCHANGED <<pos, neg, posFile, negFile, mode>>,
             up' # "down" => up # "down",
             faults' = faults \/ faults' = faults + 1
      PROVE  Tears'
  <2>1. faults <= faults'
    BY <1>1, <1>3
  <2>2. faults' \in Nat
    BY <1>1, <1>3
  <2>3. /\ Debt(pos, posFile)' = Debt(pos, posFile)
        /\ Debt(neg, negFile)' = Debt(neg, negFile)
    BY <1>3 DEF Debt, Lost, AtStake, Readable
  <2>4. QED
    BY <1>1, <1>2, <1>3, <2>1, <2>2, <2>3 DEF Tears
<1>4. CASE Resume
  <2>1. ASSUME mode' = "dpo", up' # "down"
        PROVE  /\ pos' = Readable(posFile) /\ posFile' = posFile
               /\ neg' = Readable(negFile) /\ negFile' = negFile
               /\ faults' = 0
    BY <1>4, <2>1 DEF Resume
  <2>2. /\ Debt(Readable(posFile), posFile) <= 2
        /\ Debt(Readable(negFile), negFile) <= 2
    BY <1>1, DebtReadBack
  <2>3. ASSUME mode' = "dpo", up' # "down"
        PROVE  /\ Debt(pos, posFile)' <= 2 * (1 + faults')
               /\ Debt(neg, negFile)' <= 2 * (1 + faults')
    <3>1. /\ Debt(pos, posFile)' = Debt(Readable(posFile), posFile)
          /\ Debt(neg, negFile)' = Debt(Readable(negFile), negFile)
      BY <2>1, <2>3 DEF Debt, Lost, AtStake, Readable
    <3>2. 2 * (1 + faults') = 2
      BY <2>1, <2>3
    <3>3. QED
      BY <2>2, <3>1, <3>2
  <2>4. QED
    BY <2>3 DEF Tears
<1>5. CASE GatherDone \/ Interrupt
  BY <1>5 DEF GatherDone, Interrupt, FinalSave, Tears
<1>6. CASE Kill
  BY <1>6 DEF Kill, Tears
<1>7. CASE Launch
  BY <1>3, <1>7 DEF Launch, cacheVars, fileVars
<1>8. CASE LeaveLoop
  BY <1>3, <1>8 DEF LeaveLoop, cacheVars, fileVars
<1>9. ASSUME NEW a \in Attempts,
             Start(a) \/ Finish(a) \/ KillInAppend(a)
      PROVE  Tears'
  <2>1. /\ Debt(Append(pos, a), Appended(posFile, a)) <= Debt(pos, posFile)
        /\ Debt(Append(neg, a), Appended(negFile, a)) <= Debt(neg, negFile)
    BY <1>1, DebtAppended
  <2>2. /\ \A g \in Interrupted(posFile, a) :
               Debt(Append(pos, a), g) <= Debt(pos, posFile) + 2
        /\ \A g \in Interrupted(negFile, a) :
               Debt(Append(neg, a), g) <= Debt(neg, negFile) + 2
    BY <1>1, DebtInterrupted
  <2>3. /\ Append(pos, a) \in Seq(Attempts)
        /\ Append(neg, a) \in Seq(Attempts)
    BY <1>1, AppendProperties
  <2>4. \A f : /\ Debt(Append(pos, a), f) \in Nat
               /\ Debt(Append(neg, a), f) \in Nat
    BY <2>3, DebtType
  <2>5. CASE Start(a)
    BY <1>3, <2>5 DEF Start, cacheVars, fileVars
  <2>6. CASE KillInAppend(a)
    BY <2>6 DEF KillInAppend, Tears
  <2>7. CASE Dropped(a)
    BY <1>3, <2>7 DEF Dropped, Ends, cacheVars, fileVars
  <2>8. CASE Passed(a) \/ PassedUnsaved(a)
    <3>1. mode' = "rejection"
      BY <2>8 DEF Passed, PassedUnsaved, Ends
    <3>2. QED
      BY <3>1 DEF Tears
  <2>9. CASE PassedDpo(a)
    <3>1. /\ mode = "dpo" /\ up # "down" /\ faults' = faults
          /\ pos' = Append(pos, a) /\ posFile' = Appended(posFile, a)
          /\ neg' = neg /\ negFile' = negFile
      BY <2>9 DEF PassedDpo, Ends
    <3>2. /\ Debt(pos, posFile)' = Debt(Append(pos, a), Appended(posFile, a))
          /\ Debt(neg, negFile)' = Debt(neg, negFile)
      BY <3>1 DEF Debt, Lost, AtStake, Readable
    <3>3. QED
      BY <1>1, <1>2, <2>1, <2>4, <3>1, <3>2 DEF Tears
  <2>10. CASE FailedDpo(a)
    <3>1. /\ mode = "dpo" /\ up # "down" /\ faults' = faults
          /\ neg' = Append(neg, a) /\ negFile' = Appended(negFile, a)
          /\ pos' = pos /\ posFile' = posFile
      BY <2>10 DEF FailedDpo, Ends
    <3>2. /\ Debt(neg, negFile)' = Debt(Append(neg, a), Appended(negFile, a))
          /\ Debt(pos, posFile)' = Debt(pos, posFile)
      BY <3>1 DEF Debt, Lost, AtStake, Readable
    <3>3. QED
      BY <1>1, <1>2, <2>1, <2>4, <3>1, <3>2 DEF Tears
  <2>11. CASE AppendRaises(a)
    <3>1. mode = "dpo" /\ up # "down" /\ faults' = faults + 1
      BY <2>11 DEF AppendRaises, Ends
    <3>2. CASE pos' = Append(pos, a) /\ posFile' \in Interrupted(posFile, a)
               /\ neg' = neg /\ negFile' = negFile
      <4>1. /\ Debt(pos, posFile)' = Debt(Append(pos, a), posFile')
            /\ Debt(neg, negFile)' = Debt(neg, negFile)
        BY <3>2 DEF Debt, Lost, AtStake, Readable
      <4>2. Debt(pos, posFile)' <= Debt(pos, posFile) + 2
        BY <2>2, <3>2, <4>1
      <4>3. Debt(pos, posFile)' \in Nat
        BY <2>4, <4>1
      <4>4. QED
        BY <1>1, <1>2, <3>1, <4>1, <4>2, <4>3 DEF Tears
    <3>3. CASE neg' = Append(neg, a) /\ negFile' \in Interrupted(negFile, a)
               /\ pos' = pos /\ posFile' = posFile
      <4>1. /\ Debt(neg, negFile)' = Debt(Append(neg, a), negFile')
            /\ Debt(pos, posFile)' = Debt(pos, posFile)
        BY <3>3 DEF Debt, Lost, AtStake, Readable
      <4>2. Debt(neg, negFile)' <= Debt(neg, negFile) + 2
        BY <2>2, <3>3, <4>1
      <4>3. Debt(neg, negFile)' \in Nat
        BY <2>4, <4>1
      <4>4. QED
        BY <1>1, <1>2, <3>1, <4>1, <4>2, <4>3 DEF Tears
    <3>4. QED
      BY <2>11, <3>2, <3>3 DEF AppendRaises
  <2>12. QED
    BY <1>9, <2>5, <2>6, <2>7, <2>8, <2>9, <2>10, <2>11 DEF Finish
<1>10. CASE UNCHANGED vars
  BY <1>3, <1>10 DEF vars, cacheVars, fileVars
<1>11. QED
  BY <1>4, <1>5, <1>6, <1>7, <1>8, <1>9, <1>10 DEF Next

\* A sidecar lacks at most two records for each append that did not complete
\* (lines 174 to 188).
THEOREM TearsCostTwo == Spec => []TearCostsTwo
<1>1. Init => Tears
  BY DEF Init, Tears
<1>2. TypeOK /\ Tears /\ [Next]_vars => Tears'
  BY TearsStep
<1>3. ASSUME TypeOK, Tears
      PROVE  TearCostsTwo
  <2>1. /\ pos \in Seq(Attempts) /\ neg \in Seq(Attempts)
        /\ faults \in Nat
    BY <1>3 DEF TypeOK
  <2>2. /\ Debt(pos, posFile) \in Nat
        /\ Debt(neg, negFile) \in Nat
        /\ Cardinality(Lost(pos, posFile)) <= Debt(pos, posFile)
        /\ Cardinality(Lost(neg, negFile)) <= Debt(neg, negFile)
    BY <2>1, DebtType
  <2>3. /\ Cardinality(Lost(pos, posFile)) \in Nat
        /\ Cardinality(Lost(neg, negFile)) \in Nat
    <3>1. /\ Lost(pos, posFile) \in SUBSET Attempts
          /\ Lost(neg, negFile) \in SUBSET Attempts
      BY <2>1, Elements DEF Lost
    <3>2. QED
      BY <3>1, Larger
  <2>4. ASSUME mode = "dpo", up # "down"
        PROVE  /\ Cardinality(Lost(pos, posFile)) <= 2 * (1 + faults)
               /\ Cardinality(Lost(neg, negFile)) <= 2 * (1 + faults)
    BY <1>3, <2>1, <2>2, <2>3, <2>4 DEF Tears
  <2>5. QED
    BY <2>4 DEF TearCostsTwo, Lost
<1>4. QED
  BY <1>1, <1>2, <1>3, TypesHold, PTL DEF Spec

-------------------------------------------------------------------------------
(* The pairs of an instance *)

Turn(i, k) == ((i - 1) % k) + 1

\* The turn after the last one is the first.
LEMMA NextTurn ==
    ASSUME NEW k \in Nat \ {0}, NEW i \in Nat \ {0}
    PROVE  /\ Turn(i, k) \in 1..k
           /\ Turn(1, k) = 1
           /\ Turn(i + 1, k) = IF Turn(i, k) = k THEN 1 ELSE Turn(i, k) + 1
<1>1. PICK x \in Nat : x = i - 1
  OBVIOUS
<1>2. PICK q, r \in Int : q = x \div k /\ r = (x % k)
  OBVIOUS
<1>3. PICK p, s \in Int : p = (x + 1) \div k /\ s = ((x + 1) % k)
  OBVIOUS
<1>4. x = k * q + r /\ r \in 0..k - 1
  BY <1>2
<1>5. x + 1 = k * p + s /\ s \in 0..k - 1
  BY <1>3
<1>6. PICK d \in Int : d = p - q
  OBVIOUS
<1>7. k * d = r + 1 - s
  BY <1>4, <1>5, <1>6
<1>8. d \in {0, 1}
  <2>1. ASSUME d >= 2
        PROVE  FALSE
    <3>1. k * d >= k * 2
      BY <2>1
    <3>2. QED
      BY <1>4, <1>5, <1>7, <3>1
  <2>2. ASSUME d <= -1
        PROVE  FALSE
    <3>1. k * d <= -k
      BY <2>2
    <3>2. QED
      BY <1>4, <1>5, <1>7, <3>1
  <2>3. QED
    BY <2>1, <2>2
<1>9. s = IF r = k - 1 THEN 0 ELSE r + 1
  <2>1. CASE d = 0
    BY <1>4, <1>5, <1>7, <2>1
  <2>2. CASE d = 1
    BY <1>4, <1>5, <1>7, <2>2
  <2>3. QED
    BY <1>8, <2>1, <2>2
<1>10. Turn(i, k) = r + 1 /\ Turn(i + 1, k) = s + 1
  BY <1>1, <1>2, <1>3 DEF Turn
<1>11. Turn(1, k) = 1
  BY DEF Turn
<1>12. QED
  BY <1>4, <1>9, <1>10, <1>11

Turns(n, k, j) == {i \in 1..n : Turn(i, k) = j}

\* Each of k had d or d + 1 turns of n: the first ones are one ahead.
Dealt(n, k, d) ==
    \A j \in 1..k :
        Cardinality(Turns(n, k, j)) =
            IF n > 0 /\ j <= Turn(n, k) THEN d + 1 ELSE d

\* One more turn goes to one of them.
LEMMA OneMoreTurn ==
    ASSUME NEW n \in Nat, NEW k \in Nat \ {0}, NEW j \in 1..k
    PROVE  /\ Cardinality(Turns(n, k, j)) \in Nat
           /\ Cardinality(Turns(n + 1, k, j)) =
                  IF Turn(n + 1, k) = j THEN Cardinality(Turns(n, k, j)) + 1
                  ELSE Cardinality(Turns(n, k, j))
<1>1. IsFiniteSet(Turns(n, k, j))
  <2>1. IsFiniteSet(1..n)
    BY FS_Interval
  <2>2. Turns(n, k, j) \in SUBSET (1..n)
    BY DEF Turns
  <2>3. QED
    BY <2>1, <2>2, FS_Subset
<1>2. n + 1 \notin Turns(n, k, j)
  BY DEF Turns
<1>3. 1..n + 1 = 1..n \cup {n + 1}
  OBVIOUS
<1>4. Turns(n + 1, k, j) = IF Turn(n + 1, k) = j
                           THEN Turns(n, k, j) \cup {n + 1}
                           ELSE Turns(n, k, j)
  BY <1>3 DEF Turns
<1>5. QED
  BY <1>1, <1>2, <1>4, FS_AddElement, FS_CardinalityType

\* Turns are dealt evenly.
LEMMA EvenTurns ==
    ASSUME NEW n \in Nat, NEW k \in Nat \ {0}, NEW i \in 1..k, NEW j \in 1..k
    PROVE  Cardinality(Turns(n, k, i)) <= Cardinality(Turns(n, k, j)) + 1
<1> DEFINE J == {m \in Nat : \E d \in Nat : Dealt(m, k, d)}
<1>1. 0 \in J
  <2>1. \A l \in 1..k : Turns(0, k, l) = {}
    BY DEF Turns
  <2>2. \A l \in 1..k : Cardinality(Turns(0, k, l)) = 0
    BY <2>1, FS_EmptySet
  <2>3. Dealt(0, k, 0)
    BY <2>2 DEF Dealt
  <2>4. QED
    BY <2>3
<1>2. ASSUME NEW m \in Nat, m \in J
      PROVE  m + 1 \in J
  <2>1. PICK d \in Nat : Dealt(m, k, d)
    BY <1>2
  <2>2. PICK t \in 1..k : t = Turn(m + 1, k)
    <3>1. m + 1 \in Nat \ {0}
      OBVIOUS
    <3>2. QED
      BY <3>1, NextTurn
  <2>3. \A l \in 1..k :
            Cardinality(Turns(m + 1, k, l)) =
                IF t = l THEN Cardinality(Turns(m, k, l)) + 1
                ELSE Cardinality(Turns(m, k, l))
    <3>1. TAKE l \in 1..k
    <3>2. Cardinality(Turns(m + 1, k, l)) =
              IF Turn(m + 1, k) = l THEN Cardinality(Turns(m, k, l)) + 1
              ELSE Cardinality(Turns(m, k, l))
      BY OneMoreTurn
    <3>3. QED
      BY <2>2, <3>2
  <2>4. CASE m = 0
    <3>1. t = 1
      BY <2>2, <2>4, NextTurn
    <3>2. \A l \in 1..k : Cardinality(Turns(m, k, l)) = d
      BY <2>1, <2>4 DEF Dealt
    <3>3. \A l \in 1..k : l <= 1 <=> l = 1
      OBVIOUS
    <3>4. Dealt(m + 1, k, d)
      BY <2>2, <2>3, <3>1, <3>2, <3>3 DEF Dealt
    <3>5. QED
      BY <3>4
  <2>5. CASE m > 0
    <3>1. m \in Nat \ {0}
      BY <2>5
    <3>2. PICK s \in 1..k : /\ s = Turn(m, k)
                            /\ t = IF s = k THEN 1 ELSE s + 1
      BY <2>2, <3>1, NextTurn
    <3>3. \A l \in 1..k : Cardinality(Turns(m, k, l)) =
                              IF l <= s THEN d + 1 ELSE d
      BY <2>1, <2>5, <3>2 DEF Dealt
    <3>4. CASE s = k
      <4>1. \A l \in 1..k : Cardinality(Turns(m, k, l)) = d + 1
        BY <3>3, <3>4
      <4>2. \A l \in 1..k : l <= t <=> l = t
        BY <3>2, <3>4
      <4>3. Dealt(m + 1, k, d + 1)
        BY <2>2, <2>3, <4>1, <4>2 DEF Dealt
      <4>4. QED
        BY <4>3
    <3>5. CASE s # k
      <4>1. \A l \in 1..k : l <= t <=> l <= s \/ l = t
        BY <3>2, <3>5
      <4>2. ~(t <= s)
        BY <3>2, <3>5
      <4>3. \A l \in 1..k : Cardinality(Turns(m + 1, k, l)) =
                                IF l <= t THEN d + 1 ELSE d
        BY <2>3, <3>3, <4>1, <4>2
      <4>4. Dealt(m + 1, k, d)
        BY <2>2, <4>3 DEF Dealt
      <4>5. QED
        BY <4>4
    <3>6. QED
      BY <3>4, <3>5
  <2>6. QED
    BY <2>4, <2>5
<1> HIDE DEF J
<1>3. Nat \subseteq J
  BY <1>1, <1>2, Induction
<1>4. n \in J
  BY <1>3
<1>5. PICK d \in Nat : Dealt(n, k, d)
  BY <1>4 DEF J
<1>6. /\ Cardinality(Turns(n, k, i)) \in {d, d + 1}
      /\ Cardinality(Turns(n, k, j)) \in {d, d + 1}
  BY <1>5 DEF Dealt
<1>7. QED
  BY <1>6

-------------------------------------------------------------------------------
\* Each positive of an instance with a negative is in one pair, and a negative
\* in as many as it has turns.
LEMMA InTurnCounts ==
    ASSUME NEW P \in Seq(Attempts), NEW N \in Seq(Attempts),
           Once(P), Once(N), N # <<>>
    PROVE  /\ \A a \in ToSet(P) : \E p \in InTurn(P, N) : p[1] = a
           /\ \A p, q \in InTurn(P, N) : p[1] = q[1] => p = q
           /\ \A j \in 1..Len(N) :
                 ExistsBijection(Turns(Len(P), Len(N), j),
                                 {p \in InTurn(P, N) : p[2] = N[j]})
<1>1. PICK n \in Nat : n = Len(P)
  OBVIOUS
<1>2. PICK k \in Nat \ {0} : k = Len(N)
  BY EmptySeq, LenProperties
<1>3. ASSUME NEW i \in 1..n
      PROVE  Turn(i, k) \in 1..k
  <2>1. i \in Nat \ {0}
    OBVIOUS
  <2>2. QED
    BY <2>1, NextTurn
<1>4. PICK f : f = [i \in 1..n |-> <<P[i], N[Turn(i, k)]>>]
  OBVIOUS
<1>5. InTurn(P, N) = {f[i] : i \in 1..n}
  <2>1. DOMAIN P = 1..n
    BY <1>1
  <2>2. InTurn(P, N) = {<<P[i], N[Turn(i, k)]>> : i \in 1..n}
    BY <1>2, <2>1, Zenon DEF InTurn, Turn
  <2>3. \A i \in 1..n : f[i] = <<P[i], N[Turn(i, k)]>>
    BY <1>4
  <2>4. QED
    BY <2>2, <2>3, Zenon
<1>6. \A i \in 1..n : f[i][1] = P[i] /\ f[i][2] = N[Turn(i, k)]
  BY <1>4
<1>7. \A i, j \in 1..n : f[i][1] = f[j][1] => i = j
  BY <1>1, <1>6 DEF Once
<1>8. ASSUME NEW a \in ToSet(P)
      PROVE  \E p \in InTurn(P, N) : p[1] = a
  <2>1. PICK i \in 1..n : P[i] = a
    BY <1>1, <1>8, Elements
  <2>2. QED
    BY <1>5, <1>6, <2>1
<1>9. \A p, q \in InTurn(P, N) : p[1] = q[1] => p = q
  BY <1>5, <1>7
<1>10. ASSUME NEW j \in 1..k
       PROVE  ExistsBijection(Turns(n, k, j),
                              {p \in InTurn(P, N) : p[2] = N[j]})
  <2>1. \A i \in 1..n : N[Turn(i, k)] = N[j] <=> Turn(i, k) = j
    BY <1>2, <1>3 DEF Once
  <2>2. PICK T : T = Turns(n, k, j)
    OBVIOUS
  <2>3. PICK U : U = {p \in InTurn(P, N) : p[2] = N[j]}
    OBVIOUS
  <2>4. PICK g : g = [i \in T |-> f[i]]
    OBVIOUS
  <2>5. \A i : i \in T <=> i \in 1..n /\ Turn(i, k) = j
    BY <2>2 DEF Turns
  <2>6. \A i \in T : g[i] \in U
    BY <1>5, <1>6, <2>1, <2>3, <2>4, <2>5
  <2>7. \A i, l \in T : g[i] = g[l] => i = l
    BY <1>7, <2>4, <2>5
  <2>8. ASSUME NEW p \in U
        PROVE  \E i \in T : g[i] = p
    <3>1. PICK i \in 1..n : f[i] = p
      BY <1>5, <2>3
    <3>2. N[Turn(i, k)] = N[j]
      BY <1>6, <2>3, <3>1
    <3>3. i \in T
      BY <2>1, <2>5, <3>2
    <3>4. QED
      BY <2>4, <3>1, <3>3
  <2>9. g \in Bijection(T, U)
    BY <2>4, <2>6, <2>7, <2>8
       DEF Bijection, Injection, IsInjective, Surjection
  <2>10. QED
    BY <2>2, <2>3, <2>9 DEF ExistsBijection
<1>11. QED
  BY <1>1, <1>2, <1>8, <1>9, <1>10

\* The records of an instance, in a cache that holds none twice.
LEMMA OfInstanceIs ==
    ASSUME NEW s \in Seq(Attempts), Once(s), NEW t
    PROVE  /\ OfInstance(s, t) \in Seq(Attempts)
           /\ Once(OfInstance(s, t))
           /\ ToSet(OfInstance(s, t)) = {a \in ToSet(s) : inst[a] = t}
<1> DEFINE T == {a \in Attempts : inst[a] = t}
<1>1. Once(Select(s, T))
  BY SelectOnce
<1>2. ToSet(Select(s, T)) = ToSet(s) \cap T
  BY SelectElements
<1>3. ToSet(s) \subseteq Attempts
  BY Elements
<1>4. ToSet(s) \cap T = {a \in ToSet(s) : inst[a] = t}
  BY <1>3
<1>5. QED
  BY <1>1, <1>2, <1>4, OfInstanceType DEF OfInstance

\* p pairs records of instance t.
Pairs(p, t, ps, ns) ==
    /\ OfInstance(ns, t) # <<>>
    /\ p \in InTurn(OfInstance(ps, t), OfInstance(ns, t))
    /\ p[1] \in ToSet(ps) /\ inst[p[1]] = t
    /\ p[2] \in ToSet(ns) /\ inst[p[2]] = t

\* A pair is of the instance of both its records.
LEMMA PairOf ==
    ASSUME NEW ps \in Seq(Attempts), Once(ps),
           NEW ns \in Seq(Attempts), Once(ns),
           inst \in [Attempts -> ToSet(Tasks)], NEW p
    PROVE  p \in PairUp(ps, ns) <=> \E t \in ToSet(Tasks) : Pairs(p, t, ps, ns)
<1>1. ASSUME NEW t \in ToSet(Tasks), OfInstance(ns, t) # <<>>,
             p \in InTurn(OfInstance(ps, t), OfInstance(ns, t))
      PROVE  Pairs(p, t, ps, ns)
  <2>1. PICK P \in Seq(Attempts) : P = OfInstance(ps, t)
    BY OfInstanceIs
  <2>2. PICK N \in Seq(Attempts) : N = OfInstance(ns, t)
    BY OfInstanceIs
  <2>3. /\ ToSet(P) = {a \in ToSet(ps) : inst[a] = t}
        /\ ToSet(N) = {a \in ToSet(ns) : inst[a] = t}
    BY <2>1, <2>2, OfInstanceIs
  <2>4. \E i \in 1..Len(P) : \E j \in 1..Len(N) : p = <<P[i], N[j]>>
    <3>1. N # <<>> /\ p \in InTurn(P, N)
      BY <1>1, <2>1, <2>2
    <3>2. QED
      BY <3>1, InTurnType
  <2>5. PICK i \in 1..Len(P) : \E j \in 1..Len(N) : p = <<P[i], N[j]>>
    BY <2>4
  <2>6. PICK j \in 1..Len(N) : p = <<P[i], N[j]>>
    BY <2>5
  <2>7. p[1] \in ToSet(P) /\ p[2] \in ToSet(N)
    <3>1. \A x \in 1..Len(P) : P[x] \in ToSet(P)
      BY <2>1, Elements
    <3>2. \A x \in 1..Len(N) : N[x] \in ToSet(N)
      BY <2>2, Elements
    <3>3. QED
      BY <2>5, <2>6, <3>1, <3>2
  <2>8. QED
    BY <1>1, <2>3, <2>7 DEF Pairs
<1>2. ASSUME p \in PairUp(ps, ns)
      PROVE  \E t \in ToSet(Tasks) : Pairs(p, t, ps, ns)
  <2>1. PICK t \in ToSet(Tasks) :
            /\ OfInstance(ns, t) # <<>>
            /\ p \in InTurn(OfInstance(ps, t), OfInstance(ns, t))
    BY <1>2, PairIs
  <2>2. QED
    BY <1>1, <2>1
<1>3. ASSUME NEW t \in ToSet(Tasks), Pairs(p, t, ps, ns)
      PROVE  p \in PairUp(ps, ns)
  BY <1>3 DEF Pairs, PairUp
<1>4. QED
  BY <1>2, <1>3

\* Negative n is in as many of the pairs as it has turns in its instance.
UsedInTurn(n, all, l, k) ==
    /\ k \in Nat \ {0} /\ l \in Nat
    /\ \E j \in 1..k :
          Cardinality({p \in all : p[2] = n}) = Cardinality(Turns(l, k, j))

\* The uses of a negative are its turns among the positives of its instance.
LEMMA UsesAre ==
    ASSUME NEW ps \in Seq(Attempts), Once(ps),
           NEW ns \in Seq(Attempts), Once(ns),
           inst \in [Attempts -> ToSet(Tasks)], NEW t \in ToSet(Tasks),
           NEW n \in ToSet(ns), inst[n] = t
    PROVE  UsedInTurn(n, PairUp(ps, ns), Len(OfInstance(ps, t)),
                      Len(OfInstance(ns, t)))
<1>1. PICK P \in Seq(Attempts) : P = OfInstance(ps, t)
  BY OfInstanceIs
<1>2. PICK N \in Seq(Attempts) : N = OfInstance(ns, t)
  BY OfInstanceIs
<1>3. Once(P) /\ Once(N)
  BY <1>1, <1>2, OfInstanceIs
<1>4. n \in ToSet(N)
  BY <1>2, OfInstanceIs
<1>5. N # <<>>
  BY <1>4, Elements
<1>6. Len(N) \in Nat \ {0} /\ Len(P) \in Nat
  BY <1>5, EmptySeq, LenProperties
<1>7. PICK j \in 1..Len(N) : N[j] = n
  BY <1>4, Elements
<1>8. PICK U : U = {p \in InTurn(P, N) : p[2] = N[j]}
  OBVIOUS
<1>9. PICK T : T = Turns(Len(P), Len(N), j)
  OBVIOUS
<1>10. ExistsBijection(T, U)
  BY <1>3, <1>5, <1>8, <1>9, InTurnCounts
<1>11. IsFiniteSet(T)
  <2>1. IsFiniteSet(1..Len(P))
    BY <1>6, FS_Interval
  <2>2. T \in SUBSET (1..Len(P))
    BY <1>9 DEF Turns
  <2>3. QED
    BY <2>1, <2>2, FS_Subset
<1>12. Cardinality(U) = Cardinality(T)
  BY <1>10, <1>11, FS_Bijection
<1>13. ASSUME NEW p, p \in PairUp(ps, ns), p[2] = n
       PROVE  p \in U
  <2>1. PICK u \in ToSet(Tasks) : Pairs(p, u, ps, ns)
    BY <1>13, PairOf
  <2>2. u = t
    BY <1>13, <2>1 DEF Pairs
  <2>3. QED
    BY <1>1, <1>2, <1>7, <1>8, <1>13, <2>1, <2>2 DEF Pairs
<1>14. ASSUME NEW p \in U
       PROVE  p \in PairUp(ps, ns) /\ p[2] = n
  <2>1. p \in InTurn(OfInstance(ps, t), OfInstance(ns, t)) /\ p[2] = n
    BY <1>1, <1>2, <1>7, <1>8
  <2>2. QED
    BY <2>1 DEF PairUp
<1>15. U = {p \in PairUp(ps, ns) : p[2] = n}
  BY <1>13, <1>14
<1>16. QED
  BY <1>1, <1>2, <1>6, <1>7, <1>9, <1>12, <1>15 DEF UsedInTurn

\* What PairsAreComplete says of the pairs.
Complete(ps, ns, all) ==
    LET Uses(n) == Cardinality({p \in all : p[2] = n})
        P == ToSet(ps)
        N == ToSet(ns)
    IN  /\ {p[1] : p \in all} = {a \in P : \E n \in N : inst[n] = inst[a]}
        /\ Cardinality(all) = Cardinality({p[1] : p \in all})
        /\ \A p \in all : p[2] \in N /\ inst[p[1]] = inst[p[2]]
        /\ \A m, n \in N :
               inst[m] = inst[n] => Uses(m) <= Uses(n) + 1

\* What is paired up is complete, if no record is in its cache twice.
LEMMA PairedUp ==
    ASSUME NEW ps \in Seq(Attempts), Once(ps),
           NEW ns \in Seq(Attempts), Once(ns),
           inst \in [Attempts -> ToSet(Tasks)]
    PROVE  Complete(ps, ns, PairUp(ps, ns))
<1>1. PICK all : all = PairUp(ps, ns)
  OBVIOUS
<1>2. \A p : p \in all <=> \E t \in ToSet(Tasks) : Pairs(p, t, ps, ns)
  BY <1>1, PairOf
<1>3. PICK P \in SUBSET Attempts : P = ToSet(ps)
  BY Elements
<1>4. PICK N \in SUBSET Attempts : N = ToSet(ns)
  BY Elements
<1>5. \A p \in all : /\ p[1] \in P /\ p[2] \in N
                     /\ inst[p[1]] = inst[p[2]]
  BY <1>2, <1>3, <1>4 DEF Pairs
<1>6. ASSUME NEW a \in P, NEW n \in N, inst[n] = inst[a]
      PROVE  \E p \in all : p[1] = a
  <2>1. PICK t \in ToSet(Tasks) : t = inst[a]
    OBVIOUS
  <2>2. PICK Q \in Seq(Attempts) : Q = OfInstance(ps, t) /\ Once(Q)
    BY OfInstanceIs
  <2>3. PICK M \in Seq(Attempts) : M = OfInstance(ns, t) /\ Once(M)
    BY OfInstanceIs
  <2>4. a \in ToSet(Q)
    BY <1>3, <2>1, <2>2, OfInstanceIs
  <2>5. n \in ToSet(M)
    BY <1>4, <1>6, <2>1, <2>3, OfInstanceIs
  <2>6. M # <<>>
    BY <2>5, Elements
  <2>7. PICK p \in InTurn(Q, M) : p[1] = a
    BY <2>2, <2>3, <2>4, <2>6, InTurnCounts
  <2>8. p \in all
    BY <1>1, <2>2, <2>3, <2>7 DEF PairUp
  <2>9. QED
    BY <2>7, <2>8
<1>7. PICK F : F = {p[1] : p \in all}
  OBVIOUS
<1>8. F = {a \in P : \E n \in N : inst[n] = inst[a]}
  <2>1. ASSUME NEW a \in F
        PROVE  a \in P /\ \E n \in N : inst[n] = inst[a]
    <3>1. PICK p \in all : p[1] = a
      BY <1>7
    <3>2. QED
      BY <1>5, <3>1
  <2>2. ASSUME NEW a \in P, NEW n \in N, inst[n] = inst[a]
        PROVE  a \in F
    <3>1. PICK p \in all : p[1] = a
      BY <1>6, <2>2
    <3>2. QED
      BY <1>7, <3>1
  <2>3. QED
    BY <2>1, <2>2
<1>9. ASSUME NEW p \in all, NEW q \in all, p[1] = q[1]
      PROVE  p = q
  <2>1. PICK t \in ToSet(Tasks) : Pairs(p, t, ps, ns)
    BY <1>2
  <2>2. PICK u \in ToSet(Tasks) : Pairs(q, u, ps, ns)
    BY <1>2
  <2>3. u = t
    BY <1>9, <2>1, <2>2 DEF Pairs
  <2>4. PICK Q \in Seq(Attempts) : Q = OfInstance(ps, t) /\ Once(Q)
    BY OfInstanceIs
  <2>5. PICK M \in Seq(Attempts) : M = OfInstance(ns, t) /\ Once(M)
    BY OfInstanceIs
  <2>6. M # <<>> /\ p \in InTurn(Q, M) /\ q \in InTurn(Q, M)
    BY <2>1, <2>2, <2>3, <2>4, <2>5 DEF Pairs
  <2>7. QED
    BY <1>9, <2>4, <2>5, <2>6, InTurnCounts
<1>10. Cardinality(all) = Cardinality(F)
  <2>1. IsFiniteSet(F)
    <3>1. IsFiniteSet(1..MaxAttempts)
      BY FS_Interval
    <3>2. F \in SUBSET (1..MaxAttempts)
      BY <1>5, <1>7
    <3>3. QED
      BY <3>1, <3>2, FS_Subset
  <2>2. PICK f : f = [a \in F |-> CHOOSE p \in all : p[1] = a]
    OBVIOUS
  <2>3. \A a \in F : f[a] \in all /\ f[a][1] = a
    BY <1>7, <2>2
  <2>4. ASSUME NEW p \in all
        PROVE  p[1] \in F /\ f[p[1]] = p
    <3>1. p[1] \in F
      BY <1>7
    <3>2. QED
      BY <1>9, <2>3, <3>1
  <2>5. f \in Bijection(F, all)
    <3>1. f \in [F -> all]
      BY <2>2, <2>3
    <3>2. \A a, b \in F : f[a] = f[b] => a = b
      BY <2>3
    <3>3. \A p \in all : \E a \in F : f[a] = p
      BY <2>4
    <3>4. QED
      BY <3>1, <3>2, <3>3 DEF Bijection, Injection, IsInjective, Surjection
  <2>6. QED
    BY <2>1, <2>5, FS_Bijection DEF ExistsBijection
<1>11. ASSUME NEW m \in N, NEW n \in N, inst[m] = inst[n]
       PROVE  Cardinality({p \in all : p[2] = m})
                  <= Cardinality({p \in all : p[2] = n}) + 1
  <2>1. PICK t \in ToSet(Tasks) : t = inst[m]
    OBVIOUS
  <2>2. PICK k : k = Len(OfInstance(ns, t))
    OBVIOUS
  <2>3. PICK l : l = Len(OfInstance(ps, t))
    OBVIOUS
  <2>4. m \in ToSet(ns) /\ n \in ToSet(ns) /\ inst[m] = t /\ inst[n] = t
    BY <1>4, <1>11, <2>1
  <2>5. UsedInTurn(m, all, l, k) /\ UsedInTurn(n, all, l, k)
    BY <1>1, <2>1, <2>2, <2>3, <2>4, UsesAre
  <2>6. PICK i \in 1..k, j \in 1..k :
            /\ k \in Nat \ {0} /\ l \in Nat
            /\ Cardinality({p \in all : p[2] = m}) =
                   Cardinality(Turns(l, k, i))
            /\ Cardinality({p \in all : p[2] = n}) =
                   Cardinality(Turns(l, k, j))
    BY <2>5 DEF UsedInTurn
  <2>7. Cardinality(Turns(l, k, i)) <= Cardinality(Turns(l, k, j)) + 1
    BY <2>6, EvenTurns
  <2>8. QED
    BY <2>6, <2>7
<1>12. QED
  BY <1>1, <1>3, <1>4, <1>5, <1>7, <1>8, <1>10, <1>11 DEF Complete

-------------------------------------------------------------------------------
(* The records of a cache *)

\* s holds records of trajectories that are over, each once.
Recorded(s, tasks) == Once(s) /\ \A a \in ToSet(s) : tasks[a] = "over"

\* Whatever is cached or on file comes from a trajectory of its own.
RInv ==
    /\ \A a \in Attempts : a > launched => task[a] = "none"
    /\ Recorded(pos, task)
    /\ Recorded(neg, task)
    /\ Recorded(Readable(posFile), task)
    /\ Recorded(Readable(negFile), task)

\* What is over stays over.
StaysOver == \A a \in Attempts : task[a] = "over" => task'[a] = "over"

\* Records stay records.
LEMMA RecordsStay ==
    ASSUME NEW s \in Seq(Attempts), Recorded(s, task), StaysOver
    PROVE  Recorded(s, task')
<1>1. ToSet(s) \subseteq Attempts
  BY Elements
<1>2. QED
  BY <1>1 DEF Recorded, StaysOver

\* A trajectory that was not over adds one.
LEMMA RecordsAppend ==
    ASSUME NEW s \in Seq(Attempts), Recorded(s, task), StaysOver,
           NEW a \in Attempts, task[a] # "over", task'[a] = "over"
    PROVE  Recorded(Append(s, a), task')
<1>1. Recorded(s, task')
  BY RecordsStay
<1>2. a \notin ToSet(s)
  BY DEF Recorded
<1>3. Once(Append(s, a)) /\ ToSet(Append(s, a)) = ToSet(s) \cup {a}
  BY <1>1, <1>2, AppendElements DEF Recorded
<1>4. QED
  BY <1>1, <1>3 DEF Recorded

\* The lines before the last record are records.
LEMMA RecordsBefore ==
    ASSUME NEW s \in Seq(Attempts), NEW a \in Attempts, NEW tasks,
           Recorded(Append(s, a), tasks)
    PROVE  Recorded(s, tasks)
<1>1. PICK t : t = Append(s, a)
  OBVIOUS
<1>2. /\ Len(t) = Len(s) + 1
      /\ \A i \in 1..Len(s) : t[i] = s[i]
  BY <1>1, AppendProperties
<1>3. ToSet(t) = ToSet(s) \cup {a}
  BY <1>1, AppendElements
<1>4. Once(s)
  <2>1. \A i \in 1..Len(s) : i \in 1..Len(t)
    BY <1>2, LenProperties
  <2>2. Once(t)
    BY <1>1 DEF Recorded
  <2>3. QED
    BY <1>2, <2>1, <2>2 DEF Once
<1>5. QED
  BY <1>1, <1>3, <1>4 DEF Recorded

\* The file still holds records after an append, complete or not.
LEMMA RecordsOnFile ==
    ASSUME NEW f \in Sidecars, Recorded(Readable(f), task), StaysOver,
           NEW a \in Attempts, task[a] # "over", task'[a] = "over"
    PROVE  /\ Recorded(Readable(f), task')
           /\ Recorded(Readable(Appended(f, a)), task')
           /\ \A g \in Interrupted(f, a) : Recorded(Readable(g), task')
<1>1. f.lines \in Seq(Attempts) /\ f.tail \in Attempts \cup {Clean, Torn}
  BY DEF Sidecars
<1>2. Clean \notin Attempts /\ Torn \notin Attempts /\ Clean # Torn
  BY Forms
<1>3. Recorded(f.lines, task)
  <2>1. CASE f.tail \in Attempts
    BY <1>1, <2>1, RecordsBefore DEF Readable
  <2>2. CASE f.tail \notin Attempts
    BY <2>2 DEF Readable
  <2>3. QED
    BY <2>1, <2>2
<1>4. /\ Recorded(f.lines, task')
      /\ Recorded(Append(f.lines, a), task')
  BY <1>1, <1>3, RecordsStay, RecordsAppend
<1>5. Recorded(Readable(f), task')
  BY RecordsStay, SidecarForms
<1>6. Recorded(Readable(Appended(f, a)), task')
  <2>1. Readable(Appended(f, a)) \in {f.lines, Append(f.lines, a)}
    BY <1>2 DEF Appended, Readable
  <2>2. QED
    BY <1>4, <2>1
<1>7. ASSUME NEW g \in Interrupted(f, a)
      PROVE  Recorded(Readable(g), task')
  <2>1. g = f \/ \E t \in {Torn, a} : g = [f EXCEPT !.tail = t]
    BY DEF Interrupted
  <2>2. ASSUME NEW t \in {Torn, a}, g = [f EXCEPT !.tail = t]
        PROVE  Readable(g) \in {f.lines, Append(f.lines, a)}
    <3>1. g.lines = f.lines /\ g.tail = t
      BY <2>2 DEF Sidecars
    <3>2. QED
      BY <1>2, <3>1 DEF Readable
  <2>3. QED
    BY <1>4, <1>5, <2>1, <2>2
<1>8. QED
  BY <1>5, <1>6, <1>7

\* Every step keeps the records.
LEMMA RInvStep ==
    ASSUME TypeOK, RInv, [Next]_vars
    PROVE  RInv'
<1>1. /\ posFile \in Sidecars /\ negFile \in Sidecars
      /\ pos \in Seq(Attempts) /\ neg \in Seq(Attempts)
      /\ Readable(posFile) \in Seq(Attempts)
      /\ Readable(negFile) \in Seq(Attempts)
      /\ task \in [Attempts -> {"none", "new", "run", "over"}]
      /\ launched \in 0..MaxAttempts
  BY SidecarForms DEF TypeOK
<1>2. ASSUME StaysOver,
             \A a \in Attempts : a > launched' => task'[a] = "none",
             pos' \in {pos, Readable(posFile), <<>>},
             neg' \in {neg, Readable(negFile), <<>>},
             UNCHANGED <<posFile, negFile>>
      PROVE  RInv'
  <2>1. /\ Recorded(pos, task') /\ Recorded(neg, task')
        /\ Recorded(Readable(posFile), task')
        /\ Recorded(Readable(negFile), task')
    BY <1>1, <1>2, RecordsStay DEF RInv
  <2>2. Recorded(<<>>, task')
    BY DEF Recorded, Once, ToSet
  <2>3. Recorded(pos', task') /\ Recorded(neg', task')
    BY <1>2, <2>1, <2>2
  <2>4. /\ Recorded(Readable(posFile'), task')
        /\ Recorded(Readable(negFile'), task')
    BY <1>2, <2>1
  <2>5. QED
    BY <1>2, <2>3, <2>4 DEF RInv
<1>3. ASSUME StopTasks
      PROVE  /\ StaysOver
             /\ \A a \in Attempts : task'[a] \in {task[a], "over"}
             /\ \A a \in Attempts : task[a] = "none" => task'[a] = "none"
             /\ \A a \in Attempts : task[a] = "run" => task'[a] = "over"
  BY <1>1, <1>3 DEF StopTasks, StaysOver, Active
<1>4. CASE Resume
  <2>1. UNCHANGED <<task, launched, posFile, negFile>>
    BY <1>4 DEF Resume
  <2>2. /\ pos' \in {pos, Readable(posFile), <<>>}
        /\ neg' \in {neg, Readable(negFile), <<>>}
    BY <1>4 DEF Resume
  <2>3. QED
    BY <1>2, <2>1, <2>2 DEF StaysOver, RInv
<1>5. CASE GatherDone \/ Interrupt
  <2>1. StopTasks /\ UNCHANGED <<launched, pos, neg, posFile, negFile>>
    BY <1>5 DEF GatherDone, Interrupt, FinalSave, cacheVars
  <2>2. QED
    BY <1>2, <1>3, <2>1 DEF RInv
<1>6. CASE Kill
  <2>1. StopTasks /\ UNCHANGED <<launched, pos, neg, posFile, negFile>>
    BY <1>6 DEF Kill, cacheVars, fileVars
  <2>2. QED
    BY <1>2, <1>3, <2>1 DEF RInv
<1>7. CASE Launch
  <2>1. /\ task' = [task EXCEPT ![launched + 1] = "new"]
        /\ launched' = launched + 1 /\ launched + 1 \in Attempts
        /\ UNCHANGED <<pos, neg, posFile, negFile>>
    BY <1>1, <1>7 DEF Launch, cacheVars, fileVars
  <2>2. task[launched + 1] = "none"
    BY <1>1, <2>1 DEF RInv
  <2>3. StaysOver
    BY <1>1, <2>1, <2>2 DEF StaysOver
  <2>4. \A a \in Attempts : a > launched' => task'[a] = "none"
    BY <1>1, <2>1 DEF RInv
  <2>5. QED
    BY <1>2, <2>1, <2>3, <2>4
<1>8. CASE LeaveLoop
  BY <1>2, <1>8 DEF LeaveLoop, loopVars, cacheVars, fileVars, StaysOver, RInv
<1>9. ASSUME NEW a \in Attempts,
             Start(a) \/ Finish(a) \/ KillInAppend(a)
      PROVE  RInv'
  <2>1. task[a] \in {"new", "run"} /\ launched' = launched
    BY <1>9 DEF Start, Finish, KillInAppend, Dropped, Passed, PassedUnsaved,
                PassedDpo, FailedDpo, AppendRaises, Ends
  <2>2. ~(a > launched)
    BY <2>1 DEF RInv
  <2>3. CASE Start(a)
    <3>1. /\ task' = [task EXCEPT ![a] = IF done THEN "over" ELSE "run"]
          /\ UNCHANGED <<launched, pos, neg, posFile, negFile>>
      BY <2>3 DEF Start, cacheVars, fileVars
    <3>2. StaysOver
      BY <1>1, <2>1, <3>1 DEF StaysOver
    <3>3. \A b \in Attempts : b > launched' => task'[b] = "none"
      BY <1>1, <2>2, <3>1 DEF RInv
    <3>4. QED
      BY <1>2, <3>1, <3>2, <3>3
  <2>4. ASSUME StaysOver, task[a] = "run", task'[a] = "over",
               \A b \in Attempts : b > launched' => task'[b] = "none",
               pos' \in {pos, Append(pos, a)},
               neg' \in {neg, Append(neg, a)},
               posFile' \in {posFile, Appended(posFile, a)}
                            \cup Interrupted(posFile, a),
               negFile' \in {negFile, Appended(negFile, a)}
                            \cup Interrupted(negFile, a)
        PROVE  RInv'
    <3>1. task[a] # "over"
      BY <2>4
    <3>2. /\ Recorded(pos, task') /\ Recorded(Append(pos, a), task')
          /\ Recorded(neg, task') /\ Recorded(Append(neg, a), task')
      BY <1>1, <2>4, <3>1, RecordsStay, RecordsAppend DEF RInv
    <3>3. Recorded(pos', task') /\ Recorded(neg', task')
      BY <2>4, <3>2
    <3>4. Recorded(Readable(posFile'), task')
      BY <1>1, <2>4, <3>1, RecordsOnFile DEF RInv
    <3>5. Recorded(Readable(negFile'), task')
      BY <1>1, <2>4, <3>1, RecordsOnFile DEF RInv
    <3>6. QED
      BY <2>4, <3>3, <3>4, <3>5 DEF RInv
  <2>5. CASE KillInAppend(a)
    <3>1. /\ StopTasks /\ task[a] = "run"
          /\ UNCHANGED <<launched, pos, neg>>
          /\ posFile' \in {posFile} \cup Interrupted(posFile, a)
          /\ negFile' \in {negFile} \cup Interrupted(negFile, a)
      BY <2>5 DEF KillInAppend, cacheVars
    <3>2. QED
      BY <1>3, <2>4, <3>1 DEF RInv
  <2>6. CASE Finish(a)
    <3>1. Ends(a)
      BY <2>6 DEF Finish, Dropped, Passed, PassedUnsaved, PassedDpo, FailedDpo,
                  AppendRaises
    <3>2. /\ task[a] = "run" /\ task' = [task EXCEPT ![a] = "over"]
          /\ launched' = launched
      BY <3>1 DEF Ends
    <3>3. /\ StaysOver /\ task'[a] = "over"
          /\ \A b \in Attempts : b > launched' => task'[b] = "none"
      BY <1>1, <2>2, <3>2 DEF StaysOver, RInv
    <3>4. /\ pos' \in {pos, Append(pos, a)}
          /\ neg' \in {neg, Append(neg, a)}
          /\ posFile' \in {posFile, Appended(posFile, a)}
                          \cup Interrupted(posFile, a)
          /\ negFile' \in {negFile, Appended(negFile, a)}
                          \cup Interrupted(negFile, a)
      BY <2>6 DEF Finish, Dropped, Passed, PassedUnsaved, PassedDpo, FailedDpo,
                  AppendRaises, cacheVars, fileVars
    <3>5. QED
      BY <2>4, <3>2, <3>3, <3>4
  <2>7. QED
    BY <1>9, <2>3, <2>5, <2>6
<1>10. CASE UNCHANGED vars
  BY <1>10 DEF vars, loopVars, cacheVars, fileVars, RInv
<1>11. QED
  BY <1>4, <1>5, <1>6, <1>7, <1>8, <1>9, <1>10 DEF Next

-------------------------------------------------------------------------------
(* The pairs *)

\* The pairs on disk after a run that ended well.
Paired ==
    mode = "dpo" /\ up = "down" /\ exit = "ok" /\ PairUp(pos, neg) # {}
        => pairs = PairUp(pos, neg)

\* Every step keeps them.
LEMMA PairedStep ==
    ASSUME TypeOK, Paired, [Next]_vars
    PROVE  Paired'
<1>1. ASSUME UNCHANGED inst
      PROVE  PairUp(pos, neg)' = PairUp(pos', neg')
  BY <1>1 DEF PairUp, OfInstance, InTurn
<1>2. CASE Resume
  <2>1. UNCHANGED <<mode, inst>>
    BY <1>2 DEF Resume
  <2>2. mode = "dpo" /\ up' = "down" /\ exit' = "ok"
          /\ PairUp(pos', neg') # {} => pairs' = PairUp(pos', neg')
    BY <1>2 DEF Resume
  <2>3. QED
    BY <1>1, <2>1, <2>2 DEF Paired
<1>3. CASE GatherDone \/ Interrupt
  <2>1. FinalSave
    BY <1>3 DEF GatherDone, Interrupt
  <2>2. UNCHANGED <<mode, inst, pos, neg>>
    BY <2>1 DEF FinalSave, cacheVars
  <2>3. mode = "dpo" /\ exit' = "ok" /\ PairUp(pos, neg) # {}
            => pairs' = PairUp(pos, neg)
    BY <2>1 DEF FinalSave
  <2>4. QED
    BY <1>1, <2>2, <2>3 DEF Paired
<1>4. CASE Kill
  BY <1>4 DEF Kill, Paired
<1>5. CASE Launch \/ LeaveLoop
  BY <1>5 DEF Launch, LeaveLoop, Paired
<1>6. ASSUME NEW a \in Attempts,
             Start(a) \/ Finish(a) \/ KillInAppend(a)
      PROVE  Paired'
  <2>1. up' # "down" \/ exit' = "killed"
    BY <1>6 DEF Start, Finish, KillInAppend, Dropped, Passed, PassedUnsaved,
                PassedDpo, FailedDpo, AppendRaises, Ends
  <2>2. QED
    BY <2>1 DEF Paired
<1>7. CASE UNCHANGED vars
  BY <1>1, <1>7 DEF vars, loopVars, cacheVars, fileVars, Paired
<1>8. QED
  BY <1>2, <1>3, <1>4, <1>5, <1>6, <1>7 DEF Next

\* After a dpo run that ended well the output has one pair for each positive
\* with a negative, and uses the negatives evenly (lines 196 to 222).
THEOREM PairsHold == Spec => []PairsAreComplete
<1>1. Init => RInv /\ Paired
  <2>1. SUFFICES ASSUME Init PROVE RInv /\ Paired
    OBVIOUS
  <2>2. /\ pos = <<>> /\ neg = <<>>
        /\ posFile = EmptyFile /\ negFile = EmptyFile
        /\ \A a \in Attempts : task[a] = "none"
        /\ exit = "none"
    BY <2>1 DEF Init
  <2>3. Clean \notin Attempts
    BY DEF Clean
  <2>4. Readable(EmptyFile) = <<>>
    BY <2>3 DEF Readable, EmptyFile
  <2>5. Recorded(<<>>, task)
    BY DEF Recorded, Once, ToSet
  <2>6. QED
    BY <2>2, <2>4, <2>5 DEF RInv, Paired
<1>2. TypeOK /\ RInv /\ Paired /\ [Next]_vars => RInv' /\ Paired'
  BY RInvStep, PairedStep
<1>3. ASSUME TypeOK, RInv, Paired
      PROVE  PairsAreComplete
  <2>1. /\ pos \in Seq(Attempts) /\ neg \in Seq(Attempts)
        /\ inst \in [Attempts -> ToSet(Tasks)]
        /\ Once(pos) /\ Once(neg)
    BY <1>3 DEF TypeOK, RInv, Recorded
  <2>2. Complete(pos, neg, PairUp(pos, neg))
    BY <2>1, PairedUp
  <2>3. ASSUME mode = "dpo", up = "down", exit = "ok", PairUp(pos, neg) # {}
        PROVE  Complete(pos, neg, pairs)
    BY <1>3, <2>2, <2>3 DEF Paired
  <2>4. QED
    BY <2>3 DEF PairsAreComplete, Complete
<1>4. QED
  BY <1>1, <1>2, <1>3, TypesHold, PTL DEF Spec
===============================================================================
