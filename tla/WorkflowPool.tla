----------------------------- MODULE WorkflowPool -----------------------------
(***************************************************************************)
(* engine/agent_workflow_engine.py with workflows/workflow.py and          *)
(* workflows/multi_turn_workflow.py: one batch of execute_tasks_verl.      *)
(*                                                                         *)
(* A rollout takes a workflow out of the queue, runs it with retries and   *)
(* puts it back.  A workflow keeps its agent, its env and its uid between  *)
(* rollouts; its reset and its env.step are jobs of a thread pool.  When   *)
(* asyncio.wait_for ends a run, a job that waits for a thread is           *)
(* cancelled, but one that has a thread goes on (abandoned), on a workflow *)
(* that the next rollout may already hold.                                 *)
(***************************************************************************)
EXTENDS Naturals, Sequences, FiniteSets, SequencesExt, Lists

CONSTANTS TaskIds,     \* task_ids: the task of each row of the batch; tasks are
                       \* numbered as they come, each repeated in place
          NParallel,   \* n_parallel_tasks: workflows, and threads
          RetryLimit,  \* retry_limit
          MaxSteps,    \* max_steps of the workflow
          Flaky        \* bound: the rollouts whose model or env may raise

ASSUME PoolAssumption ==
    /\ TaskIds \in Seq(Nat)
    /\ \A i, j \in DOMAIN TaskIds : i <= j => TaskIds[i] <= TaskIds[j]
    /\ NParallel \in Nat \ {0}
    /\ RetryLimit \in Nat \ {0}
    /\ MaxSteps \in Nat \ {0}
    /\ Flaky \subseteq DOMAIN TaskIds

Rollouts  == DOMAIN TaskIds
Workflows == 1..NParallel
Unset     == 0              \* a workflow that has no attribute uid yet

VARIABLES pool,     \* workflow_queue
          pc,       \* where process_task_with_retry of each rollout is
          wf,       \* the workflow it holds, or held
          attempt,  \* retry_attempt
          turn,     \* turns of this attempt
          job,      \* the executor's job of the rollout
          threads,  \* queue of the executor
          uid,      \* self.uid of each workflow
          steps,    \* whose answers agent.trajectory consists of
          acted,    \* whose actions env has taken since its reset
          episode,  \* the episode a rollout returned
          settled,  \* the rollouts that ended, in that order
          view      \* history: what became of the workflow under the rollout

coVars   == <<pool, pc, wf, attempt, turn, episode, settled>>
jobVars  == <<job, threads>>
memory   == <<uid, steps, acted>>
vars == <<coVars, jobVars, memory, view>>

InRun(r) == pc[r] \in {"reset", "llm", "env"}
HasThread(r) == job[r] \in {"reset", "reset2", "step"}

\* The job goes on although its rollout no longer waits for it.
Abandoned(r) == HasThread(r) /\ ~InRun(r)

NoEpisode == [uid |-> Unset, steps |-> <<>>, acted |-> {}, reason |-> "none"]

-------------------------------------------------------------------------------
Init ==
    /\ pool = [w \in Workflows |-> w]
    /\ pc = [r \in Rollouts |-> "queue"]
    /\ wf = [r \in Rollouts |-> Unset]
    /\ attempt = [r \in Rollouts |-> 0]
    /\ turn = [r \in Rollouts |-> 0]
    /\ job = [r \in Rollouts |-> "none"]
    /\ threads = <<>>
    /\ uid = [w \in Workflows |-> Unset]
    /\ steps = [w \in Workflows |-> <<>>]
    /\ acted = [w \in Workflows |-> {}]
    /\ episode = [r \in Rollouts |-> NoEpisode]
    /\ settled = <<>>
    /\ view = [r \in Rollouts |-> "old"]

-------------------------------------------------------------------------------
(* The thread pool *)

\* run_in_executor
Submit(r, kind) ==
    /\ job' = [job EXCEPT ![r] = kind]
    /\ threads' = Append(threads, r)

\* A thread takes the oldest job, and drops one that was cancelled.
JobStarts ==
    /\ threads # <<>>
    /\ Cardinality({r \in Rollouts : HasThread(r)}) < NParallel
    /\ LET r == Head(threads)
       IN  job' = [job EXCEPT ![r] = CASE @ = "wantReset" -> "reset"
                                       [] @ = "wantStep"  -> "step"
                                       [] OTHER           -> @]
    /\ threads' = Tail(threads)
    /\ UNCHANGED <<coVars, memory, view>>

\* What an abandoned job does to the workflow disturbs the rollout that holds
\* it.
Disturbs(r) ==
    view' = [q \in Rollouts |->
                IF Abandoned(r) /\ InRun(q) /\ wf[q] = wf[r]
                THEN "disturbed" ELSE view[q]]

\* Mutant: the agent keeps its trajectory.
ResetWrites_KeepsAgent(r) ==
    /\ job[r] = "reset"
    /\ job' = [job EXCEPT ![r] = "reset2"]
    /\ uid' = [uid EXCEPT ![wf[r]] = r]
    /\ view' = [view EXCEPT ![r] = "own"]
    /\ UNCHANGED <<coVars, threads, steps, acted>>

\* Workflow.reset: uid, then the agents.
ResetWrites(r) ==
    /\ job[r] = "reset"
    /\ job' = [job EXCEPT ![r] = "reset2"]
    /\ uid' = [uid EXCEPT ![wf[r]] = r]
    /\ steps' = [steps EXCEPT ![wf[r]] = <<>>]
    /\ IF Abandoned(r) THEN Disturbs(r)
                       ELSE view' = [view EXCEPT ![r] = "own"]
    /\ UNCHANGED <<coVars, threads, acted>>

\* The result of a job, if somebody waits for it.
JobOver(r, result) ==
    job' = [job EXCEPT ![r] = IF Abandoned(r) THEN "none" ELSE result]

\* The env is reset; an env that raises keeps its state.
ResetEnds(r) ==
    /\ job[r] = "reset2"
    /\ \/ /\ JobOver(r, "ok")
          /\ acted' = [acted EXCEPT ![wf[r]] = {}]
       \/ /\ r \in Flaky
          /\ JobOver(r, "failed")
          /\ UNCHANGED acted
    /\ Disturbs(r)
    /\ UNCHANGED <<coVars, threads, uid, steps>>

\* env.step, well or by an exception.
StepEnds(r) ==
    /\ job[r] = "step"
    /\ acted' = [acted EXCEPT ![wf[r]] = @ \cup {r}]
    /\ \/ JobOver(r, "ok")
       \/ r \in Flaky /\ JobOver(r, "failed")
    /\ Disturbs(r)
    /\ UNCHANGED <<coVars, threads, uid, steps>>

-------------------------------------------------------------------------------
(* process_task_with_retry *)

\* workflow_queue.get, and the first attempt starts with the reset job.
Take(r) ==
    /\ pc[r] = "queue"
    /\ pool # <<>>
    /\ wf' = [wf EXCEPT ![r] = Head(pool)]
    /\ pool' = Tail(pool)
    /\ attempt' = [attempt EXCEPT ![r] = 1]
    /\ pc' = [pc EXCEPT ![r] = "reset"]
    /\ Submit(r, "wantReset")
    /\ UNCHANGED <<turn, episode, settled, memory, view>>

\* Mutant: the workflow goes back only with an episode.
Settle_NoFinally(r, how) ==
    /\ pc' = [pc EXCEPT ![r] = how]
    /\ settled' = Append(settled, r)
    /\ attempt' = [attempt EXCEPT ![r] = 0]
    /\ pool' = IF how = "done" THEN Append(pool, wf[r]) ELSE pool

\* The rollout ends, and the finally clause puts the workflow back.
Settle(r, how) ==
    /\ pc' = [pc EXCEPT ![r] = how]
    /\ settled' = Append(settled, r)
    /\ attempt' = [attempt EXCEPT ![r] = 0]
    /\ pool' = Append(pool, wf[r])

\* postprocess_episode(collect_trajectories(), reason): what the workflow
\* holds at this moment, under the uid it holds.
Return(r, reason) ==
    /\ Settle(r, "done")
    /\ episode' = [episode EXCEPT ![r] =
                      [uid |-> uid[wf[r]], steps |-> steps[wf[r]],
                       acted |-> acted[wf[r]], reason |-> reason]]

\* The observation of the reset reaches the agent; the model is asked.
ResetDone(r) ==
    /\ pc[r] = "reset"
    /\ job[r] = "ok"
    /\ job' = [job EXCEPT ![r] = "none"]
    /\ pc' = [pc EXCEPT ![r] = "llm"]
    /\ turn' = [turn EXCEPT ![r] = 0]
    /\ UNCHANGED <<pool, wf, attempt, episode, settled, threads, memory, view>>

\* update_from_model, and env.step as a job.
ModelAnswers(r) ==
    /\ pc[r] = "llm"
    /\ steps' = [steps EXCEPT ![wf[r]] = Append(@, r)]
    /\ turn' = [turn EXCEPT ![r] = @ + 1]
    /\ pc' = [pc EXCEPT ![r] = "env"]
    /\ Submit(r, "wantStep")
    /\ UNCHANGED <<pool, wf, attempt, episode, settled, uid, acted, view>>

\* The chat has outgrown the prompt, and the engine raises a TerminationEvent
\* instead of asking the model: an episode of the turns so far, or of none.
PromptTooLong(r) ==
    /\ pc[r] = "llm"
    /\ Return(r, "MAX_PROMPT_LENGTH_EXCEEDED")
    /\ UNCHANGED <<wf, turn, jobVars, memory, view>>

\* The env answers: the next turn, the last turn, or a TerminationEvent (done
\* or a response cut off at its length, which end alike).
StepDone(r) ==
    /\ pc[r] = "env"
    /\ job[r] = "ok"
    /\ job' = [job EXCEPT ![r] = "none"]
    /\ \/ /\ turn[r] < MaxSteps
          /\ pc' = [pc EXCEPT ![r] = "llm"]
          /\ UNCHANGED <<pool, attempt, episode, settled>>
       \/ /\ turn[r] = MaxSteps
          /\ Return(r, "MAX_TURNS_EXCEEDED")
       \/ Return(r, "ENV_DONE")
    /\ UNCHANGED <<wf, turn, threads, memory, view>>

\* Mutant: one attempt too many.
Fail_OnceMore(r) ==
    IF attempt[r] <= RetryLimit
    THEN /\ attempt' = [attempt EXCEPT ![r] = @ + 1]
         /\ pc' = [pc EXCEPT ![r] = "reset"]
         /\ Submit(r, "wantReset")
         /\ UNCHANGED <<pool, settled, episode>>
    ELSE /\ Settle(r, "raised")
         /\ job' = [job EXCEPT ![r] = "none"]
         /\ UNCHANGED <<threads, episode>>

\* An episode with reason ERROR: the next attempt on the same workflow, or,
\* after the last, an exception or, without raise_on_error (read here alone),
\* that episode.
Fail(r) ==
    IF attempt[r] < RetryLimit
    THEN /\ attempt' = [attempt EXCEPT ![r] = @ + 1]
         /\ pc' = [pc EXCEPT ![r] = "reset"]
         /\ Submit(r, "wantReset")
         /\ UNCHANGED <<pool, settled, episode>>
    ELSE /\ job' = [job EXCEPT ![r] = "none"]
         /\ \/ Settle(r, "raised") /\ UNCHANGED episode
            \/ Return(r, "ERROR")
         /\ UNCHANGED threads

\* The model, env.reset or env.step raises.
RunFails(r) ==
    /\ \/ pc[r] = "llm" /\ r \in Flaky
       \/ pc[r] \in {"reset", "env"} /\ job[r] = "failed"
    /\ Fail(r)
    /\ UNCHANGED <<wf, turn, memory, view>>

\* Mutant: the timeout is looked at only between two calls.
Timeout_Between(r) ==
    /\ InRun(r)
    /\ ~HasThread(r)
    /\ job' = [job EXCEPT ![r] = "none"]
    /\ \/ /\ uid[wf[r]] # Unset
          /\ Return(r, "TIMEOUT")
       \/ /\ uid[wf[r]] = Unset
          /\ Settle(r, "raised")
          /\ UNCHANGED episode
    /\ UNCHANGED <<wf, turn, threads, memory, view>>

\* asyncio.wait_for gives up.  The episode is made of what the workflow holds;
\* without a uid postprocess_episode raises, and nobody retries.
Timeout(r) ==
    /\ InRun(r)
    /\ job' = [job EXCEPT ![r] = IF HasThread(r) THEN @ ELSE "none"]
    /\ \/ /\ uid[wf[r]] # Unset
          /\ Return(r, "TIMEOUT")
       \/ /\ uid[wf[r]] = Unset
          /\ Settle(r, "raised")
          /\ UNCHANGED episode
    /\ UNCHANGED <<wf, turn, threads, memory, view>>

Job(r) == ResetWrites(r) \/ ResetEnds(r) \/ StepEnds(r)

Rollout(r) == \/ Take(r)
              \/ ResetDone(r)
              \/ ModelAnswers(r)
              \/ PromptTooLong(r)
              \/ StepDone(r)
              \/ RunFails(r)
              \/ Timeout(r)

Next == JobStarts \/ \E r \in Rollouts : Job(r) \/ Rollout(r)

Spec == Init /\ [][Next]_vars

\* The event loop hands out the workflows, and every run has its timeout.
\* Neither the model nor the env need ever answer.
Fairness == \A r \in Rollouts : WF_vars(Take(r)) /\ WF_vars(Timeout(r))

FairSpec == Spec /\ Fairness

-------------------------------------------------------------------------------
(* What execute_tasks and transform_results_for_verl make of the episodes *)

\* Mutant: in the order in which the rollouts ended.
Results_AsCompleted == settled

\* The rollouts grouped by task, the tasks in the order in which the batch
\* names them first, each group in the order of completion.
Results ==
    LET New == {i \in Rollouts : \A k \in 1..(i - 1) : TaskIds[k] # TaskIds[i]}
        Starts == Select([i \in Rollouts |-> i], New)
        Of(i) == Select(settled, {r \in Rollouts : TaskIds[r] = TaskIds[i]})
    IN  FlattenSeq([k \in DOMAIN Starts |-> Of(Starts[k])])

\* One row per step of an episode, whoever the producer of the step is; an
\* episode without steps has none.  The trajectory is named after the task at
\* the position of the episode.
Rows ==
    LET order == Results
        Of(i) == [k \in DOMAIN episode[order[i]].steps |->
                     [task |-> TaskIds[i], rollout |-> order[i],
                      producer |-> episode[order[i]].steps[k]]]
    IN  FlattenSeq([i \in DOMAIN order |-> Of(i)])

BatchDone == \A r \in Rollouts : pc[r] = "done"

-------------------------------------------------------------------------------
(* Properties *)

TypeOK ==
    /\ pool \in Seq(Workflows)
    /\ pc \in [Rollouts -> {"queue", "reset", "llm", "env", "done", "raised"}]
    /\ wf \in [Rollouts -> Workflows \cup {Unset}]
    /\ attempt \in [Rollouts -> 0..RetryLimit]
    /\ turn \in [Rollouts -> 0..MaxSteps]
    /\ job \in [Rollouts -> {"none", "wantReset", "wantStep", "reset",
                             "reset2", "step", "ok", "failed"}]
    /\ threads \in Seq(Rollouts)
    /\ uid \in [Workflows -> Rollouts \cup {Unset}]
    /\ steps \in [Workflows -> Seq(Rollouts)]
    /\ acted \in [Workflows -> SUBSET Rollouts]
    /\ episode \in [Rollouts -> [uid : Rollouts \cup {Unset},
                                 steps : Seq(Rollouts),
                                 acted : SUBSET Rollouts,
                                 reason : {"none", "ENV_DONE", "TIMEOUT",
                                           "ERROR", "MAX_TURNS_EXCEEDED",
                                           "MAX_PROMPT_LENGTH_EXCEEDED"}]]
    /\ settled \in Seq(Rollouts)
    /\ view \in [Rollouts -> {"old", "own", "disturbed"}]

\* Whatever raises or times out, every workflow is in the queue once or held
\* by one rollout (agent_workflow_engine.py:99, 131).
PoolConserved ==
    \A w \in Workflows :
        Cardinality({i \in DOMAIN pool : pool[i] = w})
            + Cardinality({r \in Rollouts : InRun(r) /\ wf[r] = w}) = 1

\* A rollout whose own reset was the last to touch its workflow returns its
\* own uid and steps and nobody else's and, unless it was cut off by a timeout
\* or an error, all of its turns and no other action on the env.  One that
\* never saw its reset has timed out, and returns the uid (and so the episode)
\* of an earlier rollout: never its own, and never as an answered episode
\* (workflow.py:78, 190, 224).
EpisodeIsOwn ==
    \A r \in Rollouts : pc[r] = "done" =>
        LET e == episode[r]
        IN  /\ view[r] = "own" =>
                  /\ e.uid = r
                  /\ \A i \in DOMAIN e.steps : e.steps[i] = r
                  /\ e.reason \notin {"TIMEOUT", "ERROR"} =>
                        /\ Len(e.steps) = turn[r]
                        /\ e.acted = IF turn[r] = 0 THEN {} ELSE {r}
            /\ view[r] = "old" => e.reason = "TIMEOUT" /\ e.uid # r

\* Every row of the training batch stands under the prompt of the task of its
\* episode's rollout, in whatever order the rollouts ended; and the rollout
\* whose answer the row holds is one of that task too, unless the workflow
\* was not its rollout's own: a timeout before the reset, or a job that was
\* left running on it (agent_workflow_engine.py:168, 275).
RowsMatchPrompts ==
    BatchDone => \A row \in ToSet(Rows) :
        /\ row.task = TaskIds[row.rollout]
        /\ view[row.rollout] = "own" => row.task = TaskIds[row.producer]

\* "episode_ids: unique identifier for each rollout"
\* (agent_workflow_engine.py:444): no two episodes that have rows share an id.
\* A rollout that times out before its reset delivers the episode of the one
\* before it, and is not dropped as the comment at 266-268 has it.
EpisodeIdsAreUnique ==
    BatchDone => \A r, q \in Rollouts :
        /\ r # q
        /\ episode[r].steps # <<>>
        /\ episode[q].steps # <<>>
        => episode[r].uid # episode[q].uid

\* Every rollout ends, in an episode or an exception, even if the model and
\* the env never answer and threads are lost to abandoned jobs
\* (workflow.py:77, agent_workflow_engine.py:131).
RolloutsSettle == \A r \in Rollouts : <>(pc[r] \in {"done", "raised"})
===============================================================================
