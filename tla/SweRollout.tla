------------------------------ MODULE SweRollout ------------------------------
(***************************************************************************)
(* A batch of trajectories of AgentExecutionEngine.trajectory_generator,   *)
(* each with a SWEEnv of its own and up to retry_limit attempts            *)
(* (rllm/engine/agent_execution_engine.py, rllm/environments/swe/swe.py).  *)
(*                                                                         *)
(* A trajectory is a coroutine of the event loop.  It never calls the      *)
(* environment itself: reset, step, compute_final_reward and close are     *)
(* jobs of a ThreadPoolExecutor, and a job goes on in its thread when the  *)
(* coroutine that awaited it has timed out.  What a job and the coroutines *)
(* share is env.session, env._closed and the sandbox behind the session.   *)
(*                                                                         *)
(* A job is named by its trajectory, its attempt and its operation; a      *)
(* session by the trajectory and the attempt whose reset made it.  The     *)
(* gateway is external: a call to it succeeds or fails as the code in src  *)
(* allows for.                                                             *)
(***************************************************************************)
EXTENDS Naturals, Sequences, FiniteSets

CONSTANTS Trajs,          \* trajectories of the batch
          RetryLimit,     \* retry_limit
          StepTimeouts,   \* whether trajectory_timeout can expire in env.step
          Settings        \* settings of the engine the batch may run under:
                          \*   filter    overlong_filter
                          \*   slots     n_parallel_agents: semaphore, threads
                          \*   maxSteps  max_steps
                          \*   cancels   the 7200 s of an attempt can expire

ASSUME RolloutAssumption ==
    /\ IsFiniteSet(Trajs)
    /\ RetryLimit \in Nat \ {0}
    /\ StepTimeouts \in BOOLEAN
    /\ Settings \subseteq [filter : BOOLEAN, slots : Nat \ {0},
                          maxSteps : Nat \ {0}, cancels : BOOLEAN]

Attempts == 1..RetryLimit
Ops      == {"reset", "step", "reward", "close", "cleanup"}
Jobs     == Trajs \X Attempts \X Ops
None     == 0    \* no session

VARIABLES setting,  \* the engine's settings: one of Settings, for good
          cpc,      \* where the coroutine of each trajectory is
          attempt,  \* its attempt
          steps,    \* environment steps it took in this attempt
          jpc,      \* where each job is
          hold,     \* the session a running job works on
          waiting,  \* jobs submitted to the executor and not started, in order
          session,  \* env.session: the attempt that made it, or None
          closed,   \* env._closed
          sandbox   \* what is behind the session of each attempt

coVars  == <<cpc, attempt, steps>>
envVars == <<session, closed, sandbox>>
vars    == <<setting, coVars, jpc, hold, waiting, envVars>>

Over(t)    == cpc[t] \in {"done", "failed"}
Active(t)  == cpc[t] # "idle" /\ ~Over(t)
Running(j) == jpc[j] \notin {"idle", "queued", "ok", "finish", "error"}
Mine(t)    == <<t, attempt[t], cpc[t]>>    \* the job a coroutine awaits

-------------------------------------------------------------------------------
Init ==
    /\ setting \in Settings
    /\ cpc = [t \in Trajs |-> "idle"]
    /\ attempt = [t \in Trajs |-> 0]
    /\ steps = [t \in Trajs |-> 0]
    /\ jpc = [j \in Jobs |-> "idle"]
    /\ hold = [j \in Jobs |-> None]
    /\ waiting = <<>>
    /\ session = [t \in Trajs |-> None]
    /\ closed = [t \in Trajs |-> FALSE]
    /\ sandbox = [t \in Trajs |-> [a \in Attempts |-> "none"]]

-------------------------------------------------------------------------------
(* The coroutine: run_agent_trajectory_with_retry around                   *)
(* run_agent_trajectory_async                                              *)

\* Cancelling the awaited future withdraws a job that has not started, which a
\* thread will find in the queue and drop, and leaves a running one to itself.
Leave(pc) == IF pc \in {"idle", "queued", "ok", "finish", "error"}
             THEN "idle"
             ELSE pc

\* loop.run_in_executor(self.executor, op): the coroutine is done with the job
\* it awaited, if any, and awaits the new one.
Submit(t, a, op) ==
    LET new == <<t, a, op>> IN
    /\ cpc' = [cpc EXCEPT ![t] = op]
    /\ jpc' = [j \in Jobs |-> IF j = new THEN "queued"
                             ELSE IF j = Mine(t) THEN Leave(jpc[j])
                             ELSE jpc[j]]
    /\ waiting' = Append(waiting, new)

\* It goes on without submitting another.
Consume(t, pc) ==
    /\ cpc' = [cpc EXCEPT ![t] = pc]
    /\ jpc' = [j \in Jobs |-> IF j = Mine(t) THEN "idle" ELSE jpc[j]]

\* The semaphore lets the trajectory in; its first attempt resets the env.
Launch(t) ==
    /\ cpc[t] = "idle"
    /\ Cardinality({u \in Trajs : Active(u)}) < setting.slots
    /\ attempt' = [attempt EXCEPT ![t] = 1]
    /\ Submit(t, 1, "reset")
    /\ UNCHANGED <<setting, steps, hold, envVars>>

ResetDone(t) ==
    /\ cpc[t] = "reset"
    /\ jpc[Mine(t)] = "ok"
    /\ Consume(t, "llm")
    /\ steps' = [steps EXCEPT ![t] = 0]
    /\ UNCHANGED <<setting, attempt, hold, waiting, envVars>>

\* The model answered; the action goes to env.step.
ModelAnswers(t) ==
    /\ cpc[t] = "llm"
    /\ Submit(t, attempt[t], "step")
    /\ steps' = [steps EXCEPT ![t] = @ + 1]
    /\ UNCHANGED <<setting, attempt, hold, envVars>>

\* A step ended and the episode goes on.
StepDone(t) ==
    /\ cpc[t] = "step"
    /\ jpc[Mine(t)] = "ok"
    /\ steps[t] < setting.maxSteps
    /\ Consume(t, "llm")
    /\ UNCHANGED <<setting, attempt, steps, hold, waiting, envVars>>

\* The loop is left: ENV_DONE; PROMPT_TRUNCATION before a call to the model;
\* MAX_STEPS, TRUNCATION or TIMEOUT after a step (RolloutLoop says when).  A
\* trajectory the overlong filter masks out is not scored.
LeaveLoop_Scores(t, masked) ==    \* mutant: masked out or not
    /\ Submit(t, attempt[t], "reward")
    /\ UNCHANGED <<setting, attempt, steps, hold, envVars>>
LeaveLoop(t, masked) ==
    /\ Submit(t, attempt[t], IF masked THEN "close" ELSE "reward")
    /\ UNCHANGED <<setting, attempt, steps, hold, envVars>>

EpisodeEnds(t) ==
    \/ cpc[t] = "llm" /\ LeaveLoop(t, FALSE)
    \/ cpc[t] = "step" /\ jpc[Mine(t)] = "finish" /\ LeaveLoop(t, FALSE)
    \/ cpc[t] = "step" /\ jpc[Mine(t)] = "ok" /\ LeaveLoop(t, setting.filter)

\* ENV_TIMEOUT: trajectory_timeout expires before env.step returns.
Pending(t) == Running(Mine(t)) \/ jpc[Mine(t)] = "queued"
StepTimeout(t) ==
    /\ StepTimeouts
    /\ cpc[t] = "step"
    /\ Pending(t)
    /\ LeaveLoop(t, setting.filter)

RewardDone(t) ==
    /\ cpc[t] = "reward"
    /\ jpc[Mine(t)] = "ok"
    /\ Submit(t, attempt[t], "close")
    /\ UNCHANGED <<setting, attempt, steps, hold, envVars>>

CloseDone(t) ==
    /\ cpc[t] = "close"
    /\ jpc[Mine(t)] = "ok"
    /\ Consume(t, "done")
    /\ UNCHANGED <<setting, attempt, steps, hold, waiting, envVars>>

\* An exception ends the attempt: the job raised, or the model, the agent or
\* the bookkeeping that follows a job that did its work.
AttemptFails(t) ==
    /\ \/ cpc[t] = "llm"
       \/ cpc[t] \in {"reset", "step", "reward", "close"} /\ ~Pending(t)
    /\ Submit(t, attempt[t], "cleanup")
    /\ UNCHANGED <<setting, attempt, steps, hold, envVars>>

\* wait_for(..., timeout=7200) cancels the attempt wherever it is.
RunTimeout(t) ==
    /\ setting.cancels
    /\ cpc[t] \in {"reset", "step", "reward", "close"}
    /\ Pending(t)
    /\ Submit(t, attempt[t], "cleanup")
    /\ UNCHANGED <<setting, attempt, steps, hold, envVars>>

\* The env was closed after a failed attempt: reset it again, or give up.
Retry_OnceMore(t) ==    \* mutant: an attempt too many
    /\ cpc[t] = "cleanup"
    /\ jpc[Mine(t)] = "ok"
    /\ attempt' = [attempt EXCEPT ![t] = @ + 1]
    /\ Submit(t, attempt[t] + 1, "reset")
    /\ UNCHANGED <<setting, steps, hold, envVars>>
Retry_Forever(t) ==    \* mutant: attempts are not counted
    /\ cpc[t] = "cleanup"
    /\ jpc[Mine(t)] = "ok"
    /\ Submit(t, attempt[t], "reset")
    /\ UNCHANGED <<setting, attempt, steps, hold, envVars>>
Retry(t) ==
    /\ cpc[t] = "cleanup"
    /\ jpc[Mine(t)] = "ok"
    /\ attempt[t] < RetryLimit
    /\ attempt' = [attempt EXCEPT ![t] = @ + 1]
    /\ Submit(t, attempt[t] + 1, "reset")
    /\ UNCHANGED <<setting, steps, hold, envVars>>

GiveUp(t) ==
    /\ cpc[t] = "cleanup"
    /\ jpc[Mine(t)] = "ok"
    /\ attempt[t] = RetryLimit
    /\ Consume(t, "failed")
    /\ UNCHANGED <<setting, attempt, steps, hold, waiting, envVars>>

-------------------------------------------------------------------------------
(* The executor's threads *)

Goto(j, pc) == jpc' = [jpc EXCEPT ![j] = pc]

\* The job ends; nobody looks at the result of one that is awaited no more.
End(j, result) ==
    /\ Goto(j, IF Mine(j[1]) = j THEN result ELSE "idle")
    /\ hold' = [hold EXCEPT ![j] = None]

\* A free thread takes the oldest job, and drops one that was cancelled.  step
\* and compute_final_reward look up env.session at once and then stay in the
\* call to its sandbox; without a session they raise.  An action without a
\* function call and a submit return without running anything.
Start ==
    LET j == Head(waiting)
        s == session[j[1]]
    IN
    /\ waiting # <<>>
    /\ Cardinality({k \in Jobs : Running(k)}) < setting.slots
    /\ waiting' = Tail(waiting)
    /\ \/ /\ jpc[j] # "queued"
          /\ UNCHANGED <<jpc, hold>>
       \/ /\ jpc[j] = "queued"
          /\ \/ /\ j[3] = "reset"
                /\ Goto(j, "check")
                /\ UNCHANGED hold
             \/ /\ j[3] = "step"
                /\ \E result \in {"ok", "finish"} : End(j, result)
             \/ /\ j[3] \in {"step", "reward"}
                /\ s = None
                /\ End(j, "error")
             \/ /\ j[3] \in {"step", "reward"}
                /\ s # None
                /\ Goto(j, "exec")
                /\ hold' = [hold EXCEPT ![j] = s]
             \/ /\ j[3] \in {"close", "cleanup"}
                /\ Goto(j, "detach")
                /\ UNCHANGED hold
    /\ UNCHANGED <<setting, coVars, envVars>>

\* The command of step or compute_final_reward ends.
Exec(t, a, op) ==
    LET j == <<t, a, op>> IN
    /\ op \in {"step", "reward"}
    /\ jpc[j] = "exec"
    /\ \/ sandbox[t][hold[j]] = "live" /\ End(j, "ok")
       \/ End(j, "error")
    /\ UNCHANGED <<setting, coVars, waiting, envVars>>

\* reset: close what a stale attempt left behind.
ResetCheck(t, a) ==
    LET j == <<t, a, "reset">> IN
    /\ jpc[j] = "check"
    /\ Goto(j, IF session[t] = None THEN "open" ELSE "detach")
    /\ UNCHANGED <<setting, coVars, hold, waiting, envVars>>

ResetOpen(t, a) ==
    LET j == <<t, a, "reset">> IN
    /\ jpc[j] = "open"
    /\ closed' = [closed EXCEPT ![t] = FALSE]
    /\ Goto(j, "new")
    /\ UNCHANGED <<setting, coVars, hold, waiting, session, sandbox>>

\* _create_session publishes the session before it has a sandbox.
ResetSession(t, a) ==
    LET j == <<t, a, "reset">> IN
    /\ jpc[j] = "new"
    /\ session' = [session EXCEPT ![t] = a]
    /\ sandbox' = [sandbox EXCEPT ![t][a] = "new"]
    /\ Goto(j, "create")
    /\ UNCHANGED <<setting, coVars, hold, waiting, closed>>

\* create_sandbox returns with a sandbox, or raises without one.
ResetCreate(t, a) ==
    LET j == <<t, a, "reset">> IN
    /\ jpc[j] = "create"
    /\ \/ /\ sandbox' = [sandbox EXCEPT ![t][a] = "live"]
          /\ Goto(j, "setup")
          /\ UNCHANGED hold
       \/ /\ End(j, "error")
          /\ UNCHANGED sandbox
    /\ UNCHANGED <<setting, coVars, waiting, session, closed>>

\* _setup_env and _provision_tools run commands in the session env.session
\* names by then; any of them may raise.
ResetSetup(t, a) ==
    LET j == <<t, a, "reset">>
        s == session[t]
    IN
    /\ jpc[j] = "setup"
    /\ \/ s # None /\ sandbox[t][s] = "live" /\ End(j, "ok")
       \/ End(j, "error")
    /\ UNCHANGED <<setting, coVars, waiting, envVars>>

\* What follows the close of a job: close returns, reset goes on.
AfterClose(j) ==
    IF j[3] = "reset" THEN Goto(j, "open") /\ hold' = [hold EXCEPT ![j] = None]
                      ELSE End(j, "ok")

\* Mutant of Detach: close leaves env.session in place.
Detach_KeepsSession(t, a, op) ==
    LET j == <<t, a, op>> IN
    /\ jpc[j] = "detach"
    /\ IF closed[t] \/ session[t] = None
       THEN AfterClose(j)
       ELSE /\ Goto(j, "delete")
            /\ hold' = [hold EXCEPT ![j] = session[t]]
    /\ closed' = [closed EXCEPT ![t] = TRUE]
    /\ UNCHANGED <<setting, coVars, waiting, session, sandbox>>

\* close: the first caller takes the session away from the env.
Detach(t, a, op) ==
    LET j == <<t, a, op>> IN
    /\ jpc[j] = "detach"
    /\ IF closed[t] \/ session[t] = None
       THEN AfterClose(j)
       ELSE /\ Goto(j, "delete")
            /\ hold' = [hold EXCEPT ![j] = session[t]]
    /\ IF closed[t]
       THEN UNCHANGED <<closed, session>>
       ELSE /\ closed' = [closed EXCEPT ![t] = TRUE]
            /\ session' = [session EXCEPT ![t] = None]
    /\ UNCHANGED <<setting, coVars, waiting, sandbox>>

\* delete_sandbox: nothing to delete without an id; a failure is swallowed.
Delete_Forgets(t, a, op) ==    \* mutant: only the connection is closed
    /\ jpc[<<t, a, op>>] = "delete"
    /\ AfterClose(<<t, a, op>>)
    /\ UNCHANGED <<setting, coVars, waiting, envVars>>
Delete(t, a, op) ==
    LET j == <<t, a, op>>
        s == hold[j]
    IN
    /\ jpc[j] = "delete"
    /\ \E end \in {"deleted", "stuck"} :
          sandbox' = [sandbox EXCEPT ![t][s] = IF @ = "live" THEN end ELSE @]
    /\ AfterClose(j)
    /\ UNCHANGED <<setting, coVars, waiting, session, closed>>

-------------------------------------------------------------------------------
CoroutineStep(t) == \/ Launch(t) \/ ResetDone(t) \/ ModelAnswers(t)
                    \/ StepDone(t) \/ EpisodeEnds(t) \/ StepTimeout(t)
                    \/ RewardDone(t) \/ CloseDone(t) \/ AttemptFails(t)
                    \/ RunTimeout(t) \/ Retry(t) \/ GiveUp(t)

JobStep(t, a) == \/ ResetCheck(t, a) \/ ResetOpen(t, a) \/ ResetSession(t, a)
                 \/ ResetCreate(t, a) \/ ResetSetup(t, a)
                 \/ \E op \in Ops : \/ Exec(t, a, op)
                                    \/ Detach(t, a, op)
                                    \/ Delete(t, a, op)

Next == \/ \E t \in Trajs : CoroutineStep(t)
        \/ Start
        \/ \E t \in Trajs, a \in Attempts : JobStep(t, a)

Spec == Init /\ [][Next]_vars

\* The event loop and the executor do not stop while something can go on, and
\* every call to the gateway returns, with an answer or an error.  No more is
\* needed: a batch has only finitely many steps to take.
FairSpec == Spec /\ WF_vars(Next)

-------------------------------------------------------------------------------
(* Safety *)

TypeOK ==
    /\ setting \in Settings
    /\ cpc \in [Trajs -> {"idle", "llm", "done", "failed"} \cup Ops]
    /\ attempt \in [Trajs -> Attempts \cup {0}]
    /\ steps \in [Trajs -> 0..setting.maxSteps]
    /\ jpc \in [Jobs -> {"idle", "queued", "check", "detach", "delete", "open",
                         "new", "create", "setup", "exec", "ok", "finish",
                         "error"}]
    /\ hold \in [Jobs -> Attempts \cup {None}]
    /\ waiting \in Seq(Jobs)
    /\ session \in [Trajs -> Attempts \cup {None}]
    /\ closed \in [Trajs -> BOOLEAN]
    /\ sandbox \in [Trajs -> [Attempts -> {"none", "new", "live", "deleted",
                                           "stuck"}]]

\* The sandboxes the gateway runs for t, and those of them it refused to
\* delete: close swallows that error, and nobody tries again.
Held(t)    == {a \in Attempts : sandbox[t][a] \in {"live", "stuck"}}
Refused(t) == {a \in Attempts : sandbox[t][a] = "stuck"}
AllHeld    == {p \in Trajs \X Attempts : p[2] \in Held(p[1])}
AllRefused == {p \in Trajs \X Attempts : p[2] \in Refused(p[1])}

\* A trajectory that was delivered, or given up after its last retry, has no
\* sandbox left but those whose deletion the gateway refused.  (What a stale
\* env.step still does in its thread does not bring one back.)
NoLeak == \A t \in Trajs : Over(t) => Held(t) \subseteq Refused(t)

\* That much holds as long as no attempt is cancelled by its 7200 s.
NoLeakUncancelled == ~setting.cancels => NoLeak

\* Each refused deletion costs one sandbox for good, since the next attempt
\* creates its own; beyond those the batch never holds more than
\* n_parallel_agents.
SandboxQuota ==
    ~setting.cancels =>
        Cardinality(AllHeld) <= setting.slots + Cardinality(AllRefused)

\* A reset finds the env detached: it never replaces a session it did not
\* delete, and nobody sets env.session behind the back of a close.
ResetFindsNoSession ==
    ~setting.cancels =>
    \A t \in Trajs, a \in Attempts :
        jpc[<<t, a, "reset">>] \in {"check", "open", "new"} => session[t] = None

\* With the overlong filter, the reward is computed while no step of the agent
\* runs in the same sandbox.
RewardRunsAlone ==
    setting.filter /\ ~setting.cancels =>
    \A t \in Trajs, a, b \in Attempts :
        ~(/\ jpc[<<t, a, "reward">>] = "exec"
          /\ jpc[<<t, b, "step">>] = "exec"
          /\ hold[<<t, a, "reward">>] = hold[<<t, b, "step">>])

(* Liveness *)

\* Every trajectory of the batch is delivered or given up, although abandoned
\* jobs keep their threads while the retries wait for one.
EveryTrajectoryEnds == \A t \in Trajs : <>Over(t)

===============================================================================
