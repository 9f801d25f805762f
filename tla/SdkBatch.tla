------------------------------ MODULE SdkBatch --------------------------------
(***************************************************************************)
(* One execute_tasks_verl of AgentSdkEngine: the rounds of a batch, the    *)
(* rollouts of a round and their retries, the LLM calls they make through  *)
(* the proxy, and the way of the traces from the proxy's tracer back into  *)
(* episodes and rows (rllm/engine/agent_sdk_engine.py, with                *)
(* sdk/proxy/litellm_callbacks.py and sdk/store/sqlite_store.py).          *)
(*                                                                         *)
(* The tracer is TraceLog, which SqliteTracer implements; that it settles  *)
(* traces in the order in which it accepted them is SettledInOrder there.  *)
(*                                                                         *)
(* A rollout of a round is a job <<round, rollout>>.  The first job that   *)
(* gives up ends the round, and the others go on: they share the semaphore *)
(* and the store with the next round.  Calls are numbered as they are made *)
(* in the batch; a session is named by round, rollout and attempt, because *)
(* every invocation of the agent function opens one with a uid of its own. *)
(***************************************************************************)
EXTENDS Integers, FiniteSets, SequencesExt, Lists

CONSTANTS TaskOf,      \* the task_ids of the batch, one for each rollout: tasks
                       \* are numbered as they come, each repeated in place
          RetryLimit,  \* retry_limit
          NParallel,   \* n_parallel_tasks
          MaxCalls,    \* bound: LLM calls of the batch
          MaxRounds,   \* the 3 of execute_tasks
          MaxFaults,   \* bound: what goes wrong in the batch
          Overlong     \* calls whose prompt is longer than max_prompt_length

ASSUME BatchAssumption ==
    /\ TaskOf \in Seq(Nat) /\ TaskOf # <<>>
    /\ \A m, n \in DOMAIN TaskOf : m <= n => TaskOf[m] <= TaskOf[n]
    /\ Overlong \subseteq Nat /\ MaxFaults \in Nat
    /\ {RetryLimit, NParallel, MaxCalls, MaxRounds} \subseteq Nat \ {0}

Rollouts == DOMAIN TaskOf
Attempts == 1..RetryLimit
Rounds   == 1..MaxRounds
Kinds    == {"reward", "grouped", "views"}
Jobs     == Rounds \X Rollouts
Calls    == 1..MaxCalls

VARIABLES kind,      \* what agent_run_func returns and groupby_key make of
                     \* it, once the engine looks at it
          round, epc,  \* the engine: its round and where it is
          pc, attempt, \* where each job is, and its attempt
          made,      \* the session of each call made so far
          answered,  \* calls whose response the agent got
          open,      \* calls the proxy has and did not log yet
          accepted,  \* traces the tracer took, in order
          read,      \* what was read from the store for each rollout
          rows,      \* the rows of the batch
          status, asked, answer,   \* of TraceLog
          faults     \* how much went wrong so far

engineVars == <<kind, round, epc, read, rows>>
jobVars    == <<pc, attempt>>
callVars   == <<made, answered, open, accepted>>
logVars    == <<status, asked, answer>>
vars       == <<engineVars, jobVars, callVars, logVars, faults>>

Log == INSTANCE TraceLog WITH Traces <- Calls, Flushers <- Rounds

Mine(i)    == <<round, i>>      \* the job of rollout i in this round
Session(j) == <<j[1], j[2], attempt[j]>>    \* the one of its latest attempt
CallsOf(s) == {c \in DOMAIN made : made[c] = s}
Latest(j)  == Max(CallsOf(Session(j)))
Fault == faults < MaxFaults /\ faults' = faults + 1
Busy_Kept(j) ==    \* mutant: who raised keeps the semaphore
    pc[j] \in {"run", "call", "raised"}
Busy(j) == pc[j] \in {"run", "call"}

-------------------------------------------------------------------------------
Init == /\ kind = "unseen"
        /\ round = 1 /\ epc = "gather"
        /\ pc = [j \in Jobs |-> IF j[1] = 1 THEN "wait" ELSE "new"]
        /\ attempt = [j \in Jobs |-> 0]
        /\ made = <<>> /\ answered = {} /\ open = {} /\ accepted = <<>>
        /\ read = <<>> /\ rows = <<>>
        /\ faults = 0
        /\ Log!Init

-------------------------------------------------------------------------------
(* A job: process_task_with_retry, _execute_with_exception_handling        *)

\* An attempt opens its session and calls the agent function.
Begin(j, a) == /\ pc' = [pc EXCEPT ![j] = "run"]
               /\ attempt' = [attempt EXCEPT ![j] = a]
               /\ UNCHANGED <<engineVars, callVars, logVars>>

Acquire(j) == /\ pc[j] = "wait"
              /\ Cardinality({k \in Jobs : Busy(k)}) < NParallel
              /\ Begin(j, 1)
              /\ UNCHANGED faults

\* The agent asks the model, through the proxy, and waits.
Ask(j) == /\ pc[j] = "run" /\ Len(made) < MaxCalls
          /\ pc' = [pc EXCEPT ![j] = "call"]
          /\ made' = Append(made, Session(j))
          /\ open' = open \cup {Len(made')}
          /\ UNCHANGED <<engineVars, attempt, answered, accepted, logVars,
                         faults>>

\* It gets the response, or the error the proxy answered with.
Hear(j) == /\ pc[j] = "call" /\ Latest(j) \notin open
           /\ pc' = [pc EXCEPT ![j] = "run"]
           /\ answered' = IF status[Latest(j)] = "new"
                          THEN answered ELSE answered \cup {Latest(j)}
           /\ UNCHANGED <<engineVars, attempt, made, open, accepted, logVars,
                          faults>>

\* The step of a job that touches nothing but the job.
Goto(j, to) == /\ pc' = [pc EXCEPT ![j] = to]
               /\ UNCHANGED <<engineVars, attempt, callVars, logVars>>

\* The agent's client times out; the proxy goes on with the call.
GiveUpCall(j) == pc[j] = "call" /\ Goto(j, "run") /\ Fault

\* The agent function returns.
Return(j) == pc[j] = "run" /\ Goto(j, "ok") /\ UNCHANGED faults

\* An exception of the agent function, or an output of no known type.
Retry_OnceMore(j) ==    \* mutant: <= for <
    /\ pc[j] = "run" /\ attempt[j] <= RetryLimit
    /\ Begin(j, attempt[j] + 1) /\ Fault
Retry(j) == /\ pc[j] = "run" /\ attempt[j] < RetryLimit
            /\ Begin(j, attempt[j] + 1) /\ Fault

\* It was the last attempt; or the payload beside the metrics is of no known
\* type, which is raised at once.  The semaphore is released.
Raise(j) == pc[j] = "run" /\ Goto(j, "raised") /\ Fault

-------------------------------------------------------------------------------
(* The proxy and its tracer                                                *)

\* async_post_call_success_hook logs the call before the response goes out.
Hook(c) == /\ c \in open
           /\ open' = open \ {c}
           /\ Log!Log(c)
           /\ IF status'[c] = "dropped" THEN Fault ELSE UNCHANGED faults
           /\ accepted' = IF status'[c] = "pending" THEN Append(accepted, c)
                                                    ELSE accepted
           /\ UNCHANGED <<engineVars, jobVars, made, answered>>

\* The model does not answer: no hook, no trace.
CallFails(c) == /\ c \in open
                /\ open' = open \ {c}
                /\ Fault
                /\ UNCHANGED <<engineVars, jobVars, made, answered, accepted,
                                logVars>>

\* The worker of the tracer settles the oldest trace.
Settle(c) == /\ \E n \in DOMAIN accepted :
                  /\ accepted[n] = c
                  /\ \A m \in 1..(n - 1) : status[accepted[m]] # "pending"
             /\ Log!Settle(c)
             /\ IF status'[c] = "failed" THEN Fault ELSE UNCHANGED faults
             /\ UNCHANGED <<engineVars, jobVars, callVars>>

-------------------------------------------------------------------------------
(* The engine: execute_tasks around _execute_tasks                         *)

\* The round is given up.  After a pause the batch runs anew, if a round is
\* left; jobs of this round that still run go on.
NextRound ==
    /\ IF round = MaxRounds
       THEN epc' = "raised" /\ UNCHANGED <<round, pc>>
       ELSE /\ epc' = "gather"
            /\ round' = round + 1
            /\ pc' = [j \in Jobs |-> IF j[1] = round' THEN "wait" ELSE pc[j]]
    /\ read' = <<>>
    /\ UNCHANGED <<kind, rows, attempt, callVars>>

RolloutRaised == /\ epc = "gather"
                 /\ \E i \in Rollouts : pc[Mine(i)] = "raised"
                 /\ NextRound
                 /\ UNCHANGED <<logVars, faults>>

\* Every rollout returned: the proxy is asked to flush.
Flush_Unasked ==    \* mutant: the answer is not waited for
    /\ epc = "gather" /\ \A i \in Rollouts : pc[Mine(i)] = "ok"
    /\ epc' = "read"
    /\ answer' = [answer EXCEPT ![round] = "true"]
    /\ UNCHANGED <<kind, round, read, rows, jobVars, callVars, status, asked,
                   faults>>
Flush == /\ epc = "gather" /\ \A i \in Rollouts : pc[Mine(i)] = "ok"
         /\ epc' = "flush"
         /\ Log!Ask(round)
         /\ UNCHANGED <<kind, round, read, rows, jobVars, callVars, faults>>

\* The answer, or an HTTP error, which counts as False.  Either way it goes on.
Flushed == /\ epc = "flush"
           /\ epc' = "read"
           /\ Log!AnswerTrue(round) \/ Log!AnswerFalse(round)
           /\ UNCHANGED <<kind, round, read, rows, jobVars, callVars, faults>>

\* The stored traces of a session.  The store returns the newest first.
StoredByName(i) ==    \* mutant: by session name, which rounds share
    Reverse(Select(accepted, {c \in DOMAIN made :
        /\ status[c] = "stored"
        /\ made[c][2] = i /\ made[c][3] = attempt[Mine(i)]}))
Stored(i) ==
    Reverse(Select(accepted, {c \in CallsOf(Session(Mine(i))) :
        status[c] = "stored"}))

\* One session after the other is read; the tracer goes on meanwhile.
Read(i) == /\ epc = "read" /\ i \notin DOMAIN read
           /\ read' = [k \in DOMAIN read \cup {i} |->
                          IF k = i THEN Stored(i) ELSE read[k]]
           /\ UNCHANGED <<kind, round, epc, rows, jobVars, callVars, logVars,
                          faults>>

AllRead == epc = "read" /\ DOMAIN read = Rollouts

\* The steps of an episode: what was read, or what agent_run_func returned.
Heard(i) == Select([c \in DOMAIN made |-> c],
                   CallsOf(Session(Mine(i))) \cap answered)
Steps(k, i) == IF k = "views" THEN Heard(i) ELSE read[i]

\* A step that was returned and not read is None, and its lengths are asked
\* for; a trace without token ids fails an assertion.
StepsMissing(k, i) == ~(ToSet(Steps(k, i)) \subseteq ToSet(read[i]))
BuildFails == /\ AllRead
              /\ \/ /\ \E i \in Rollouts : StepsMissing("views", i)
                    /\ UNCHANGED faults
                 \/ /\ \E i \in Rollouts : read[i] # <<>>
                    /\ Fault
              /\ NextRound
              /\ UNCHANGED logVars

\* Without steps group_steps makes one trajectory of none, or, when it groups
\* by a key, no trajectory.
Empties(k) == {i \in Rollouts : k # "reward" /\ Steps(k, i) = <<>>}
TooManyEmpty(k) == 100 * Cardinality(Empties(k)) > Len(TaskOf)

BuildsEmpty == /\ AllRead
               /\ \E k \in Kinds : TooManyEmpty(k)
               /\ NextRound
               /\ UNCHANGED <<logVars, faults>>

\* The episodes come by task, and those of a task in any order.
Orders == {o \in [Rollouts -> Rollouts] :
              /\ IsInjective(o)
              /\ \A m, n \in Rollouts : m < n => TaskOf[o[m]] <= TaskOf[o[n]]}

\* transform_results_for_verl: a row for each step whose prompt fits.  The task
\* of the n-th episode is taken to be the n-th of the batch.
RowsOf(k, o) ==
    FlattenSeq([n \in Rollouts |->
        LET fit == Select(Steps(k, o[n]), Calls \ Overlong) IN
        [m \in DOMAIN fit |->
            [task |-> TaskOf[n], rollout |-> o[n], call |-> fit[m],
             last |-> m = Len(fit)]]])

Deliver ==
    /\ AllRead
    /\ kind' \in Kinds
    /\ ~TooManyEmpty(kind')
    /\ \A i \in Rollouts : ~StepsMissing(kind', i)
    /\ \E o \in Orders : rows' = RowsOf(kind', o)
    /\ epc' = IF rows' = <<>> THEN "raised" ELSE "done"
    /\ UNCHANGED <<round, read, jobVars, callVars, logVars, faults>>

-------------------------------------------------------------------------------
JobStep(j) == \/ Acquire(j) \/ Ask(j) \/ Hear(j) \/ GiveUpCall(j)
              \/ Return(j) \/ Retry(j) \/ Raise(j)

Proxy == \E c \in open : Hook(c) \/ CallFails(c)

Engine == \/ RolloutRaised \/ Flush \/ Flushed
          \/ \E i \in Rollouts : Read(i)
          \/ BuildFails \/ BuildsEmpty \/ Deliver

Next == \/ \E j \in Jobs : JobStep(j)
        \/ Proxy
        \/ \E n \in DOMAIN accepted : Settle(accepted[n])
        \/ Engine

Spec == Init /\ [][Next]_vars

\* The agent function comes to its end, the model answers or fails, a flush
\* has a timeout, and a read of the store returns.
FairSpec == /\ Spec
            /\ \A j \in Jobs : WF_vars(JobStep(j))
            /\ WF_vars(Proxy) /\ WF_vars(Engine)

-------------------------------------------------------------------------------
(* Safety *)

TypeOK == /\ kind \in Kinds \cup {"unseen"}
          /\ round \in Rounds
          /\ epc \in {"gather", "flush", "read", "done", "raised"}
          /\ pc \in [Jobs -> {"new", "wait", "run", "call", "ok", "raised"}]
          /\ attempt \in [Jobs -> Attempts \cup {0}]
          /\ made \in Seq(Rounds \X Rollouts \X Attempts)
          /\ answered \subseteq DOMAIN made /\ open \subseteq DOMAIN made
          /\ accepted \in Seq(DOMAIN made)
          /\ DOMAIN read \subseteq Rollouts
          /\ faults \in 0..MaxFaults

\* A row of the batch is of the task it is filed under, and of the attempt
\* whose outcome rewards it: no call of an attempt that failed, of a job that
\* outlived its round, or of another round gets in, and none twice, although
\* their session names are the same.
RowsOfOwnSession ==
    epc = "done" =>
    /\ \A n \in DOMAIN rows :
          LET i == rows[n].rollout IN
          /\ rows[n].task = TaskOf[i]
          /\ made[rows[n].call] = Session(Mine(i))
          /\ status[rows[n].call] = "stored"
    /\ \A m, n \in DOMAIN rows : rows[m].call = rows[n].call => m = n

\* A call whose response the agent got is missing in its episode only if the
\* tracer dropped its trace or failed to store it, or the flush did not succeed;
\* in an episode built from views, never.  A trace that failed may be missing
\* although the flush answered True: that is less than what the flush endpoint
\* promises, "all traces are persisted" (litellm_server.py:228).
MissingForAReason ==
    epc = "done" =>
    \A i \in Rollouts :
        \A c \in ToSet(Heard(i)) \ ToSet(Steps(kind, i)) :
            /\ kind # "views"
            /\ status[c] \in {"dropped", "failed"} \/ answer[round] = "false"

\* The row that is marked as the last of its trajectory is the last of its
\* calls: its advantage goes to the steps before it.
LastStepIsLast ==
    epc = "done" =>
    \A m, n \in DOMAIN rows :
        rows[m].last /\ rows[n].rollout = rows[m].rollout
            => rows[n].call <= rows[m].call

(* Liveness *)

\* The batch is delivered or given up, although jobs of earlier rounds hold
\* the semaphore the later ones need.
BatchEnds == <>(epc \in {"done", "raised"})

===============================================================================
