-------------------------- MODULE WorkflowPoolProofs --------------------------
(***************************************************************************)
(* Theorems about WorkflowPool for any batch, number of workflows, retry   *)
(* limit and number of turns: no workflow is lost or handed out twice, an  *)
(* episode is its rollout's own, and its rows stand under its prompt.      *)
(***************************************************************************)
EXTENDS WorkflowPool, ListsProofs, FiniteSetTheorems

USE PoolAssumption DEF Workflows, Unset

States == {"queue", "reset", "llm", "env", "done", "raised"}

PTypes ==
    /\ pool \in Seq(Workflows)
    /\ pc \in [Rollouts -> States]
    /\ wf \in [Rollouts -> Workflows \cup {Unset}]

\* Where each workflow is: once in the queue, or with one rollout.
Queued   == {pool[i] : i \in 1..Len(pool)}
Runs     == {r \in Rollouts : InRun(r)}
NoDouble == \A i, j \in 1..Len(pool) : pool[i] = pool[j] => i = j

PInv ==
    /\ PTypes
    /\ NoDouble
    /\ \A r \in Runs : wf[r] \in Workflows \ Queued
    /\ \A r, q \in Runs : wf[r] = wf[q] => r = q
    /\ \A w \in Workflows : w \in Queued \/ \E r \in Runs : wf[r] = w

-------------------------------------------------------------------------------
\* What Append does to the places of the elements.
LEMMA AppendFacts ==
    ASSUME NEW S, NEW s \in Seq(S), NEW e \in S
    PROVE  /\ Append(s, e) \in Seq(S)
           /\ Len(Append(s, e)) = Len(s) + 1
           /\ \A i \in 1..Len(s) : Append(s, e)[i] = s[i]
           /\ Append(s, e)[Len(s) + 1] = e
  OBVIOUS

\* And Tail, with the head.
LEMMA TailFacts ==
    ASSUME NEW S, NEW s \in Seq(S), s # <<>>
    PROVE  /\ Tail(s) \in Seq(S)
           /\ Len(s) \in Nat \ {0}
           /\ Len(Tail(s)) = Len(s) - 1
           /\ \A i \in 1..Len(Tail(s)) : Tail(s)[i] = s[i + 1]
           /\ Head(s) = s[1]
           /\ Head(s) \in S
  OBVIOUS

\* A step that moves no workflow and ends no run.
LEMMA PoolStays ==
    ASSUME PInv, UNCHANGED <<pool, wf>>, pc' \in [Rollouts -> States],
           Runs' = Runs
    PROVE  PInv'
  BY DEF PInv, PTypes, Queued, NoDouble

\* The head of the queue leaves it.
LEMMA TailQueue ==
    ASSUME pool \in Seq(Workflows), NoDouble, pool # <<>>, pool' = Tail(pool)
    PROVE  /\ pool' \in Seq(Workflows)
           /\ NoDouble'
           /\ Head(pool) \in Queued /\ Head(pool) \in Workflows
           /\ Queued' = Queued \ {Head(pool)}
<1>1. /\ pool' \in Seq(Workflows)
      /\ Len(pool) \in Nat \ {0}
      /\ Len(pool') = Len(pool) - 1
      /\ \A i \in 1..Len(pool') : pool'[i] = pool[i + 1]
      /\ Head(pool) = pool[1]
      /\ Head(pool) \in Workflows
  BY TailFacts
<1>2. NoDouble'
  <2>1. ASSUME NEW i \in 1..Len(pool'), NEW j \in 1..Len(pool'),
               pool'[i] = pool'[j]
        PROVE  i = j
    <3>1. /\ i + 1 \in 1..Len(pool) /\ j + 1 \in 1..Len(pool)
          /\ pool[i + 1] = pool[j + 1]
      BY <1>1, <2>1
    <3>2. i + 1 = j + 1
      BY <3>1 DEF NoDouble
    <3>3. QED
      BY <3>2
  <2>2. QED
    BY <2>1 DEF NoDouble
<1>3. Queued' \subseteq Queued \ {Head(pool)}
  <2>1. ASSUME NEW i \in 1..Len(pool')
        PROVE  pool'[i] \in Queued \ {Head(pool)}
    <3>1. i + 1 \in 1..Len(pool) /\ 1 \in 1..Len(pool) /\ i + 1 # 1
      BY <1>1
    <3>2. pool'[i] = pool[i + 1] /\ pool[i + 1] # pool[1]
      BY <1>1, <3>1 DEF NoDouble
    <3>3. QED
      BY <1>1, <3>1, <3>2 DEF Queued
  <2>2. QED
    BY <2>1 DEF Queued
<1>4. Queued \ {Head(pool)} \subseteq Queued'
  <2>1. ASSUME NEW i \in 1..Len(pool), pool[i] # Head(pool)
        PROVE  pool[i] \in Queued'
    <3>1. i - 1 \in 1..Len(pool') /\ (i - 1) + 1 = i
      BY <1>1, <2>1
    <3>2. pool'[i - 1] = pool[i]
      BY <1>1, <3>1
    <3>3. QED
      BY <3>1, <3>2 DEF Queued
  <2>2. QED
    BY <2>1 DEF Queued
<1>5. 1 \in 1..Len(pool) /\ Head(pool) \in Queued
  BY <1>1 DEF Queued
<1>6. QED
  BY <1>1, <1>2, <1>3, <1>4, <1>5

\* What is put behind the queue is in it then.
LEMMA AppendQueue ==
    ASSUME pool \in Seq(Workflows), NoDouble, NEW w \in Workflows \ Queued,
           pool' = Append(pool, w)
    PROVE  /\ pool' \in Seq(Workflows)
           /\ NoDouble'
           /\ Queued' = Queued \cup {w}
<1>1. /\ pool' \in Seq(Workflows)
      /\ Len(pool) \in Nat
      /\ Len(pool') = Len(pool) + 1
      /\ \A i \in 1..Len(pool) : pool'[i] = pool[i]
      /\ pool'[Len(pool) + 1] = w
  BY AppendFacts
<1>2. \A i \in 1..Len(pool') : i \in 1..Len(pool) \/ i = Len(pool) + 1
  BY <1>1
<1>3. \A i \in 1..Len(pool) : pool'[i] # w /\ i \in 1..Len(pool')
  BY <1>1 DEF Queued
<1>4. Len(pool) + 1 \in 1..Len(pool')
  BY <1>1
<1>5. NoDouble'
  BY <1>1, <1>2, <1>3 DEF NoDouble
<1>6. QED
  BY <1>1, <1>2, <1>3, <1>4, <1>5 DEF Queued

\* A rollout takes the workflow at the head of the queue.
LEMMA TakeHolds ==
    ASSUME PInv, NEW r \in Rollouts, Take(r)
    PROVE  PInv' /\ Runs' = Runs \cup {r} /\ r \notin Runs
<1> DEFINE h == Head(pool)
<1>1. /\ pool # <<>> /\ pool' = Tail(pool)
      /\ pc[r] = "queue" /\ pc' = [pc EXCEPT ![r] = "reset"]
      /\ wf' = [wf EXCEPT ![r] = h]
  BY DEF Take
<1>2. /\ pool' \in Seq(Workflows) /\ NoDouble'
      /\ h \in Queued /\ h \in Workflows
      /\ Queued' = Queued \ {h}
  BY <1>1, TailQueue DEF PInv, PTypes
<1>3. PTypes'
  BY <1>1, <1>2 DEF PInv, PTypes, States
<1>4. Runs' = Runs \cup {r} /\ r \notin Runs
  BY <1>1 DEF PInv, PTypes, Runs, InRun
<1>5. wf'[r] = h /\ \A q \in Runs : wf'[q] = wf[q] /\ wf[q] # h
  BY <1>1, <1>2, <1>4 DEF PInv, PTypes, Runs
<1>6. QED
  BY <1>2, <1>3, <1>4, <1>5 DEF PInv

\* A rollout ends, and its workflow goes behind the queue.
LEMMA SettleReturns ==
    ASSUME PInv, NEW r \in Runs, NEW how \in {"done", "raised"},
           Settle(r, how), wf' = wf
    PROVE  PInv' /\ Runs' = Runs \ {r}
<1>1. pc' = [pc EXCEPT ![r] = how] /\ pool' = Append(pool, wf[r])
  BY DEF Settle
<1>2. r \in Rollouts /\ wf[r] \in Workflows \ Queued
  BY DEF PInv, Runs
<1>3. /\ pool' \in Seq(Workflows) /\ NoDouble'
      /\ Queued' = Queued \cup {wf[r]}
  BY <1>1, <1>2, AppendQueue DEF PInv, PTypes
<1>4. Runs' = Runs \ {r} /\ PTypes'
  BY <1>1, <1>2, <1>3 DEF PInv, PTypes, Runs, InRun, States
<1>5. QED
  BY <1>2, <1>3, <1>4 DEF PInv

\* Every step keeps each workflow at one place.
LEMMA PoolStep ==
    ASSUME PInv, [Next]_vars
    PROVE  PInv'
<1>1. ASSUME UNCHANGED <<pool, pc, wf>>
      PROVE  PInv'
  BY <1>1, PoolStays DEF PInv, PTypes, Runs, InRun
<1>2. CASE JobStarts
  BY <1>1, <1>2 DEF JobStarts, coVars
<1>3. ASSUME NEW r \in Rollouts, Job(r)
      PROVE  PInv'
  BY <1>1, <1>3 DEF Job, ResetWrites, ResetEnds, StepEnds, coVars
<1>4. ASSUME NEW r \in Rollouts, Rollout(r)
      PROVE  PInv'
  <2>1. CASE Take(r)
    BY <2>1, TakeHolds
  <2>2. CASE ResetDone(r) \/ ModelAnswers(r)
    <3>1. \E to \in {"llm", "env"} : pc' = [pc EXCEPT ![r] = to]
      BY <2>2 DEF ResetDone, ModelAnswers
    <3>2. pc[r] \in {"reset", "llm"} /\ UNCHANGED <<pool, wf>>
      BY <2>2 DEF ResetDone, ModelAnswers
    <3>3. Runs' = Runs /\ pc' \in [Rollouts -> States]
      BY <3>1, <3>2 DEF Runs, InRun, PInv, PTypes, States
    <3>4. QED
      BY <3>2, <3>3, PoolStays
  <2>3. CASE StepDone(r)
    <3>1. r \in Runs /\ wf' = wf
      BY <2>3 DEF StepDone, Runs, InRun
    <3>2. \/ pc' = [pc EXCEPT ![r] = "llm"] /\ pool' = pool
          \/ Settle(r, "done")
      BY <2>3 DEF StepDone, Return
    <3>3. CASE pc' = [pc EXCEPT ![r] = "llm"] /\ pool' = pool
      <4>1. Runs' = Runs /\ pc' \in [Rollouts -> States]
        BY <3>1, <3>3 DEF Runs, InRun, PInv, PTypes, States
      <4>2. QED
        BY <3>1, <3>3, <4>1, PoolStays
    <3>4. QED
      BY <3>1, <3>2, <3>3, SettleReturns
  <2>4. CASE RunFails(r)
    <3>1. r \in Runs /\ wf' = wf
      BY <2>4 DEF RunFails, Runs, InRun
    <3>2. \/ pc' = [pc EXCEPT ![r] = "reset"] /\ pool' = pool
          \/ Settle(r, "raised") \/ Settle(r, "done")
      BY <2>4 DEF RunFails, Fail, Return
    <3>3. CASE pc' = [pc EXCEPT ![r] = "reset"] /\ pool' = pool
      <4>1. Runs' = Runs /\ pc' \in [Rollouts -> States]
        BY <3>1, <3>3 DEF Runs, InRun, PInv, PTypes, States
      <4>2. QED
        BY <3>1, <3>3, <4>1, PoolStays
    <3>4. QED
      BY <3>1, <3>2, <3>3, SettleReturns
  <2>5. CASE Timeout(r)
    <3>1. r \in Runs /\ wf' = wf
      BY <2>5 DEF Timeout, Runs
    <3>2. Settle(r, "done") \/ Settle(r, "raised")
      BY <2>5 DEF Timeout, Return
    <3>3. QED
      BY <3>1, <3>2, SettleReturns
  <2>6. CASE PromptTooLong(r)
    <3>1. r \in Runs /\ wf' = wf /\ Settle(r, "done")
      BY <2>6 DEF PromptTooLong, Return, Runs, InRun
    <3>2. QED
      BY <3>1, SettleReturns
  <2>7. QED
    BY <1>4, <2>1, <2>2, <2>3, <2>4, <2>5, <2>6 DEF Rollout
<1>5. CASE UNCHANGED vars
  BY <1>1, <1>5 DEF vars, coVars
<1>6. QED
  BY <1>2, <1>3, <1>4, <1>5 DEF Next

\* At first all of them are in the queue.
LEMMA PoolInit ==
    ASSUME Init
    PROVE  PInv
<1>1. /\ pool = [w \in Workflows |-> w] /\ Len(pool) = NParallel
      /\ pool \in Seq(Workflows)
  BY DEF Init
<1>2. Queued = Workflows /\ NoDouble
  BY <1>1 DEF Queued, NoDouble
<1>3. Runs = {}
  BY DEF Init, Runs, InRun
<1>4. PTypes
  BY <1>1 DEF Init, PTypes, States
<1>5. QED
  BY <1>2, <1>3, <1>4 DEF PInv

\* Counted, that is one place for each workflow.
LEMMA PoolCounts ==
    ASSUME PInv
    PROVE  PoolConserved
<1> SUFFICES ASSUME NEW w \in Workflows
             PROVE  Cardinality({i \in DOMAIN pool : pool[i] = w})
                        + Cardinality({r \in Rollouts :
                                          InRun(r) /\ wf[r] = w}) = 1
  BY DEF PoolConserved
<1> DEFINE P == {i \in DOMAIN pool : pool[i] = w}
           R == {r \in Rollouts : InRun(r) /\ wf[r] = w}
<1>1. DOMAIN pool = 1..Len(pool)
  BY DEF PInv, PTypes
<1>2. R = {r \in Runs : wf[r] = w}
  BY DEF Runs
<1>3. CASE w \in Queued
  <2>1. R = {}
    BY <1>2, <1>3 DEF PInv
  <2>2. PICK i \in 1..Len(pool) : pool[i] = w
    BY <1>3 DEF Queued
  <2>3. P = {i}
    BY <1>1, <2>2 DEF PInv, NoDouble
  <2>4. Cardinality(P) = 1 /\ Cardinality(R) = 0
    BY <2>1, <2>3, FS_EmptySet, FS_Singleton
  <2>5. QED
    BY <2>4
<1>4. CASE w \notin Queued
  <2>1. P = {}
    BY <1>1, <1>4 DEF Queued
  <2>2. PICK r \in Runs : wf[r] = w
    BY <1>4 DEF PInv
  <2>3. R = {r}
    BY <1>2, <2>2 DEF PInv
  <2>4. Cardinality(P) = 0 /\ Cardinality(R) = 1
    BY <2>1, <2>3, FS_EmptySet, FS_Singleton
  <2>5. QED
    BY <2>4
<1>5. QED
  BY <1>3, <1>4

\* Whatever raises, times out or is retried, every workflow is in the queue
\* once or with one rollout (agent_workflow_engine.py:99, 131).
THEOREM PoolIsConserved == Spec => []PoolConserved
<1>1. Init => PInv
  BY PoolInit
<1>2. PInv /\ [Next]_vars => PInv'
  BY PoolStep
<1>3. PInv => PoolConserved
  BY PoolCounts
<1>4. QED
  BY <1>1, <1>2, <1>3, PTL DEF Spec

-------------------------------------------------------------------------------
(* Episodes *)

Views   == {"old", "own", "disturbed"}
Jobs    == {"none", "wantReset", "wantStep", "reset", "reset2", "step", "ok",
            "failed"}
Reasons == {"none", "ENV_DONE", "TIMEOUT", "ERROR", "MAX_TURNS_EXCEEDED",
            "MAX_PROMPT_LENGTH_EXCEEDED"}

ETypes ==
    /\ uid \in [Workflows -> Rollouts \cup {Unset}]
    /\ steps \in [Workflows -> Seq(Rollouts)]
    /\ acted \in [Workflows -> SUBSET Rollouts]
    /\ view \in [Rollouts -> Views]
    /\ job \in [Rollouts -> Jobs]
    /\ turn \in [Rollouts -> Nat]
    /\ episode \in [Rollouts -> [uid : Rollouts \cup {Unset},
                                 steps : Seq(Rollouts),
                                 acted : SUBSET Rollouts,
                                 reason : Reasons]]

\* The jobs a rollout can wait for where it is.
JobFits(r) ==
    /\ pc[r] = "reset" =>
           job[r] \in {"wantReset", "reset", "reset2", "ok", "failed"}
    /\ pc[r] = "llm" => job[r] = "none"
    /\ pc[r] = "env" => job[r] \in {"wantStep", "step", "ok", "failed"}

\* What a rollout that was not disturbed since its reset finds in its
\* workflow.
Own(r) ==
    LET w == wf[r]
    IN  /\ uid[w] = r
        /\ \A i \in 1..Len(steps[w]) : steps[w][i] = r
        /\ job[r] = "reset2" => steps[w] = <<>>
        /\ pc[r] = "reset" /\ job[r] = "ok" => steps[w] = <<>> /\ acted[w] = {}
        /\ pc[r] \in {"llm", "env"} => Len(steps[w]) = turn[r]
        /\ pc[r] = "llm" => acted[w] = IF turn[r] = 0 THEN {} ELSE {r}
        /\ pc[r] = "env" => turn[r] > 0 /\ acted[w] \subseteq {r}
        /\ pc[r] = "env" /\ job[r] = "ok" => acted[w] = {r}

\* Before its reset has written, a rollout waits for it.
Waits(r) == pc[r] = "reset" /\ job[r] \in {"wantReset", "reset"}

\* EpisodeIsOwn of one rollout.
Good(r) ==
    pc[r] = "done" =>
        LET e == episode[r]
        IN  /\ view[r] = "own" =>
                  /\ e.uid = r
                  /\ \A i \in DOMAIN e.steps : e.steps[i] = r
                  /\ e.reason \notin {"TIMEOUT", "ERROR"} =>
                        /\ Len(e.steps) = turn[r]
                        /\ e.acted = IF turn[r] = 0 THEN {} ELSE {r}
            /\ view[r] = "old" => e.reason = "TIMEOUT" /\ e.uid # r

Sound(r) ==
    /\ pc[r] = "queue" => view[r] = "old"
    /\ InRun(r) => /\ JobFits(r)
                   /\ view[r] = "own" => Own(r)
                   /\ view[r] = "old" => Waits(r)
    /\ Good(r)

EInv == ETypes /\ \A r \in Rollouts : Sound(r)

\* Before its reset, no workflow has the uid of a rollout.
Unseen(r) ==
    /\ pc[r] = "queue" => job[r] = "none"
    /\ view[r] = "old" /\ pc[r] \notin {"done", "raised"} =>
           \A w \in Workflows : uid[w] # r

UInv == \A r \in Rollouts : Unseen(r)

-------------------------------------------------------------------------------
\* A rollout that a step leaves alone, or only disturbs.
LEMMA LeftAlone ==
    ASSUME NEW q \in Rollouts, Sound(q),
           pc'[q] = pc[q], wf'[q] = wf[q], turn'[q] = turn[q],
           episode'[q] = episode[q],
           InRun(q) => job'[q] = job[q],
           \/ InRun(q) /\ view'[q] = "disturbed"
           \/ /\ view'[q] = view[q]
              /\ InRun(q) => /\ uid'[wf[q]] = uid[wf[q]]
                             /\ steps'[wf[q]] = steps[wf[q]]
                             /\ acted'[wf[q]] = acted[wf[q]]
    PROVE  Sound(q)'
<1>1. InRun(q)' = InRun(q)
  BY DEF InRun
<1>2. CASE InRun(q) /\ view'[q] = "disturbed"
  BY <1>1, <1>2 DEF Sound, JobFits, Good, InRun
<1>3. CASE view'[q] = view[q] /\ ~InRun(q)
  BY <1>1, <1>3 DEF Sound, Good
<1>4. CASE /\ view'[q] = view[q] /\ InRun(q)
           /\ uid'[wf[q]] = uid[wf[q]]
           /\ steps'[wf[q]] = steps[wf[q]]
           /\ acted'[wf[q]] = acted[wf[q]]
  <2>1. Own(q)' = Own(q) /\ JobFits(q)' = JobFits(q) /\ Waits(q)' = Waits(q)
    BY <1>4 DEF Own, JobFits, Waits
  <2>2. QED
    BY <1>1, <1>4, <2>1 DEF Sound, Good
<1>5. QED
  BY <1>2, <1>3, <1>4

\* The others, when a rollout moves and its workflow is touched by it alone.
LEMMA OthersAlone ==
    ASSUME PInv, EInv, NEW r \in Runs, NEW q \in Rollouts, q # r,
           pc'[q] = pc[q], wf'[q] = wf[q], turn'[q] = turn[q],
           episode'[q] = episode[q], job'[q] = job[q], view'[q] = view[q],
           \A w \in Workflows \ {wf[r]} : /\ uid'[w] = uid[w]
                                          /\ steps'[w] = steps[w]
                                          /\ acted'[w] = acted[w]
    PROVE  Sound(q)'
<1>1. InRun(q) => wf[q] \in Workflows \ {wf[r]}
  BY DEF PInv, Runs
<1>2. QED
  BY <1>1, LeftAlone DEF EInv

\* An abandoned job: whoever holds the workflow it touches is disturbed.
LEMMA AbandonedDisturbs ==
    ASSUME PInv, EInv, NEW r \in Rollouts, Abandoned(r), Disturbs(r),
           UNCHANGED coVars, \A q \in Rollouts \ {r} : job'[q] = job[q],
           \A w \in Workflows \ {wf[r]} : /\ uid'[w] = uid[w]
                                          /\ steps'[w] = steps[w]
                                          /\ acted'[w] = acted[w]
    PROVE  \A q \in Rollouts : Sound(q)'
<1> SUFFICES ASSUME NEW q \in Rollouts
             PROVE  Sound(q)'
  OBVIOUS
<1>1. view'[q] = IF InRun(q) /\ wf[q] = wf[r] THEN "disturbed" ELSE view[q]
  BY DEF Disturbs
<1>2. InRun(q) => q # r /\ wf[q] \in Workflows
  BY DEF Abandoned, PInv, Runs
<1>3. QED
  BY <1>1, <1>2, LeftAlone DEF coVars, EInv

\* A job of a rollout that waits for it disturbs nobody.
LEMMA NobodyDisturbed ==
    ASSUME ETypes, NEW r \in Rollouts, ~Abandoned(r), Disturbs(r)
    PROVE  view' = view
  BY DEF Disturbs, ETypes

-------------------------------------------------------------------------------
\* A thread takes a job: nobody sees it yet.
LEMMA JobStartsSound ==
    ASSUME PInv, EInv, threads \in Seq(Rollouts), JobStarts
    PROVE  EInv'
<1>1. PICK r \in Rollouts : job' = [job EXCEPT ![r] =
          CASE @ = "wantReset" -> "reset"
            [] @ = "wantStep"  -> "step"
            [] OTHER           -> @]
  BY TailFacts DEF JobStarts
<1>2. UNCHANGED <<coVars, memory, view>>
  BY DEF JobStarts
<1>3. PICK k \in Jobs :
          /\ job' = [job EXCEPT ![r] = k]
          /\ \/ job[r] = "wantReset" /\ k = "reset"
             \/ job[r] = "wantStep" /\ k = "step"
             \/ job[r] = k
  <2>1. job[r] \in Jobs
    BY DEF EInv, ETypes
  <2>2. CASE job[r] = "wantReset"
    BY <1>1, <2>2 DEF Jobs
  <2>3. CASE job[r] = "wantStep"
    BY <1>1, <2>3 DEF Jobs
  <2>4. CASE job[r] \notin {"wantReset", "wantStep"}
    BY <1>1, <2>1, <2>4
  <2>5. QED
    BY <2>2, <2>3, <2>4
<1>4. job'[r] = k /\ \A q \in Rollouts \ {r} : job'[q] = job[q]
  BY <1>3 DEF EInv, ETypes
<1>5. ETypes'
  BY <1>2, <1>3 DEF EInv, ETypes, coVars, memory
<1>6. ASSUME NEW q \in Rollouts, q # r \/ ~InRun(q) PROVE Sound(q)'
  BY <1>2, <1>4, <1>6, LeftAlone DEF EInv, coVars, memory
<1>7. CASE InRun(r)
  <2>1. JobFits(r) /\ Sound(r)
    BY <1>7 DEF EInv, Sound
  <2>2. UNCHANGED <<pc, wf, turn, episode, uid, steps, acted, view>>
    BY <1>2 DEF coVars, memory
  <2>3. JobFits(r)' /\ (Waits(r) => Waits(r)')
    BY <1>3, <1>4, <2>1, <2>2 DEF JobFits, Waits
  <2>4. Own(r) => Own(r)'
    BY <1>3, <1>4, <2>2 DEF Own
  <2>5. Good(r)' = Good(r) /\ InRun(r)' = InRun(r)
    BY <2>2 DEF Good, InRun
  <2>6. Sound(r)'
    BY <1>7, <2>1, <2>2, <2>3, <2>4, <2>5 DEF Sound
  <2>7. QED
    BY <1>5, <1>6, <2>6 DEF EInv
<1>8. QED
  BY <1>5, <1>6, <1>7 DEF EInv

\* A reset writes: the workflow becomes the rollout's own.
LEMMA ResetWritesSound ==
    ASSUME PInv, EInv, NEW r \in Rollouts, ResetWrites(r)
    PROVE  EInv'
<1>1. /\ job[r] = "reset" /\ job' = [job EXCEPT ![r] = "reset2"]
      /\ uid' = [uid EXCEPT ![wf[r]] = r]
      /\ steps' = [steps EXCEPT ![wf[r]] = <<>>]
      /\ acted' = acted /\ UNCHANGED coVars
  BY DEF ResetWrites
<1>2. \A w \in Workflows \ {wf[r]} : /\ uid'[w] = uid[w]
                                     /\ steps'[w] = steps[w]
                                     /\ acted'[w] = acted[w]
  BY <1>1 DEF EInv, ETypes
<1>3. /\ uid' \in [Workflows -> Rollouts \cup {Unset}]
      /\ steps' \in [Workflows -> Seq(Rollouts)]
      /\ job' \in [Rollouts -> Jobs]
      /\ \A q \in Rollouts \ {r} : job'[q] = job[q]
  <2>1. <<>> \in Seq(Rollouts) /\ "reset2" \in Jobs
    BY DEF Jobs
  <2>2. QED
    BY <1>1, <2>1 DEF EInv, ETypes
<1>4. CASE Abandoned(r)
  <2>1. Disturbs(r)
    BY <1>4 DEF ResetWrites
  <2>2. view' \in [Rollouts -> Views]
    BY <2>1 DEF Disturbs, EInv, ETypes, Views
  <2>3. ETypes'
    BY <1>1, <1>3, <2>2 DEF EInv, ETypes, coVars
  <2>4. QED
    BY <1>1, <1>2, <1>3, <1>4, <2>1, <2>3, AbandonedDisturbs DEF EInv
<1>5. CASE ~Abandoned(r)
  <2>1. InRun(r) /\ r \in Runs
    BY <1>1, <1>5 DEF Abandoned, HasThread, Runs
  <2>2. view' = [view EXCEPT ![r] = "own"]
    BY <1>5 DEF ResetWrites
  <2>3. ETypes'
    BY <1>1, <1>3, <2>2 DEF EInv, ETypes, coVars, Views
  <2>4. pc[r] = "reset" /\ wf[r] \in Workflows
    BY <1>1, <2>1 DEF EInv, Sound, JobFits, InRun, PInv
  <2>5. ASSUME NEW q \in Rollouts, q # r PROVE Sound(q)'
    <3>1. view'[q] = view[q]
      BY <2>2, <2>5 DEF EInv, ETypes
    <3>2. QED
      BY <1>1, <1>2, <1>3, <2>1, <2>5, <3>1, OthersAlone DEF coVars
  <2>6. /\ uid'[wf[r]] = r /\ steps'[wf[r]] = <<>>
        /\ job'[r] = "reset2" /\ view'[r] = "own"
    BY <1>1, <2>2, <2>4 DEF EInv, ETypes
  <2>7. Own(r)' /\ JobFits(r)' /\ Good(r)'
    BY <1>1, <2>4, <2>6 DEF Own, JobFits, Good, coVars
  <2>8. Sound(r)'
    BY <1>1, <2>4, <2>6, <2>7 DEF Sound, coVars
  <2>9. QED
    BY <2>3, <2>5, <2>8 DEF EInv
<1>6. QED
  BY <1>4, <1>5

\* The env is reset.
LEMMA ResetEndsSound ==
    ASSUME PInv, EInv, NEW r \in Rollouts, ResetEnds(r)
    PROVE  EInv'
<1>1. /\ job[r] = "reset2" /\ Disturbs(r)
      /\ UNCHANGED <<coVars, uid, steps>>
      /\ \/ JobOver(r, "ok") /\ acted' = [acted EXCEPT ![wf[r]] = {}]
         \/ JobOver(r, "failed") /\ acted' = acted
  BY DEF ResetEnds
<1>2. /\ acted' \in [Workflows -> SUBSET Rollouts]
      /\ job' \in [Rollouts -> Jobs]
      /\ \A q \in Rollouts \ {r} : job'[q] = job[q]
      /\ \A w \in Workflows \ {wf[r]} : acted'[w] = acted[w]
      /\ view' \in [Rollouts -> Views]
  BY <1>1 DEF EInv, ETypes, JobOver, Jobs, Disturbs, Views
<1>3. ETypes'
  BY <1>1, <1>2 DEF EInv, ETypes, coVars
<1>4. CASE Abandoned(r)
  BY <1>1, <1>2, <1>3, <1>4, AbandonedDisturbs DEF EInv
<1>5. CASE ~Abandoned(r)
  <2>1. InRun(r) /\ r \in Runs
    BY <1>1, <1>5 DEF Abandoned, HasThread, Runs
  <2>2. view' = view
    BY <1>1, <1>5, NobodyDisturbed DEF EInv
  <2>3. pc[r] = "reset" /\ wf[r] \in Workflows /\ Sound(r)
    BY <1>1, <2>1 DEF EInv, Sound, JobFits, InRun, PInv
  <2>4. ASSUME NEW q \in Rollouts, q # r PROVE Sound(q)'
    BY <1>1, <1>2, <2>1, <2>2, <2>4, OthersAlone DEF coVars
  <2>5. \/ job'[r] = "ok" /\ acted'[wf[r]] = {}
        \/ job'[r] = "failed"
    BY <1>1, <1>5, <2>3 DEF JobOver, EInv, ETypes
  <2>6. view[r] # "old" /\ (view[r] = "own" => Own(r))
    BY <1>1, <2>1, <2>3 DEF Sound, Waits
  <2>7. (view'[r] = "own" => Own(r)') /\ JobFits(r)' /\ Good(r)'
    BY <1>1, <2>2, <2>3, <2>5, <2>6 DEF Own, JobFits, Good, coVars
  <2>8. Sound(r)'
    BY <1>1, <2>2, <2>3, <2>6, <2>7 DEF Sound, coVars
  <2>9. QED
    BY <1>3, <2>4, <2>8 DEF EInv
<1>6. QED
  BY <1>4, <1>5

\* The env has taken the action.
LEMMA StepEndsSound ==
    ASSUME PInv, EInv, NEW r \in Rollouts, StepEnds(r)
    PROVE  EInv'
<1>1. /\ job[r] = "step" /\ Disturbs(r)
      /\ UNCHANGED <<coVars, uid, steps>>
      /\ acted' = [acted EXCEPT ![wf[r]] = @ \cup {r}]
      /\ JobOver(r, "ok") \/ JobOver(r, "failed")
  BY DEF StepEnds
<1>2. /\ acted' \in [Workflows -> SUBSET Rollouts]
      /\ job' \in [Rollouts -> Jobs]
      /\ \A q \in Rollouts \ {r} : job'[q] = job[q]
      /\ \A w \in Workflows \ {wf[r]} : acted'[w] = acted[w]
      /\ view' \in [Rollouts -> Views]
  BY <1>1 DEF EInv, ETypes, JobOver, Jobs, Disturbs, Views
<1>3. ETypes'
  BY <1>1, <1>2 DEF EInv, ETypes, coVars
<1>4. CASE Abandoned(r)
  BY <1>1, <1>2, <1>3, <1>4, AbandonedDisturbs DEF EInv
<1>5. CASE ~Abandoned(r)
  <2>1. InRun(r) /\ r \in Runs
    BY <1>1, <1>5 DEF Abandoned, HasThread, Runs
  <2>2. view' = view
    BY <1>1, <1>5, NobodyDisturbed DEF EInv
  <2>3. pc[r] = "env" /\ wf[r] \in Workflows /\ Sound(r)
    BY <1>1, <2>1 DEF EInv, Sound, JobFits, InRun, PInv
  <2>4. ASSUME NEW q \in Rollouts, q # r PROVE Sound(q)'
    BY <1>1, <1>2, <2>1, <2>2, <2>4, OthersAlone DEF coVars
  <2>5. /\ job'[r] \in {"ok", "failed"}
        /\ acted'[wf[r]] = acted[wf[r]] \cup {r}
    BY <1>1, <1>5, <2>3 DEF JobOver, EInv, ETypes
  <2>6. view[r] # "old" /\ (view[r] = "own" => Own(r))
    BY <1>1, <2>1, <2>3 DEF Sound, Waits
  <2>7. (view'[r] = "own" => Own(r)') /\ JobFits(r)' /\ Good(r)'
    BY <1>1, <2>2, <2>3, <2>5, <2>6 DEF Own, JobFits, Good, coVars
  <2>8. Sound(r)'
    BY <1>1, <2>2, <2>3, <2>6, <2>7 DEF Sound, coVars
  <2>9. QED
    BY <1>3, <2>4, <2>8 DEF EInv
<1>6. QED
  BY <1>4, <1>5

-------------------------------------------------------------------------------
\* A rollout ends with an episode of what its workflow holds.
LEMMA ReturnSound ==
    ASSUME PInv, EInv, NEW r \in Runs, NEW reason \in Reasons \ {"none"},
           Return(r, reason), UNCHANGED <<wf, turn, memory, view>>,
           job' \in [Rollouts -> Jobs],
           \A q \in Rollouts \ {r} : job'[q] = job[q],
           view[r] = "old" => uid[wf[r]] # r,
           reason # "TIMEOUT" => ~Waits(r),
           reason \notin {"TIMEOUT", "ERROR"} =>
               pc[r] = "llm" \/ (pc[r] = "env" /\ job[r] = "ok")
    PROVE  EInv'
<1> DEFINE e == [uid |-> uid[wf[r]], steps |-> steps[wf[r]],
                 acted |-> acted[wf[r]], reason |-> reason]
<1>1. /\ pc' = [pc EXCEPT ![r] = "done"]
      /\ episode' = [episode EXCEPT ![r] = e]
  BY DEF Return, Settle
<1>2. r \in Rollouts /\ InRun(r) /\ wf[r] \in Workflows /\ Sound(r)
  BY DEF Runs, PInv, EInv
<1>3. e \in [uid : Rollouts \cup {Unset}, steps : Seq(Rollouts),
             acted : SUBSET Rollouts, reason : Reasons]
  BY <1>2 DEF EInv, ETypes
<1>4. ETypes'
  BY <1>1, <1>2, <1>3 DEF EInv, ETypes, memory
<1>5. ASSUME NEW q \in Rollouts, q # r PROVE Sound(q)'
  <2>1. pc'[q] = pc[q] /\ episode'[q] = episode[q]
    BY <1>1, <1>2, <1>5 DEF PInv, PTypes, EInv, ETypes
  <2>2. QED
    BY <1>5, <2>1, OthersAlone DEF memory
<1>6. pc'[r] = "done" /\ episode'[r] = e
  BY <1>1, <1>2 DEF PInv, PTypes, EInv, ETypes
<1>7. Good(r)'
  <2>1. view[r] = "own" => Own(r)
    BY <1>2 DEF Sound
  <2>2. view[r] = "old" => reason = "TIMEOUT" /\ e.uid # r
    BY <1>2 DEF Sound
  <2>3. DOMAIN e.steps = 1..Len(e.steps)
    BY <1>3
  <2>4. view[r] = "own" =>
            /\ e.uid = r
            /\ \A i \in DOMAIN e.steps : e.steps[i] = r
            /\ reason \notin {"TIMEOUT", "ERROR"} =>
                  /\ Len(e.steps) = turn[r]
                  /\ e.acted = IF turn[r] = 0 THEN {} ELSE {r}
    <3>1. turn[r] > 0 => turn[r] # 0
      BY <1>2 DEF EInv, ETypes
    <3>2. QED
      BY <2>1, <2>3, <3>1 DEF Own
  <2>5. QED
    BY <1>6, <2>2, <2>4 DEF Good
<1>8. Sound(r)'
  BY <1>6, <1>7 DEF Sound, InRun
<1>9. QED
  BY <1>4, <1>5, <1>8 DEF EInv

\* A rollout ends with an exception.
LEMMA RaiseSound ==
    ASSUME PInv, EInv, NEW r \in Runs, Settle(r, "raised"),
           UNCHANGED <<wf, turn, episode, memory, view>>,
           job' \in [Rollouts -> Jobs],
           \A q \in Rollouts \ {r} : job'[q] = job[q]
    PROVE  EInv'
<1>1. pc' = [pc EXCEPT ![r] = "raised"] /\ r \in Rollouts
  BY DEF Settle, Runs
<1>2. ETypes'
  BY DEF EInv, ETypes, memory
<1>3. ASSUME NEW q \in Rollouts, q # r PROVE Sound(q)'
  <2>1. pc'[q] = pc[q]
    BY <1>1, <1>3 DEF PInv, PTypes
  <2>2. QED
    BY <1>3, <2>1, OthersAlone DEF memory
<1>4. pc'[r] = "raised"
  BY <1>1 DEF PInv, PTypes
<1>5. Sound(r)'
  BY <1>4 DEF Sound, InRun, Good
<1>6. QED
  BY <1>2, <1>3, <1>5 DEF EInv

\* A rollout takes a workflow and asks for its reset.
LEMMA TakeSound ==
    ASSUME PInv, EInv, NEW r \in Rollouts, Take(r)
    PROVE  EInv'
<1>1. /\ pc[r] = "queue" /\ pc' = [pc EXCEPT ![r] = "reset"]
      /\ wf' = [wf EXCEPT ![r] = Head(pool)]
      /\ job' = [job EXCEPT ![r] = "wantReset"]
      /\ UNCHANGED <<turn, episode, memory, view>>
  BY DEF Take, Submit
<1>2. ETypes'
  BY <1>1 DEF EInv, ETypes, memory, Jobs
<1>3. ASSUME NEW q \in Rollouts, q # r PROVE Sound(q)'
  <2>1. pc'[q] = pc[q] /\ wf'[q] = wf[q] /\ job'[q] = job[q]
    BY <1>1, <1>3 DEF PInv, PTypes, EInv, ETypes
  <2>2. QED
    BY <1>1, <1>3, <2>1, LeftAlone DEF EInv, memory
<1>4. /\ pc'[r] = "reset" /\ job'[r] = "wantReset"
      /\ view'[r] = "old"
  BY <1>1 DEF PInv, PTypes, EInv, ETypes, Sound
<1>5. Sound(r)'
  BY <1>4 DEF Sound, JobFits, Waits, Good
<1>6. QED
  BY <1>2, <1>3, <1>5 DEF EInv

\* The reset is answered: the first turn, on a workflow without a trace of
\* anyone else.
LEMMA ResetDoneSound ==
    ASSUME PInv, EInv, NEW r \in Rollouts, ResetDone(r)
    PROVE  EInv'
<1>1. /\ pc[r] = "reset" /\ pc' = [pc EXCEPT ![r] = "llm"]
      /\ job[r] = "ok" /\ job' = [job EXCEPT ![r] = "none"]
      /\ turn' = [turn EXCEPT ![r] = 0]
      /\ UNCHANGED <<wf, episode, memory, view>>
  BY DEF ResetDone
<1>2. ETypes'
  BY <1>1 DEF EInv, ETypes, memory, Jobs
<1>3. ASSUME NEW q \in Rollouts, q # r PROVE Sound(q)'
  <2>1. pc'[q] = pc[q] /\ turn'[q] = turn[q] /\ job'[q] = job[q]
    BY <1>1, <1>3 DEF PInv, PTypes, EInv, ETypes
  <2>2. QED
    BY <1>1, <1>3, <2>1, LeftAlone DEF EInv, memory
<1>4. pc'[r] = "llm" /\ job'[r] = "none" /\ turn'[r] = 0
  BY <1>1 DEF PInv, PTypes, EInv, ETypes
<1>5. view[r] # "old" /\ (view[r] = "own" => Own(r))
  BY <1>1 DEF EInv, Sound, InRun, Waits
<1>6. view'[r] = "own" => Own(r)'
  BY <1>1, <1>4, <1>5 DEF Own, memory
<1>7. Sound(r)'
  BY <1>1, <1>4, <1>5, <1>6 DEF Sound, JobFits, Good
<1>8. QED
  BY <1>2, <1>3, <1>7 DEF EInv

\* The model answers: one step more, and the env is asked.
LEMMA ModelAnswersSound ==
    ASSUME PInv, EInv, NEW r \in Rollouts, ModelAnswers(r)
    PROVE  EInv'
<1> DEFINE w == wf[r]
<1>1. /\ pc[r] = "llm" /\ pc' = [pc EXCEPT ![r] = "env"]
      /\ job' = [job EXCEPT ![r] = "wantStep"]
      /\ turn' = [turn EXCEPT ![r] = @ + 1]
      /\ steps' = [steps EXCEPT ![w] = Append(@, r)]
      /\ UNCHANGED <<wf, episode, uid, acted, view>>
  BY DEF ModelAnswers, Submit
<1>2. r \in Runs /\ w \in Workflows /\ Sound(r)
  BY <1>1 DEF Runs, InRun, PInv, EInv
<1>3. /\ steps[w] \in Seq(Rollouts)
      /\ Append(steps[w], r) \in Seq(Rollouts)
      /\ Len(Append(steps[w], r)) = Len(steps[w]) + 1
      /\ \A i \in 1..Len(steps[w]) : Append(steps[w], r)[i] = steps[w][i]
      /\ Append(steps[w], r)[Len(steps[w]) + 1] = r
  <2>1. steps[w] \in Seq(Rollouts)
    BY <1>2 DEF EInv, ETypes
  <2>2. QED
    BY <2>1, AppendFacts
<1>4. ETypes'
  <2>1. steps' \in [Workflows -> Seq(Rollouts)]
    BY <1>1, <1>2, <1>3 DEF EInv, ETypes
  <2>2. turn' \in [Rollouts -> Nat] /\ job' \in [Rollouts -> Jobs]
    BY <1>1 DEF EInv, ETypes, Jobs
  <2>3. QED
    BY <1>1, <2>1, <2>2 DEF EInv, ETypes
<1>5. ASSUME NEW q \in Rollouts, q # r PROVE Sound(q)'
  <2>1. /\ pc'[q] = pc[q] /\ turn'[q] = turn[q] /\ job'[q] = job[q]
    BY <1>1, <1>5 DEF PInv, PTypes, EInv, ETypes
  <2>2. \A v \in Workflows \ {w} : steps'[v] = steps[v]
    BY <1>1 DEF EInv, ETypes
  <2>3. QED
    BY <1>1, <1>2, <1>5, <2>1, <2>2, OthersAlone
<1>6. /\ pc'[r] = "env" /\ job'[r] = "wantStep"
      /\ turn'[r] = turn[r] + 1 /\ turn[r] \in Nat
      /\ steps'[w] = Append(steps[w], r)
  BY <1>1, <1>2 DEF PInv, PTypes, EInv, ETypes
<1>7. view[r] # "old" /\ (view[r] = "own" => Own(r))
  BY <1>1, <1>2 DEF Sound, InRun, Waits
<1>8. view[r] = "own" => Own(r)'
  <2> SUFFICES ASSUME view[r] = "own" PROVE Own(r)'
    OBVIOUS
  <2>1. /\ uid[w] = r /\ Len(steps[w]) = turn[r]
        /\ \A i \in 1..Len(steps[w]) : steps[w][i] = r
        /\ acted[w] \subseteq {r}
    BY <1>1, <1>7 DEF Own
  <2>2. \A i \in 1..Len(steps'[w]) : steps'[w][i] = r
    BY <1>3, <1>6, <2>1
  <2>3. Len(steps'[w]) = turn'[r] /\ turn'[r] > 0
    BY <1>3, <1>6, <2>1
  <2>4. QED
    BY <1>1, <1>6, <2>1, <2>2, <2>3 DEF Own
<1>9. Sound(r)'
  BY <1>1, <1>6, <1>7, <1>8 DEF Sound, JobFits, Good
<1>10. QED
  BY <1>4, <1>5, <1>9 DEF EInv

\* A rollout in its run with an old view has another's uid.
LEMMA OldUid ==
    ASSUME PInv, UInv, NEW r \in Runs
    PROVE  view[r] = "old" => uid[wf[r]] # r
  BY DEF UInv, Unseen, PInv, Runs, InRun

\* The engine refuses the prompt: the episode so far.
LEMMA PromptTooLongSound ==
    ASSUME PInv, EInv, UInv, NEW r \in Rollouts, PromptTooLong(r)
    PROVE  EInv'
<1>1. /\ pc[r] = "llm" /\ Return(r, "MAX_PROMPT_LENGTH_EXCEEDED")
      /\ UNCHANGED <<wf, turn, memory, view>> /\ job' = job
  BY DEF PromptTooLong, jobVars
<1>2. r \in Runs /\ ~Waits(r)
  BY <1>1 DEF Runs, InRun, Waits
<1>3. /\ job' \in [Rollouts -> Jobs]
      /\ \A q \in Rollouts \ {r} : job'[q] = job[q]
  BY <1>1 DEF EInv, ETypes
<1>4. "MAX_PROMPT_LENGTH_EXCEEDED" \in Reasons \ {"none"}
  BY DEF Reasons
<1>5. QED
  BY <1>1, <1>2, <1>3, <1>4, OldUid, ReturnSound

\* The env has answered: another turn, or the episode.
LEMMA StepDoneSound ==
    ASSUME PInv, EInv, UInv, NEW r \in Rollouts, StepDone(r)
    PROVE  EInv'
<1>1. /\ pc[r] = "env" /\ job[r] = "ok"
      /\ job' = [job EXCEPT ![r] = "none"]
      /\ UNCHANGED <<wf, turn, memory, view>>
  BY DEF StepDone
<1>2. r \in Runs /\ Sound(r)
  BY <1>1 DEF Runs, InRun, EInv
<1>3. /\ job' \in [Rollouts -> Jobs] /\ job'[r] = "none"
      /\ \A q \in Rollouts \ {r} : job'[q] = job[q]
  BY <1>1 DEF EInv, ETypes, Jobs
<1>4. \/ pc' = [pc EXCEPT ![r] = "llm"] /\ episode' = episode
      \/ Return(r, "MAX_TURNS_EXCEEDED")
      \/ Return(r, "ENV_DONE")
  BY DEF StepDone
<1>5. CASE pc' = [pc EXCEPT ![r] = "llm"] /\ episode' = episode
  <2>1. ETypes'
    BY <1>1, <1>3, <1>5 DEF EInv, ETypes, memory
  <2>2. ASSUME NEW q \in Rollouts, q # r PROVE Sound(q)'
    <3>1. pc'[q] = pc[q]
      BY <1>5, <2>2 DEF PInv, PTypes
    <3>2. QED
      BY <1>1, <1>2, <1>3, <1>5, <2>2, <3>1, OthersAlone DEF memory
  <2>3. pc'[r] = "llm"
    BY <1>5 DEF PInv, PTypes
  <2>4. view[r] # "old" /\ (view[r] = "own" => Own(r))
    BY <1>1, <1>2 DEF Sound, InRun, Waits
  <2>5. view'[r] = "own" => Own(r)'
    <3> SUFFICES ASSUME view'[r] = "own" PROVE Own(r)'
      OBVIOUS
    <3> DEFINE w == wf[r]
    <3>1. UNCHANGED <<wf, turn, uid, steps, acted>>
      BY <1>1 DEF memory
    <3>2. /\ uid[w] = r /\ \A i \in 1..Len(steps[w]) : steps[w][i] = r
          /\ Len(steps[w]) = turn[r] /\ turn[r] > 0 /\ acted[w] = {r}
      BY <1>1, <2>4 DEF Own
    <3>3. turn[r] # 0
      BY <3>2 DEF EInv, ETypes
    <3>4. QED
      BY <1>3, <2>3, <3>1, <3>2, <3>3 DEF Own
  <2>6. Sound(r)'
    BY <1>1, <1>3, <2>3, <2>4, <2>5 DEF Sound, JobFits, Good
  <2>7. QED
    BY <2>1, <2>2, <2>6 DEF EInv
<1>6. CASE Return(r, "MAX_TURNS_EXCEEDED") \/ Return(r, "ENV_DONE")
  <2>1. /\ "MAX_TURNS_EXCEEDED" \in Reasons \ {"none"}
        /\ "ENV_DONE" \in Reasons \ {"none"}
        /\ ~Waits(r)
    BY <1>1 DEF Reasons, Waits
  <2>2. QED
    BY <1>1, <1>2, <1>3, <1>6, <2>1, OldUid, ReturnSound
<1>7. QED
  BY <1>4, <1>5, <1>6

\* A run raises: the next attempt waits for a reset of its own, on a workflow
\* that still shows no other rollout; or that was the last.
LEMMA RunFailsSound ==
    ASSUME PInv, EInv, UInv, NEW r \in Rollouts, RunFails(r)
    PROVE  EInv'
<1>1. /\ \/ pc[r] = "llm"
         \/ pc[r] \in {"reset", "env"} /\ job[r] = "failed"
      /\ UNCHANGED <<wf, turn, memory, view>>
      /\ Fail(r)
  BY DEF RunFails
<1>2. r \in Runs /\ Sound(r)
  BY <1>1 DEF Runs, InRun, EInv
<1>3. \/ /\ pc' = [pc EXCEPT ![r] = "reset"]
         /\ job' = [job EXCEPT ![r] = "wantReset"]
         /\ episode' = episode
      \/ /\ Settle(r, "raised") /\ episode' = episode
         /\ job' = [job EXCEPT ![r] = "none"]
      \/ Return(r, "ERROR") /\ job' = [job EXCEPT ![r] = "none"]
  BY <1>1 DEF Fail, Submit
<1>4. /\ job' \in [Rollouts -> Jobs]
      /\ \A q \in Rollouts \ {r} : job'[q] = job[q]
  BY <1>3 DEF EInv, ETypes, Jobs
<1>5. CASE /\ pc' = [pc EXCEPT ![r] = "reset"]
           /\ job' = [job EXCEPT ![r] = "wantReset"]
           /\ episode' = episode
  <2>1. ETypes'
    BY <1>1, <1>4, <1>5 DEF EInv, ETypes, memory
  <2>2. ASSUME NEW q \in Rollouts, q # r PROVE Sound(q)'
    <3>1. pc'[q] = pc[q]
      BY <1>5, <2>2 DEF PInv, PTypes
    <3>2. QED
      BY <1>1, <1>2, <1>4, <1>5, <2>2, <3>1, OthersAlone DEF memory
  <2>3. pc'[r] = "reset" /\ job'[r] = "wantReset"
    BY <1>5 DEF PInv, PTypes, EInv, ETypes
  <2>4. view[r] # "old" /\ (view[r] = "own" => Own(r))
    BY <1>1, <1>2 DEF Sound, InRun, Waits
  <2>5. view'[r] = "own" => Own(r)'
    BY <1>1, <2>3, <2>4 DEF Own, memory
  <2>6. Sound(r)'
    BY <1>1, <2>3, <2>4, <2>5 DEF Sound, JobFits, Good
  <2>7. QED
    BY <2>1, <2>2, <2>6 DEF EInv
<1>6. CASE Settle(r, "raised") /\ episode' = episode
  BY <1>1, <1>2, <1>4, <1>6, RaiseSound
<1>7. CASE Return(r, "ERROR")
  <2>1. "ERROR" \in Reasons \ {"none"} /\ ~Waits(r)
    BY <1>1 DEF Reasons, Waits
  <2>2. QED
    BY <1>1, <1>2, <1>4, <1>7, <2>1, OldUid, ReturnSound
<1>8. QED
  BY <1>3, <1>5, <1>6, <1>7

\* The timeout takes what the workflow holds at this moment.
LEMMA TimeoutSound ==
    ASSUME PInv, EInv, UInv, NEW r \in Rollouts, Timeout(r)
    PROVE  EInv'
<1>1. /\ UNCHANGED <<wf, turn, memory, view>>
      /\ \/ Return(r, "TIMEOUT")
         \/ Settle(r, "raised") /\ episode' = episode
  BY DEF Timeout
<1>2. r \in Runs
  BY DEF Timeout, Runs
<1>3. /\ job' \in [Rollouts -> Jobs]
      /\ \A q \in Rollouts \ {r} : job'[q] = job[q]
  <2>1. PICK k \in Jobs : job' = [job EXCEPT ![r] = k]
    <3>1. job[r] \in Jobs /\ "none" \in Jobs
      BY DEF EInv, ETypes, Jobs
    <3>2. CASE HasThread(r)
      BY <3>1, <3>2 DEF Timeout
    <3>3. CASE ~HasThread(r)
      BY <3>1, <3>3 DEF Timeout
    <3>4. QED
      BY <3>2, <3>3
  <2>2. QED
    BY <2>1 DEF EInv, ETypes
<1>4. "TIMEOUT" \in Reasons \ {"none"}
  BY DEF Reasons
<1>5. QED
  BY <1>1, <1>2, <1>3, <1>4, OldUid, ReturnSound, RaiseSound

\* Who is in the executor's queue is a rollout.
LEMMA ThreadsStay ==
    ASSUME threads \in Seq(Rollouts), [Next]_vars
    PROVE  threads' \in Seq(Rollouts)
<1>1. CASE threads' = threads
  BY <1>1
<1>2. CASE JobStarts
  BY <1>2, TailFacts DEF JobStarts
<1>3. ASSUME NEW r \in Rollouts, Job(r) PROVE threads' = threads
  BY <1>3 DEF Job, ResetWrites, ResetEnds, StepEnds
<1>4. ASSUME NEW r \in Rollouts, Rollout(r)
      PROVE  threads' = threads \/ threads' = Append(threads, r)
  BY <1>4 DEF Rollout, Take, ResetDone, ModelAnswers, PromptTooLong,
             StepDone, RunFails, Fail, Timeout, Submit, jobVars
<1>5. CASE UNCHANGED vars
  BY <1>5 DEF vars, jobVars
<1>6. QED
  BY <1>1, <1>2, <1>3, <1>4, <1>5, AppendFacts DEF Next

\* Every step keeps what EpisodeIsOwn rests on.
LEMMA EpisodeStep ==
    ASSUME PInv, EInv, UInv, threads \in Seq(Rollouts), [Next]_vars
    PROVE  EInv'
<1>1. ASSUME NEW r \in Rollouts, Job(r) PROVE EInv'
  BY <1>1, ResetWritesSound, ResetEndsSound, StepEndsSound DEF Job
<1>2. ASSUME NEW r \in Rollouts, Rollout(r) PROVE EInv'
  BY <1>2, TakeSound, ResetDoneSound, ModelAnswersSound,
     PromptTooLongSound, StepDoneSound, RunFailsSound, TimeoutSound
     DEF Rollout
<1>3. CASE UNCHANGED vars
  <2>1. /\ UNCHANGED <<pc, wf, turn, episode, job>>
        /\ UNCHANGED <<uid, steps, acted, view>>
    BY <1>3 DEF vars, coVars, jobVars, memory
  <2>2. ETypes'
    BY <2>1 DEF EInv, ETypes
  <2>3. \A q \in Rollouts : Sound(q)'
    BY <2>1, LeftAlone DEF EInv
  <2>4. QED
    BY <2>2, <2>3 DEF EInv
<1>4. QED
  BY <1>1, <1>2, <1>3, JobStartsSound DEF Next

\* A step of one rollout, or of its job, that writes no uid.
LEMMA UnseenKept ==
    ASSUME UInv, NEW r \in Rollouts, uid' = uid,
           \A q \in Rollouts : view'[q] = "old" => view[q] = "old",
           \A q \in Rollouts \ {r} : pc'[q] = pc[q] /\ job'[q] = job[q],
           pc'[r] # "queue",
           pc'[r] = pc[r] \/ pc[r] \notin {"done", "raised"}
    PROVE  UInv'
  BY DEF UInv, Unseen

\* Every step keeps it: only a reset writes the uid.
LEMMA UnseenStep ==
    ASSUME PInv, EInv, UInv, [Next]_vars
    PROVE  UInv'
<1>1. CASE JobStarts
  <2>1. UNCHANGED <<pc, uid, view>>
    BY <1>1 DEF JobStarts, coVars, memory
  <2>2. ASSUME NEW q \in Rollouts, job[q] = "none" PROVE job'[q] = "none"
    BY <1>1, <2>2 DEF JobStarts, EInv, ETypes
  <2>3. QED
    BY <2>1, <2>2 DEF UInv, Unseen
<1>2. ASSUME NEW r \in Rollouts, Job(r) PROVE UInv'
  <2>1. /\ UNCHANGED pc
        /\ job[r] # "none"
        /\ \A q \in Rollouts \ {r} : job'[q] = job[q]
    BY <1>2 DEF Job, ResetWrites, ResetEnds, StepEnds, JobOver, coVars, EInv,
                ETypes
  <2>2. pc[r] # "queue"
    BY <2>1 DEF UInv, Unseen
  <2>3. \A q \in Rollouts : view'[q] = "old" => view[q] = "old"
    BY <1>2 DEF Job, ResetWrites, ResetEnds, StepEnds, Disturbs, EInv, ETypes
  <2>4. CASE ResetWrites(r)
    <3>1. \A w \in Workflows : uid'[w] = uid[w] \/ uid'[w] = r
      BY <2>4 DEF ResetWrites, EInv, ETypes
    <3>2. ASSUME NEW q \in Rollouts, q # r PROVE Unseen(q)'
      BY <2>1, <2>3, <3>1, <3>2 DEF UInv, Unseen
    <3>3. CASE Abandoned(r)
      <4>1. pc[r] \in {"done", "raised"}
        BY <2>2, <3>3 DEF Abandoned, InRun, PInv, PTypes, States
      <4>2. QED
        BY <2>1, <3>2, <4>1 DEF UInv, Unseen
    <3>4. CASE ~Abandoned(r)
      <4>1. view'[r] = "own"
        BY <2>4, <3>4 DEF ResetWrites, EInv, ETypes
      <4>2. QED
        BY <2>1, <2>2, <3>2, <4>1 DEF UInv, Unseen
    <3>5. QED
      BY <3>3, <3>4
  <2>5. CASE uid' = uid
    BY <2>1, <2>2, <2>3, <2>5, UnseenKept
  <2>6. QED
    BY <1>2, <2>4, <2>5 DEF Job, ResetEnds, StepEnds
<1>3. ASSUME NEW r \in Rollouts, Rollout(r) PROVE UInv'
  <2>1. UNCHANGED <<uid, view>> /\ pc[r] \notin {"done", "raised"}
    BY <1>3 DEF Rollout, Take, ResetDone, ModelAnswers, PromptTooLong,
                StepDone, RunFails, Timeout, InRun, memory
  <2>2. \E to \in States \ {"queue"} : pc' = [pc EXCEPT ![r] = to]
    BY <1>3 DEF Rollout, Take, ResetDone, ModelAnswers, PromptTooLong,
                StepDone, RunFails, Fail, Timeout, Return, Settle, States
  <2>3. \A q \in Rollouts \ {r} : job'[q] = job[q]
    BY <1>3 DEF Rollout, Take, ResetDone, ModelAnswers, PromptTooLong,
                StepDone, RunFails, Fail, Timeout, Submit, jobVars, EInv,
                ETypes
  <2>4. QED
    BY <2>1, <2>2, <2>3, UnseenKept DEF PInv, PTypes
<1>4. CASE UNCHANGED vars
  BY <1>4 DEF vars, coVars, jobVars, memory, UInv, Unseen
<1>5. QED
  BY <1>1, <1>2, <1>3, <1>4 DEF Next

\* The batch as numbers.
LEMMA BatchFacts ==
    /\ Len(TaskIds) \in Nat /\ Rollouts = 1..Len(TaskIds)
    /\ \A i \in Rollouts : TaskIds[i] \in Nat
    /\ \A i, j \in Rollouts : i <= j => TaskIds[i] <= TaskIds[j]
  BY DEF Rollouts

\* No rollout has begun.
LEMMA EpisodeInit ==
    ASSUME Init
    PROVE  EInv /\ UInv /\ threads \in Seq(Rollouts)
<1>1. <<>> \in Seq(Rollouts)
  OBVIOUS
<1>2. ETypes
  <2>1. NoEpisode \in [uid : Rollouts \cup {Unset}, steps : Seq(Rollouts),
                       acted : SUBSET Rollouts, reason : Reasons]
    BY <1>1 DEF NoEpisode, Reasons
  <2>2. QED
    BY <1>1, <2>1 DEF Init, ETypes, Views, Jobs
<1>3. \A r \in Rollouts : Sound(r)
  BY DEF Init, Sound, InRun, Good
<1>4. UInv
  BY BatchFacts DEF Init, UInv, Unseen
<1>5. QED
  BY <1>1, <1>2, <1>3, <1>4 DEF Init, EInv

\* However many rollouts used the workflow before, timed out on it or failed
\* on it: an episode after whose reset no job that was left running touched
\* the workflow has the uid, the steps and the env actions of its own rollout;
\* one of a rollout that never saw its reset is a TIMEOUT under the uid of
\* another (workflow.py:78, 190, 224).
THEOREM EpisodesAreOwn == Spec => []EpisodeIsOwn
<1> DEFINE I == PInv /\ EInv /\ UInv /\ threads \in Seq(Rollouts)
<1>1. Init => I
  BY PoolInit, EpisodeInit
<1>2. I /\ [Next]_vars => I'
  BY PoolStep, EpisodeStep, UnseenStep, ThreadsStay
<1>3. I => EpisodeIsOwn
  BY DEF EInv, Sound, Good, EpisodeIsOwn
<1>4. QED
  BY <1>1, <1>2, <1>3, PTL DEF Spec

-------------------------------------------------------------------------------
(* Types *)

\* Attempts and turns stay within their limits: a rollout that waits for the
\* model has a turn left.
Bounds ==
    /\ attempt \in [Rollouts -> 0..RetryLimit]
    /\ turn \in [Rollouts -> 0..MaxSteps]
    /\ \A r \in Rollouts : pc[r] = "llm" => turn[r] < MaxSteps

\* The limits as numbers.
LEMMA Limits ==
    /\ RetryLimit \in Nat \ {0} /\ MaxSteps \in Nat \ {0}
    /\ {0, 1} \subseteq 0..RetryLimit /\ 0 \in 0..MaxSteps
    /\ \A n \in 0..RetryLimit : n < RetryLimit => n + 1 \in 0..RetryLimit
    /\ \A n \in 0..MaxSteps : n < MaxSteps => n + 1 \in 0..MaxSteps
    /\ \A n \in 0..MaxSteps : n # MaxSteps => n < MaxSteps
  OBVIOUS

\* A step that changes the attempts of one rollout within the limit, no turn,
\* and sends nobody to the model.
LEMMA BoundsKept ==
    ASSUME PInv, Bounds, NEW r \in Rollouts, NEW n \in 0..RetryLimit,
           NEW to \in States \ {"llm"},
           attempt' = [attempt EXCEPT ![r] = n] \/ attempt' = attempt,
           pc' = [pc EXCEPT ![r] = to] \/ pc' = pc, turn' = turn
    PROVE  Bounds'
<1>1. attempt' \in [Rollouts -> 0..RetryLimit]
  BY DEF Bounds
<1>2. ASSUME NEW q \in Rollouts, pc'[q] = "llm"
      PROVE  pc[q] = "llm"
  BY <1>2 DEF PInv, PTypes
<1>3. QED
  BY <1>1, <1>2 DEF Bounds

\* Every step keeps the bounds.
LEMMA BoundsStep ==
    ASSUME PInv, Bounds, [Next]_vars
    PROVE  Bounds'
<1>1. ASSUME UNCHANGED <<pc, attempt, turn>> PROVE Bounds'
  BY <1>1 DEF Bounds
<1>2. ASSUME JobStarts \/ \E r \in Rollouts : Job(r) PROVE Bounds'
  BY <1>1, <1>2 DEF JobStarts, Job, ResetWrites, ResetEnds, StepEnds, coVars
<1>3. ASSUME NEW r \in Rollouts, Rollout(r) PROVE Bounds'
  <2>1. {"reset", "env", "done", "raised"} \subseteq States \ {"llm"}
    BY DEF States
  <2>2. CASE Take(r)
    BY <2>1, <2>2, BoundsKept, Limits DEF Take
  <2>3. CASE ResetDone(r)
    <3>1. /\ pc' = [pc EXCEPT ![r] = "llm"] /\ turn' = [turn EXCEPT ![r] = 0]
          /\ attempt' = attempt
      BY <2>3 DEF ResetDone
    <3>2. QED
      BY <3>1, Limits DEF Bounds, PInv, PTypes
  <2>4. CASE ModelAnswers(r)
    <3>1. /\ pc[r] = "llm" /\ pc' = [pc EXCEPT ![r] = "env"]
          /\ turn' = [turn EXCEPT ![r] = @ + 1] /\ attempt' = attempt
      BY <2>4 DEF ModelAnswers
    <3>2. turn[r] \in 0..MaxSteps /\ turn[r] < MaxSteps
      BY <3>1 DEF Bounds
    <3>3. turn[r] + 1 \in 0..MaxSteps
      BY <3>2, Limits
    <3>4. QED
      BY <3>1, <3>3 DEF Bounds, PInv, PTypes
  <2>5. CASE StepDone(r)
    <3>1. turn' = turn
      BY <2>5 DEF StepDone
    <3>2. \/ /\ pc' = [pc EXCEPT ![r] = "llm"] /\ turn[r] < MaxSteps
             /\ attempt' = attempt
          \/ Settle(r, "done")
      BY <2>5 DEF StepDone, Return
    <3>3. CASE /\ pc' = [pc EXCEPT ![r] = "llm"] /\ turn[r] < MaxSteps
               /\ attempt' = attempt
      BY <3>1, <3>3 DEF Bounds, PInv, PTypes
    <3>4. CASE Settle(r, "done")
      BY <2>1, <3>1, <3>4, BoundsKept, Limits DEF Settle
    <3>5. QED
      BY <3>2, <3>3, <3>4
  <2>6. CASE RunFails(r)
    <3>1. turn' = turn /\ Fail(r)
      BY <2>6 DEF RunFails
    <3>2. CASE attempt[r] < RetryLimit
      <4>1. /\ attempt' = [attempt EXCEPT ![r] = attempt[r] + 1]
            /\ pc' = [pc EXCEPT ![r] = "reset"]
        BY <3>1, <3>2 DEF Fail
      <4>2. attempt[r] + 1 \in 0..RetryLimit
        BY <3>2, Limits DEF Bounds
      <4>3. QED
        BY <2>1, <3>1, <4>1, <4>2, BoundsKept
    <3>3. CASE ~(attempt[r] < RetryLimit)
      BY <2>1, <3>1, <3>3, BoundsKept, Limits DEF Fail, Settle, Return
    <3>4. QED
      BY <3>2, <3>3
  <2>7. CASE Timeout(r)
    <3>1. turn' = turn /\ \E how \in {"done", "raised"} : Settle(r, how)
      BY <2>7 DEF Timeout, Return
    <3>2. QED
      BY <2>1, <3>1, BoundsKept, Limits DEF Settle
  <2>8. CASE PromptTooLong(r)
    BY <2>1, <2>8, BoundsKept, Limits DEF PromptTooLong, Return, Settle
  <2>9. QED
    BY <1>3, <2>2, <2>3, <2>4, <2>5, <2>6, <2>7, <2>8 DEF Rollout
<1>4. CASE UNCHANGED vars
  BY <1>1, <1>4 DEF vars, coVars
<1>5. QED
  BY <1>2, <1>3, <1>4 DEF Next

-------------------------------------------------------------------------------
(* The order in which the rollouts ended *)

Ended == {r \in Rollouts : pc[r] \in {"done", "raised"}}

\* Every rollout that ended stands in settled, once.
SInv ==
    /\ settled \in Seq(Rollouts)
    /\ Once(settled)
    /\ ToSet(settled) = Ended

\* A step that moves a rollout which has not ended, and does not end it.
LEMMA SettledKept ==
    ASSUME PInv, SInv, NEW r \in Rollouts \ Ended, NEW to,
           to \in {"reset", "llm", "env"},
           pc' = [pc EXCEPT ![r] = to], settled' = settled
    PROVE  SInv'
<1>1. Ended' = Ended
  BY DEF Ended, PInv, PTypes
<1>2. QED
  BY <1>1 DEF SInv

\* A rollout in its run ends.
LEMMA SettledGrows ==
    ASSUME PInv, SInv, NEW r \in Runs, NEW how \in {"done", "raised"},
           Settle(r, how)
    PROVE  SInv'
<1>1. /\ pc' = [pc EXCEPT ![r] = how] /\ settled' = Append(settled, r)
      /\ r \in Rollouts \ Ended
  BY DEF Settle, Runs, InRun, Ended
<1>2. Ended' = Ended \cup {r}
  BY <1>1 DEF Ended, PInv, PTypes
<1>3. QED
  BY <1>1, <1>2, AppendElements DEF SInv

\* Every step keeps what settled says.
LEMMA SettledStep ==
    ASSUME PInv, SInv, [Next]_vars
    PROVE  SInv'
<1>1. ASSUME UNCHANGED <<pc, settled>> PROVE SInv'
  BY <1>1 DEF SInv, Ended
<1>2. ASSUME JobStarts \/ \E r \in Rollouts : Job(r) PROVE SInv'
  BY <1>1, <1>2 DEF JobStarts, Job, ResetWrites, ResetEnds, StepEnds, coVars
<1>3. ASSUME NEW r \in Rollouts, Rollout(r) PROVE SInv'
  <2>1. r \in Rollouts \ Ended /\ (Take(r) \/ r \in Runs)
    BY <1>3 DEF Rollout, Take, ResetDone, ModelAnswers, PromptTooLong,
                StepDone, RunFails, Timeout, Runs, InRun, Ended
  <2>2. CASE Take(r) \/ ResetDone(r) \/ ModelAnswers(r)
    BY <2>1, <2>2, SettledKept DEF Take, ResetDone, ModelAnswers
  <2>3. CASE StepDone(r)
    <3>1. \/ pc' = [pc EXCEPT ![r] = "llm"] /\ settled' = settled
          \/ Settle(r, "done")
      BY <2>3 DEF StepDone, Return
    <3>2. QED
      BY <2>1, <2>3, <3>1, SettledKept, SettledGrows DEF StepDone, Take
  <2>4. CASE RunFails(r)
    <3>1. \/ pc' = [pc EXCEPT ![r] = "reset"] /\ settled' = settled
          \/ Settle(r, "raised") \/ Settle(r, "done")
      BY <2>4 DEF RunFails, Fail, Return
    <3>2. r \in Runs
      BY <2>4 DEF RunFails, Runs, InRun
    <3>3. QED
      BY <2>1, <3>1, <3>2, SettledKept, SettledGrows
  <2>5. CASE Timeout(r)
    <3>1. r \in Runs /\ \E how \in {"done", "raised"} : Settle(r, how)
      BY <2>5 DEF Timeout, Return, Runs
    <3>2. QED
      BY <3>1, SettledGrows
  <2>6. CASE PromptTooLong(r)
    <3>1. r \in Runs /\ Settle(r, "done")
      BY <2>6 DEF PromptTooLong, Return, Runs, InRun
    <3>2. QED
      BY <3>1, SettledGrows
  <2>7. QED
    BY <1>3, <2>2, <2>3, <2>4, <2>5, <2>6 DEF Rollout
<1>4. CASE UNCHANGED vars
  BY <1>1, <1>4 DEF vars, coVars
<1>5. QED
  BY <1>2, <1>3, <1>4 DEF Next

-------------------------------------------------------------------------------
\* The invariant of a batch, what the other theorems rest on.
Inv ==
    /\ PInv /\ EInv /\ UInv /\ Bounds /\ SInv
    /\ threads \in Seq(Rollouts)

\* It holds in every reachable state: where each workflow is, what a rollout
\* finds in its own, and who ended when, for any batch and any failures.
THEOREM PoolInvariance == Spec => []Inv
<1>1. ASSUME Init PROVE Bounds /\ SInv
  <2>1. Bounds
    BY <1>1, Limits DEF Init, Bounds
  <2>2. settled = <<>> /\ Ended = {} /\ ToSet(settled) = {}
    BY <1>1 DEF Init, Ended, ToSet
  <2>3. SInv
    BY <2>2 DEF SInv, Once
  <2>4. QED
    BY <2>1, <2>3
<1>2. Init => Inv
  BY <1>1, PoolInit, EpisodeInit DEF Inv
<1>3. Inv /\ [Next]_vars => Inv'
  BY PoolStep, EpisodeStep, UnseenStep, ThreadsStay, BoundsStep, SettledStep
     DEF Inv
<1>4. QED
  BY <1>2, <1>3, PTL DEF Spec

\* Attempts, turns, jobs, episodes and queues have their types, whatever
\* raises, times out or is retried.
THEOREM TypesHold == Spec => []TypeOK
<1>1. Inv => TypeOK
  BY DEF Inv, PInv, PTypes, EInv, ETypes, Bounds, SInv, TypeOK, States, Jobs,
         Reasons, Views
<1>2. QED
  BY <1>1, PoolInvariance, PTL

-------------------------------------------------------------------------------
(* The rows of the training batch *)

\* The rollouts of the task of rollout i.
TaskOf(i) == {r \in Rollouts : TaskIds[r] = TaskIds[i]}

\* The rollouts whose task the batch has not named before.
Heads == {i \in Rollouts : \A k \in 1..(i - 1) : TaskIds[k] # TaskIds[i]}

\* One of them has the task of each rollout, and no two have the same.
LEMMA HeadsOfTasks ==
    /\ \A r \in Rollouts : \E i \in Heads : TaskIds[i] = TaskIds[r]
    /\ \A i, j \in Heads : TaskIds[i] = TaskIds[j] => i = j
<1>1. PICK n \in Nat : n = Len(TaskIds) /\ Rollouts = 1..n
  BY BatchFacts
<1>2. ASSUME NEW r \in Rollouts
      PROVE  \E i \in Heads : TaskIds[i] = TaskIds[r]
  <2>1. r \in TaskOf(r) /\ TaskOf(r) \subseteq Nat
    BY <1>1 DEF TaskOf
  <2>2. PICK i \in TaskOf(r) : \A y \in TaskOf(r) : i <= y
    BY <2>1, LeastNat
  <2>3. i \in 1..n /\ TaskIds[i] = TaskIds[r]
    BY <1>1, <2>2 DEF TaskOf
  <2>4. ASSUME NEW k \in 1..(i - 1), TaskIds[k] = TaskIds[i] PROVE FALSE
    <3>1. k \in 1..n /\ ~(i <= k)
      BY <2>3
    <3>2. k \in TaskOf(r)
      BY <1>1, <2>3, <2>4, <3>1 DEF TaskOf
    <3>3. QED
      BY <2>2, <3>1, <3>2
  <2>5. i \in Heads
    BY <1>1, <2>3, <2>4 DEF Heads
  <2>6. QED
    BY <2>3, <2>5
<1>3. ASSUME NEW i \in Heads, NEW j \in Heads, TaskIds[i] = TaskIds[j]
      PROVE  i = j
  <2>1. i \in 1..n /\ j \in 1..n
    BY <1>1 DEF Heads
  <2>2. ~(i < j)
    <3>1. i < j => i \in 1..(j - 1)
      BY <2>1
    <3>2. QED
      BY <1>3, <3>1 DEF Heads
  <2>3. ~(j < i)
    <3>1. j < i => j \in 1..(i - 1)
      BY <2>1
    <3>2. QED
      BY <1>3, <3>1 DEF Heads
  <2>4. QED
    BY <2>1, <2>2, <2>3
<1>4. QED
  BY <1>2, <1>3

\* The tasks in the order of the batch, by the rollout each begins with.
LEMMA StartsFacts ==
    ASSUME NEW ids, ids = [i \in Rollouts |-> i],
           NEW starts, starts = Select(ids, Heads)
    PROVE  /\ starts \in Seq(Rollouts)
           /\ ToSet(starts) = Heads
           /\ Once(starts)
           /\ Sorted(starts, TaskIds)
<1>1. PICK n \in Nat : n = Len(TaskIds) /\ Rollouts = 1..n
  BY BatchFacts
<1>2. /\ ids \in Seq(Rollouts) /\ Len(ids) = n
      /\ \A i \in 1..n : ids[i] = i
  BY <1>1
<1>3. ToSet(ids) = Rollouts
  BY <1>1, <1>2 DEF ToSet
<1>4. Once(ids)
  BY <1>2 DEF Once
<1>5. Sorted(ids, TaskIds)
  BY <1>1, <1>2, BatchFacts DEF Sorted
<1>6. Heads \subseteq Rollouts
  BY DEF Heads
<1>7. starts \in Seq(Rollouts)
  BY <1>2, SelectPlaces
<1>8. ToSet(starts) = Rollouts \cap Heads
  BY <1>2, <1>3, SelectElements
<1>9. Once(starts)
  BY <1>2, <1>4, SelectOnce
<1>10. Sorted(starts, TaskIds)
  BY <1>2, <1>5, SelectSorted
<1>11. QED
  BY <1>6, <1>7, <1>8, <1>9, <1>10

\* When all rollouts have ended, the episodes are one for each rollout, and
\* at each position of the batch there is one of the task of that position.
LEMMA ResultsAligned ==
    ASSUME SInv, Ended = Rollouts
    PROVE  /\ Results \in Seq(Rollouts)
           /\ Len(Results) = Len(TaskIds)
           /\ \A i \in Rollouts : TaskIds[Results[i]] = TaskIds[i]
<1> DEFINE ids    == [i \in Rollouts |-> i]
           starts == Select(ids, Heads)
           of(i)  == Select(settled, TaskOf(i))
           ss     == [k \in DOMAIN starts |-> of(starts[k])]
<1>1. Results = FlattenSeq(ss)
  BY DEF Results, Heads, TaskOf
<1>2. /\ settled \in Seq(Rollouts) /\ Once(settled)
      /\ ToSet(settled) = Rollouts
  BY DEF SInv
<1> HIDE DEF ids
<1>3. /\ starts \in Seq(Rollouts)
      /\ ToSet(starts) = Heads
      /\ Once(starts)
      /\ Sorted(starts, TaskIds)
  BY StartsFacts DEF ids
<1> HIDE DEF starts
<1>4. PICK m \in Nat : m = Len(starts) /\ DOMAIN starts = 1..m
  BY <1>3
<1>5. \A k \in 1..m : starts[k] \in Rollouts /\ starts[k] \in Heads
  BY <1>3, <1>4, Elements DEF Heads
<1>6. ASSUME NEW i \in Rollouts
      PROVE  /\ of(i) \in Seq(Rollouts)
             /\ ToSet(of(i)) = TaskOf(i)
             /\ Once(of(i))
  <2>1. of(i) \in Seq(Rollouts)
    BY <1>2, SelectPlaces
  <2>2. ToSet(of(i)) = Rollouts \cap TaskOf(i)
    BY <1>2, SelectElements
  <2>3. Once(of(i))
    BY <1>2, SelectOnce
  <2>4. TaskOf(i) \subseteq Rollouts
    BY DEF TaskOf
  <2>5. QED
    BY <2>1, <2>2, <2>3, <2>4
<1> HIDE DEF of
<1>7. /\ ss \in Seq(Seq(Rollouts)) /\ Len(ss) = m
      /\ \A k \in 1..m : ss[k] = of(starts[k])
  BY <1>4, <1>5, <1>6
<1> HIDE DEF ss
<1>8. \A k \in 1..m : ToSet(ss[k]) = TaskOf(starts[k]) /\ Once(ss[k])
  BY <1>5, <1>6, <1>7
<1>9. ASSUME NEW i \in 1..m, NEW j \in 1..m, i # j
      PROVE  ToSet(ss[i]) \cap ToSet(ss[j]) = {}
  <2>1. starts[i] # starts[j]
    BY <1>3, <1>4, <1>9 DEF Once
  <2>2. TaskIds[starts[i]] # TaskIds[starts[j]]
    BY <1>5, <2>1, HeadsOfTasks
  <2>3. /\ ToSet(ss[i]) = TaskOf(starts[i])
        /\ ToSet(ss[j]) = TaskOf(starts[j])
    BY <1>8
  <2>4. QED
    BY <2>2, <2>3 DEF TaskOf
<1>10. Once(FlattenSeq(ss))
  BY <1>7, <1>8, <1>9, FlattenOnce
<1>11. FlattenSeq(ss) \in Seq(Rollouts)
  BY <1>7, FlattenType
<1>12. ToSet(FlattenSeq(ss)) = Rollouts
  <2>1. ToSet(FlattenSeq(ss)) = UNION {ToSet(ss[k]) : k \in 1..m}
    BY <1>7, FlattenElements
  <2>2. ASSUME NEW r \in Rollouts
        PROVE  \E k \in 1..m : r \in ToSet(ss[k])
    <3>1. PICK i \in Heads : TaskIds[i] = TaskIds[r]
      BY HeadsOfTasks
    <3>2. PICK k \in 1..m : starts[k] = i
      BY <1>3, <1>4, Elements
    <3>3. QED
      BY <1>8, <3>1, <3>2 DEF TaskOf
  <2>3. \A k \in 1..m : ToSet(ss[k]) \subseteq Rollouts
    BY <1>8 DEF TaskOf
  <2>4. QED
    BY <2>1, <2>2, <2>3
<1>13. Ascending(ss, TaskIds)
  <2>1. ASSUME NEW i \in 1..m, NEW j \in 1..m, i <= j,
               NEW x \in ToSet(ss[i]), NEW y \in ToSet(ss[j])
        PROVE  TaskIds[x] <= TaskIds[y]
    <3>1. TaskIds[starts[i]] <= TaskIds[starts[j]]
      BY <1>3, <1>4, <2>1 DEF Sorted
    <3>2. TaskIds[x] = TaskIds[starts[i]] /\ TaskIds[y] = TaskIds[starts[j]]
      BY <1>8 DEF TaskOf
    <3>3. QED
      BY <3>1, <3>2
  <2>2. QED
    BY <1>7, <2>1 DEF Ascending
<1>14. Sorted(FlattenSeq(ss), TaskIds)
  BY <1>7, <1>13, FlattenSorted
<1>15. PICK s : s = FlattenSeq(ss)
  OBVIOUS
<1>16. PICK n \in Nat : n = Len(TaskIds) /\ Rollouts = 1..n
  BY BatchFacts
<1>17. s \in Seq(1..n) /\ Once(s) /\ ToSet(s) = 1..n
  BY <1>10, <1>11, <1>12, <1>15, <1>16
<1>18. Len(s) = n
  BY <1>17, OnceLength
<1>19. SortedBoth(n, TaskIds, s)
  <2>1. \A i \in 1..n : TaskIds[i] \in Nat /\ s[i] \in 1..n
    BY <1>16, <1>17, <1>18, BatchFacts
  <2>2. \A i, j \in 1..n : i <= j => TaskIds[i] <= TaskIds[j]
    BY <1>16, BatchFacts
  <2>3. \A i, j \in 1..n : i <= j => TaskIds[s[i]] <= TaskIds[s[j]]
    BY <1>14, <1>15, <1>18 DEF Sorted
  <2>4. \A i, j \in 1..n : s[i] = s[j] => i = j
    BY <1>17, <1>18 DEF Once
  <2>5. QED
    BY <2>1, <2>2, <2>3, <2>4 DEF SortedBoth
<1>20. \A i \in 1..n : TaskIds[s[i]] = TaskIds[i]
  BY <1>19, SortedAlike
<1>21. QED
  BY <1>1, <1>15, <1>16, <1>17, <1>18, <1>20
-------------------------------------------------------------------------------
\* The rows of the episodes, each under the task at its position, and made
\* by the rollout of its episode if the workflow was that rollout's own.
LEMMA RowsAligned ==
    ASSUME Inv, BatchDone, NEW row \in ToSet(Rows)
    PROVE  /\ row.task = TaskIds[row.rollout]
           /\ view[row.rollout] = "own" => row.producer = row.rollout
<1> DEFINE order == Results
           rowsOf(i) == [k \in DOMAIN episode[order[i]].steps |->
                           [task |-> TaskIds[i], rollout |-> order[i],
                            producer |-> episode[order[i]].steps[k]]]
           rows == [i \in DOMAIN order |-> rowsOf(i)]
           R == [task : Nat, rollout : Rollouts, producer : Rollouts]
<1>1. Ended = Rollouts
  BY DEF BatchDone, Ended
<1>2. PICK n \in Nat : n = Len(TaskIds) /\ Rollouts = 1..n
  BY BatchFacts
<1>3. /\ order \in Seq(Rollouts) /\ Len(order) = n
      /\ \A i \in 1..n : TaskIds[order[i]] = TaskIds[i]
  BY <1>1, <1>2, ResultsAligned DEF Inv
<1>4. Rows = FlattenSeq(rows)
  BY DEF Rows
<1> HIDE DEF order
<1>5. ASSUME NEW i \in 1..n
      PROVE  /\ rowsOf(i) \in Seq(R)
             /\ \A x \in ToSet(rowsOf(i)) :
                    /\ x.task = TaskIds[i] /\ x.rollout = order[i]
                    /\ view[x.rollout] = "own" => x.producer = x.rollout
  <2>1. order[i] \in Rollouts /\ TaskIds[i] \in Nat
    BY <1>2, <1>3, BatchFacts
  <2>2. episode[order[i]].steps \in Seq(Rollouts)
    BY <2>1 DEF Inv, EInv, ETypes
  <2>3. PICK e : e = episode[order[i]].steps
    OBVIOUS
  <2>4. PICK m \in Nat : m = Len(e) /\ DOMAIN e = 1..m
    BY <2>2, <2>3
  <2>5. PICK t : t = rowsOf(i)
    OBVIOUS
  <2>6. t = [k \in 1..m |-> [task |-> TaskIds[i], rollout |-> order[i],
                             producer |-> e[k]]]
    BY <2>3, <2>4, <2>5
  <2>7. t \in Seq(R)
    <3>1. \A k \in 1..m : [task |-> TaskIds[i], rollout |-> order[i],
                            producer |-> e[k]] \in R
      BY <2>1, <2>2, <2>3, <2>4
    <3> HIDE DEF R
    <3>2. QED
      BY <2>6, <3>1
  <2>8. view[order[i]] = "own" => \A k \in 1..m : e[k] = order[i]
    BY <2>1, <2>3, <2>4 DEF Inv, EInv, Sound, Good, BatchDone
  <2>9. \A x \in ToSet(t) :
            /\ x.task = TaskIds[i] /\ x.rollout = order[i]
            /\ view[x.rollout] = "own" => x.producer = x.rollout
    BY <2>6, <2>8 DEF ToSet
  <2>10. QED
    BY <2>5, <2>7, <2>9
<1> HIDE DEF rowsOf
<1>6. /\ rows \in Seq(Seq(R)) /\ Len(rows) = n
      /\ \A i \in 1..n : rows[i] = rowsOf(i)
  <2>1. rows = [i \in 1..n |-> rowsOf(i)]
    BY <1>3
  <2>2. \A i \in 1..n : rowsOf(i) \in Seq(R)
    BY <1>5
  <2> HIDE DEF rows, R
  <2>3. QED
    BY <2>1, <2>2
<1> HIDE DEF rows, R
<1>7. PICK i \in 1..n : row \in ToSet(rows[i])
  <2>1. ToSet(Rows) = UNION {ToSet(rows[i]) : i \in 1..n}
    BY <1>4, <1>6, FlattenElements
  <2>2. QED
    BY <2>1
<1>8. /\ row.task = TaskIds[i] /\ row.rollout = order[i]
      /\ view[row.rollout] = "own" => row.producer = row.rollout
  BY <1>5, <1>6, <1>7
<1>9. QED
  BY <1>3, <1>8

\* In whatever order the rollouts end, every row of the training batch stands
\* under the prompt of the task of its episode's rollout; and of the rollout
\* whose answer it holds, unless the rollout timed out before its reset or a
\* job that was left running touched its workflow
\* (agent_workflow_engine.py:168, 275).
THEOREM RowsUnderTheirPrompts == Spec => []RowsMatchPrompts
<1>1. Inv => RowsMatchPrompts
  BY RowsAligned DEF RowsMatchPrompts
<1>2. QED
  BY <1>1, PoolInvariance, PTL
===============================================================================
