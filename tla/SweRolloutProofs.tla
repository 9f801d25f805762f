--------------------------- MODULE SweRolloutProofs ---------------------------
(***************************************************************************)
(* Theorems about SweRollout, for any batch, parallelism and retry limit.  *)
(***************************************************************************)
EXTENDS SweRollout, FiniteSetTheorems, SequenceTheorems, TLAPS

-------------------------------------------------------------------------------
(* The inductive invariant, one trajectory at a time *)

\* The sandboxes of t that nobody has tried to delete yet.
Live(t) == {a \in Attempts : sandbox[t][a] = "live"}

\* Where the jobs of an operation can be while no attempt is cancelled by its
\* 7200 s: a reset finds nothing to close.
Places(op) ==
    CASE op = "reset"  -> {"idle", "queued", "check", "open", "new", "create",
                           "setup", "ok", "error"}
      [] op = "step"   -> {"idle", "queued", "exec", "ok", "finish", "error"}
      [] op = "reward" -> {"idle", "queued", "exec", "ok", "error"}
      [] OTHER         -> {"idle", "queued", "detach", "delete", "ok"}

\* Nothing is behind the env.
Bare(t) == session[t] = None /\ Live(t) = {}

\* A job that is under way is the one its coroutine awaits, but for a step
\* that was left to itself; it works on the session of its own attempt.
JobSound(t, b, op) ==
    LET pc == jpc[<<t, b, op>>] IN
    /\ pc \in Places(op)
    /\ pc # "idle" => b <= attempt[t]
    /\ pc # "idle" /\ (op # "step" \/ pc # "exec")
           => b = attempt[t] /\ op = cpc[t]
    /\ pc = "exec" => hold[<<t, b, op>>] = b
    /\ pc \in {"create", "setup"} => session[t] = b
    /\ op = "reset" /\ pc \in {"queued", "check", "open", "new"} => Bare(t)
    /\ op \in {"close", "cleanup"} /\ pc = "ok" => Bare(t)
    /\ pc = "delete" => session[t] = None
    /\ pc = "new" => ~closed[t]

\* Every sandbox is behind the session, or a close has it in hand.
Known(t) ==
    \A c \in Live(t) :
        \/ session[t] = c
        \/ \E b \in Attempts, op \in Ops :
              jpc[<<t, b, op>>] = "delete" /\ hold[<<t, b, op>>] = c

Sound(t) ==
    /\ closed[t] => session[t] = None
    /\ session[t] \in {None, attempt[t]}
    /\ Known(t)
    /\ cpc[t] = "idle" \/ Over(t) => Bare(t)
    /\ cpc[t] \in {"reset", "llm"}
           => jpc[<<t, attempt[t], "step">>] = "idle"
    /\ setting.filter /\ cpc[t] = "reward"
           => jpc[<<t, attempt[t], "step">>] = "idle"
    /\ \A b \in Attempts, op \in Ops : JobSound(t, b, op)

TInv ==
    /\ TypeOK
    /\ \A t \in Trajs : /\ cpc[t] = "llm" => steps[t] < setting.maxSteps
                        /\ cpc[t] = "idle" <=> attempt[t] = 0

RInv == \A t \in Trajs : Sound(t)

-------------------------------------------------------------------------------
(* Types *)

Places0 == {"idle", "queued", "check", "detach", "delete", "open", "new",
            "create", "setup", "exec", "ok", "finish", "error"}

\* A coroutine that submits a job keeps the types.
LEMMA SubmitTypes ==
    ASSUME TypeOK, NEW t \in Trajs, NEW a \in Attempts, NEW op \in Ops,
           Submit(t, a, op)
    PROVE  /\ cpc' \in [Trajs -> {"idle", "llm", "done", "failed"} \cup Ops]
           /\ jpc' \in [Jobs -> Places0]
           /\ waiting' \in Seq(Jobs)
           /\ \A u \in Trajs : u # t => cpc'[u] = cpc[u]
           /\ cpc'[t] = op
<1>1. <<t, a, op>> \in Jobs
  BY DEF Jobs
<1>2. waiting' \in Seq(Jobs)
  BY <1>1 DEF Submit, TypeOK
<1>3. jpc' \in [Jobs -> Places0]
  BY DEF Submit, TypeOK, Leave, Places0
<1>4. /\ cpc' \in [Trajs -> {"idle", "llm", "done", "failed"} \cup Ops]
      /\ \A u \in Trajs : u # t => cpc'[u] = cpc[u]
      /\ cpc'[t] = op
  BY DEF Submit, TypeOK
<1>5. QED
  BY <1>2, <1>3, <1>4

\* So does one that goes on without a job.
LEMMA ConsumeTypes ==
    ASSUME TypeOK, NEW t \in Trajs, NEW pc \in {"llm", "done", "failed"},
           Consume(t, pc)
    PROVE  /\ cpc' \in [Trajs -> {"idle", "llm", "done", "failed"} \cup Ops]
           /\ jpc' \in [Jobs -> Places0]
           /\ \A u \in Trajs : u # t => cpc'[u] = cpc[u]
           /\ cpc'[t] = pc
<1>1. jpc' \in [Jobs -> Places0]
  BY DEF Consume, TypeOK, Places0
<1>2. QED
  BY <1>1 DEF Consume, TypeOK

\* The attempt of a coroutine that was launched.
LEMMA AttemptIsOne ==
    ASSUME TInv, NEW t \in Trajs, cpc[t] # "idle"
    PROVE  attempt[t] \in Attempts
BY DEF TInv, TypeOK

\* The step of a coroutine.
LEMMA CoroutineTypes ==
    ASSUME TInv, NEW t \in Trajs, CoroutineStep(t)
    PROVE  TInv'
<1> USE RolloutAssumption
<1>0. TypeOK /\ setting.maxSteps \in Nat \ {0}
  BY DEF TInv, TypeOK
<1>1. CASE Launch(t)
  <2>1. 1 \in Attempts
    BY DEF Attempts
  <2>2. Submit(t, 1, "reset") /\ attempt' = [attempt EXCEPT ![t] = 1]
        /\ UNCHANGED <<setting, steps, hold, envVars>>
    BY <1>1 DEF Launch
  <2>3. "reset" \in Ops
    BY DEF Ops
  <2> QED
    BY <1>0, <2>1, <2>2, <2>3, SubmitTypes DEF TInv, TypeOK, envVars, Places0
<1>2. ASSUME NEW op \in Ops, Submit(t, attempt[t], op), cpc[t] # "idle",
             \/ UNCHANGED steps
             \/ cpc[t] = "llm" /\ steps' = [steps EXCEPT ![t] = @ + 1],
             UNCHANGED <<setting, attempt, hold, envVars>>
      PROVE  TInv'
  <2>1. attempt[t] \in Attempts
    BY <1>2, AttemptIsOne
  <2>2. steps' \in [Trajs -> 0..setting.maxSteps]
        /\ \A u \in Trajs : u # t => steps'[u] = steps[u]
    <3>1. CASE UNCHANGED steps
      BY <3>1, <1>0 DEF TypeOK
    <3>2. CASE cpc[t] = "llm" /\ steps' = [steps EXCEPT ![t] = @ + 1]
      <4>1. steps[t] \in 0..setting.maxSteps /\ steps[t] < setting.maxSteps
        BY <3>2 DEF TInv, TypeOK
      <4>2. steps[t] + 1 \in 0..setting.maxSteps
        BY <1>0, <4>1
      <4> QED
        BY <3>2, <4>2, <1>0 DEF TypeOK
    <3> QED
      BY <3>1, <3>2, <1>2
  <2>3. op # "llm" /\ op # "idle"
    BY DEF Ops
  <2> QED
    BY <1>0, <1>2, <2>1, <2>2, <2>3, SubmitTypes
       DEF TInv, TypeOK, envVars, Places0
<1>3. ASSUME NEW pc \in {"llm", "done", "failed"}, Consume(t, pc),
             cpc[t] # "idle",
             \/ steps' = [steps EXCEPT ![t] = 0]
             \/ UNCHANGED steps /\ (pc = "llm" => steps[t] < setting.maxSteps),
             UNCHANGED <<setting, attempt, hold, waiting, envVars>>
      PROVE  TInv'
  <2>1. /\ steps' \in [Trajs -> 0..setting.maxSteps]
        /\ \A u \in Trajs : u # t => steps'[u] = steps[u]
        /\ pc = "llm" => steps'[t] < setting.maxSteps
    <3>1. CASE UNCHANGED steps /\ (pc = "llm" => steps[t] < setting.maxSteps)
      BY <3>1, <1>0 DEF TypeOK
    <3>2. CASE steps' = [steps EXCEPT ![t] = 0]
      <4>1. 0 \in 0..setting.maxSteps /\ 0 < setting.maxSteps
        BY <1>0
      <4> QED
        BY <3>2, <4>1, <1>0 DEF TypeOK
    <3> QED
      BY <3>1, <3>2, <1>3
  <2>2. TypeOK'
    BY <1>0, <1>3, <2>1, ConsumeTypes DEF TypeOK, envVars, Places0
  <2>3. /\ \A u \in Trajs : u # t => cpc'[u] = cpc[u]
        /\ cpc'[t] = pc
    BY <1>0, <1>3, ConsumeTypes
  <2> QED
    BY <1>3, <2>1, <2>2, <2>3 DEF TInv
<1>4. CASE ResetDone(t)
  BY <1>4, <1>3 DEF ResetDone
<1>5. CASE ModelAnswers(t)
  BY <1>5, <1>2 DEF ModelAnswers, Ops
<1>6. CASE StepDone(t)
  BY <1>6, <1>3 DEF StepDone
<1>7. CASE EpisodeEnds(t)
  BY <1>7, <1>2 DEF EpisodeEnds, LeaveLoop, Ops
<1>8. CASE StepTimeout(t)
  BY <1>8, <1>2 DEF StepTimeout, LeaveLoop, Ops
<1>9. CASE RewardDone(t)
  BY <1>9, <1>2 DEF RewardDone, Ops
<1>10. CASE CloseDone(t)
  BY <1>10, <1>3 DEF CloseDone
<1>11. CASE AttemptFails(t)
  BY <1>11, <1>2 DEF AttemptFails, Ops
<1>12. CASE RunTimeout(t)
  BY <1>12, <1>2 DEF RunTimeout, Ops
<1>13. CASE Retry(t)
  <2>1. attempt[t] \in Attempts
    BY <1>13, AttemptIsOne DEF Retry
  <2>2. attempt[t] + 1 \in Attempts /\ attempt[t] + 1 # 0
    BY <1>13, <2>1 DEF Retry, Attempts
  <2>3. Submit(t, attempt[t] + 1, "reset")
        /\ attempt' = [attempt EXCEPT ![t] = @ + 1]
        /\ UNCHANGED <<setting, steps, hold, envVars>>
    BY <1>13 DEF Retry
  <2>4. "reset" \in Ops
    BY DEF Ops
  <2> QED
    BY <1>0, <2>2, <2>3, <2>4, SubmitTypes DEF TInv, TypeOK, envVars, Places0
<1>14. CASE GiveUp(t)
  BY <1>14, <1>3 DEF GiveUp
<1> QED
  BY <1>1, <1>4, <1>5, <1>6, <1>7, <1>8, <1>9, <1>10, <1>11, <1>12, <1>13,
     <1>14 DEF CoroutineStep

\* The result of a job keeps the types.
LEMMA EndTypes ==
    ASSUME TypeOK, NEW j \in Jobs,
           NEW result \in {"ok", "finish", "error"}, End(j, result)
    PROVE  /\ jpc' \in [Jobs -> Places0]
           /\ hold' \in [Jobs -> Attempts \cup {None}]
BY DEF TypeOK, End, Goto, Places0, None

\* A thread takes a job.
LEMMA StartTypes ==
    ASSUME TInv, Start
    PROVE  TInv'
<1> DEFINE j == Head(waiting)
           s == session[j[1]]
<1>0. TypeOK
  BY DEF TInv
<1>1. waiting # <<>> /\ waiting' = Tail(waiting)
      /\ UNCHANGED <<setting, coVars, envVars>>
  BY DEF Start
<1>2. j \in Jobs /\ waiting' \in Seq(Jobs)
  BY <1>0, <1>1 DEF TypeOK
<1>3. s \in Attempts \cup {None}
  BY <1>0, <1>2 DEF TypeOK, Jobs
<1>4. /\ jpc' \in [Jobs -> Places0]
      /\ hold' \in [Jobs -> Attempts \cup {None}]
  <2> HIDE DEF j
  <2>1. \/ UNCHANGED <<jpc, hold>>
        \/ \E pc \in {"check", "detach"} : Goto(j, pc) /\ UNCHANGED hold
        \/ \E result \in {"ok", "finish", "error"} : End(j, result)
        \/ Goto(j, "exec") /\ hold' = [hold EXCEPT ![j] = s]
    BY DEF Start, j
  <2>2. CASE UNCHANGED <<jpc, hold>>
    BY <2>2, <1>0 DEF TypeOK, Places0
  <2>3. CASE \E pc \in {"check", "detach"} : Goto(j, pc) /\ UNCHANGED hold
    BY <2>3, <1>0, <1>2 DEF TypeOK, Places0, Goto
  <2>4. CASE \E result \in {"ok", "finish", "error"} : End(j, result)
    BY <2>4, <1>0, <1>2, EndTypes
  <2>5. CASE Goto(j, "exec") /\ hold' = [hold EXCEPT ![j] = s]
    BY <2>5, <1>0, <1>2, <1>3 DEF TypeOK, Places0, Goto
  <2> QED
    BY <2>1, <2>2, <2>3, <2>4, <2>5
<1> QED
  BY <1>0, <1>1, <1>2, <1>4 DEF TInv, TypeOK, coVars, envVars, Places0

\* A thread goes on with its job.
LEMMA JobTypes ==
    ASSUME TInv, NEW t \in Trajs, NEW a \in Attempts, JobStep(t, a)
    PROVE  TInv'
<1>0. TypeOK
  BY DEF TInv
<1>1. SUFFICES ASSUME UNCHANGED <<setting, coVars, waiting>>
               PROVE  /\ jpc' \in [Jobs -> Places0]
                      /\ hold' \in [Jobs -> Attempts \cup {None}]
                      /\ session' \in [Trajs -> Attempts \cup {None}]
                      /\ closed' \in [Trajs -> BOOLEAN]
                      /\ sandbox' \in [Trajs -> [Attempts ->
                             {"none", "new", "live", "deleted", "stuck"}]]
  <2>1. UNCHANGED <<setting, coVars, waiting>>
    BY DEF JobStep, ResetCheck, ResetOpen, ResetSession, ResetCreate,
           ResetSetup, Exec, Detach, Delete
  <2> QED
    BY <2>1, <1>0, <1>1 DEF TInv, TypeOK, coVars, Places0
<1>2. ASSUME NEW op \in Ops
      PROVE  <<t, a, op>> \in Jobs
  BY DEF Jobs
<1>3. <<t, a, "reset">> \in Jobs
  BY <1>2 DEF Ops
<1>4. ASSUME NEW op \in Ops, AfterClose(<<t, a, op>>)
      PROVE  /\ jpc' \in [Jobs -> Places0]
             /\ hold' \in [Jobs -> Attempts \cup {None}]
  <2>1. CASE End(<<t, a, op>>, "ok")
    BY <2>1, <1>0, <1>2, EndTypes
  <2>2. CASE ~End(<<t, a, op>>, "ok")
    BY <2>2, <1>0, <1>2, <1>4 DEF AfterClose, Goto, TypeOK, Places0
  <2> QED
    BY <2>1, <2>2
<1>5. CASE ResetCheck(t, a)
  BY <1>0, <1>3, <1>5 DEF ResetCheck, Goto, TypeOK, Places0, envVars
<1>6. CASE ResetOpen(t, a)
  BY <1>0, <1>3, <1>6 DEF ResetOpen, Goto, TypeOK, Places0
<1>7. CASE ResetSession(t, a)
  BY <1>0, <1>3, <1>7 DEF ResetSession, Goto, TypeOK, Places0
<1>8. CASE ResetCreate(t, a)
  <2>0. sandbox' \in [Trajs -> [Attempts ->
            {"none", "new", "live", "deleted", "stuck"}]]
    <3> DEFINE row == [sandbox[t] EXCEPT ![a] = "live"]
    <3>1. row \in [Attempts -> {"none", "new", "live", "deleted", "stuck"}]
      BY <1>0 DEF TypeOK
    <3>2. sandbox' = sandbox \/ sandbox' = [sandbox EXCEPT ![t] = row]
      BY <1>8 DEF ResetCreate
    <3> QED
      BY <1>0, <3>1, <3>2 DEF TypeOK
  <2>1. CASE End(<<t, a, "reset">>, "error")
    BY <1>0, <1>3, <1>8, <2>0, <2>1, EndTypes DEF ResetCreate, TypeOK
  <2>2. CASE ~End(<<t, a, "reset">>, "error")
    BY <1>0, <1>3, <1>8, <2>0, <2>2 DEF ResetCreate, Goto, TypeOK, Places0
  <2> QED
    BY <2>1, <2>2
<1>9. CASE ResetSetup(t, a)
  BY <1>0, <1>3, <1>9, EndTypes DEF ResetSetup, TypeOK, envVars
<1>10. ASSUME NEW op \in Ops, Exec(t, a, op)
       PROVE  TypeOK'
  BY <1>0, <1>1, <1>2, <1>10, EndTypes
     DEF Exec, TypeOK, envVars, coVars, Places0
<1>11. ASSUME NEW op \in Ops, Detach(t, a, op)
       PROVE  /\ jpc' \in [Jobs -> Places0]
              /\ hold' \in [Jobs -> Attempts \cup {None}]
              /\ session' \in [Trajs -> Attempts \cup {None}]
              /\ closed' \in [Trajs -> BOOLEAN]
              /\ sandbox' = sandbox
  <2>1. CASE AfterClose(<<t, a, op>>)
    BY <1>0, <1>4, <1>11, <2>1 DEF Detach, TypeOK
  <2>2. CASE ~AfterClose(<<t, a, op>>)
    BY <1>0, <1>2, <1>11, <2>2 DEF Detach, Goto, TypeOK, Places0
  <2> QED
    BY <2>1, <2>2
<1>12. ASSUME NEW op \in Ops, Delete(t, a, op)
       PROVE  /\ jpc' \in [Jobs -> Places0]
              /\ hold' \in [Jobs -> Attempts \cup {None}]
              /\ sandbox' \in [Trajs -> [Attempts ->
                     {"none", "new", "live", "deleted", "stuck"}]]
              /\ UNCHANGED <<session, closed>>
  <2> DEFINE s == hold[<<t, a, op>>]
  <2>1. PICK end \in {"deleted", "stuck"} :
            sandbox' = [sandbox EXCEPT ![t][s] = IF @ = "live" THEN end ELSE @]
    BY <1>12 DEF Delete
  <2>2. sandbox' \in [Trajs -> [Attempts ->
            {"none", "new", "live", "deleted", "stuck"}]]
    <3> DEFINE row == [sandbox[t] EXCEPT ![s] = IF @ = "live" THEN end ELSE @]
    <3>1. row \in [Attempts ->
                     {"none", "new", "live", "deleted", "stuck"}]
      BY <1>0 DEF TypeOK
    <3>2. sandbox' = [sandbox EXCEPT ![t] = row]
      BY <2>1
    <3> QED
      BY <1>0, <3>1, <3>2 DEF TypeOK
  <2> QED
    BY <1>0, <1>4, <1>12, <2>2 DEF Delete, TypeOK
<1>13. CASE \E op \in Ops : Exec(t, a, op)
  BY <1>13, <1>10 DEF TypeOK, Places0
<1>14. CASE \E op \in Ops : Detach(t, a, op)
  BY <1>0, <1>14, <1>11 DEF TypeOK
<1>15. CASE \E op \in Ops : Delete(t, a, op)
  BY <1>0, <1>15, <1>12 DEF TypeOK
<1> QED
  BY <1>5, <1>6, <1>7, <1>8, <1>9, <1>13, <1>14, <1>15 DEF JobStep

\* The initial state has the types and the small facts of TInv.
LEMMA TypesInit == Init => TInv
<1> SUFFICES ASSUME Init PROVE TInv
  OBVIOUS
<1>1. 0 \in 0..setting.maxSteps
  BY RolloutAssumption DEF Init
<1>2. waiting \in Seq(Jobs)
  BY DEF Init
<1> QED
  BY <1>1, <1>2 DEF Init, TInv, TypeOK, None

\* Every variable keeps its type (swe.py 300 to 402, lines 231 to 934 of the
\* engine).
THEOREM TypesHold == Spec => []TypeOK
<1>1. TInv /\ [Next]_vars => TInv'
  <2> SUFFICES ASSUME TInv, [Next]_vars PROVE TInv'
    OBVIOUS
  <2>1. CASE UNCHANGED vars
    BY <2>1 DEF vars, coVars, envVars, TInv, TypeOK
  <2> QED
    BY <2>1, CoroutineTypes, StartTypes, JobTypes DEF Next
<1>2. TInv => TypeOK
  BY DEF TInv
<1> QED
  BY <1>1, <1>2, TypesInit, PTL DEF Spec

-------------------------------------------------------------------------------
(* One trajectory leaves the others alone *)

\* Sound(u) speaks of nothing else.
LEMMA Frame ==
    ASSUME TInv, NEW u \in Trajs, Sound(u), setting' = setting,
           cpc'[u] = cpc[u], attempt'[u] = attempt[u],
           session'[u] = session[u], closed'[u] = closed[u],
           sandbox'[u] = sandbox[u],
           \A b \in Attempts, op \in Ops :
               /\ jpc'[<<u, b, op>>] = jpc[<<u, b, op>>]
               /\ hold'[<<u, b, op>>] = hold[<<u, b, op>>]
    PROVE  Sound(u)'
<1>1. Attempts' = Attempts /\ Ops' = Ops
  BY DEF Attempts, Ops
<1>2. Live(u)' = Live(u)
  BY DEF Live
<1>3. Known(u)' /\ (Bare(u)' <=> Bare(u)) /\ (Over(u)' <=> Over(u))
  BY <1>2 DEF Sound, Known, Bare, Over
<1>4. ASSUME NEW b \in Attempts, NEW op \in Ops
      PROVE  JobSound(u, b, op)'
  <2>1. JobSound(u, b, op)
    BY DEF Sound
  <2> QED
    BY <1>3, <2>1 DEF JobSound
<1>5. cpc[u] # "idle"
          => jpc'[<<u, attempt[u], "step">>] = jpc[<<u, attempt[u], "step">>]
  BY AttemptIsOne DEF Ops
<1> QED
  BY <1>3, <1>4, <1>5 DEF Sound

\* The coroutine of another trajectory.
LEMMA CoroutineFrame ==
    ASSUME TInv, NEW t \in Trajs, NEW u \in Trajs, u # t, Sound(u),
           CoroutineStep(t)
    PROVE  Sound(u)'
<1>1. /\ UNCHANGED <<setting, hold, envVars>>
      /\ \/ UNCHANGED attempt
         \/ \E n \in {1, attempt[t] + 1} : attempt' = [attempt EXCEPT ![t] = n]
      /\ \/ \E a \in {1, attempt[t], attempt[t] + 1}, op \in Ops :
               Submit(t, a, op)
         \/ \E pc \in {"llm", "done", "failed"} : Consume(t, pc)
  BY DEF CoroutineStep, Launch, ResetDone, ModelAnswers, StepDone, EpisodeEnds,
         LeaveLoop, StepTimeout, RewardDone, CloseDone, AttemptFails,
         RunTimeout, Retry, GiveUp, Ops
<1>2. attempt'[u] = attempt[u]
  BY <1>1 DEF TInv, TypeOK
<1>3. cpc'[u] = cpc[u]
  BY <1>1 DEF TInv, TypeOK, Submit, Consume
<1>4. ASSUME NEW b \in Attempts, NEW op \in Ops
      PROVE  jpc'[<<u, b, op>>] = jpc[<<u, b, op>>]
  <2>1. <<u, b, op>> \in Jobs
    BY DEF Jobs
  <2>2. <<u, b, op>> # Mine(t)
    BY DEF Mine
  <2>3. ASSUME NEW a, NEW o PROVE <<u, b, op>> # <<t, a, o>>
    OBVIOUS
  <2> QED
    BY <1>1, <2>1, <2>2, <2>3 DEF Submit, Consume
<1> QED
  BY <1>1, <1>2, <1>3, <1>4, Frame DEF envVars

\* A thread with the job of another trajectory.
LEMMA JobFrame ==
    ASSUME TInv, NEW t \in Trajs, NEW a \in Attempts, NEW o \in Ops,
           NEW u \in Trajs, u # t, Sound(u),
           UNCHANGED <<setting, coVars>>,
           \/ UNCHANGED jpc
           \/ \E pc : Goto(<<t, a, o>>, pc),
           \/ UNCHANGED hold
           \/ \E s : hold' = [hold EXCEPT ![<<t, a, o>>] = s],
           session'[u] = session[u], closed'[u] = closed[u],
           sandbox'[u] = sandbox[u]
    PROVE  Sound(u)'
<1>1. ASSUME NEW b \in Attempts, NEW op \in Ops
      PROVE  /\ jpc'[<<u, b, op>>] = jpc[<<u, b, op>>]
             /\ hold'[<<u, b, op>>] = hold[<<u, b, op>>]
  <2>1. <<u, b, op>> \in Jobs /\ <<u, b, op>> # <<t, a, o>>
    BY DEF Jobs
  <2> QED
    BY <2>1 DEF TInv, TypeOK, Goto
<1> QED
  BY <1>1, Frame DEF coVars

-------------------------------------------------------------------------------
(* The coroutine of a trajectory *)

\* It submits a job.
LEMMA SubmitSound ==
    ASSUME TInv, NEW t \in Trajs, Sound(t), NEW a \in Attempts, NEW op \in Ops,
           Submit(t, a, op), attempt'[t] = a,
           UNCHANGED <<setting, hold, envVars>>,
           \/ a = attempt[t] /\ op # cpc[t] /\ op # "reset"
           \/ a = attempt[t] + 1 /\ Bare(t) /\ op = "reset",
           cpc[t] \in Ops /\ cpc[t] # "step"
               => jpc[Mine(t)] \in {"idle", "queued", "ok", "finish", "error"},
           op = "step" => cpc[t] = "llm",
           op = "reward" /\ setting.filter
               => \/ cpc[t] = "llm"
                  \/ cpc[t] = "step" /\ jpc[Mine(t)] \in {"ok", "finish"}
    PROVE  Sound(t)'
<1>0. /\ cpc'[t] = op
      /\ a \in Nat \ {0} /\ attempt[t] \in Nat /\ attempt[t] <= a
      /\ session'[t] = session[t] /\ closed'[t] = closed[t]
      /\ Live(t)' = Live(t) /\ hold' = hold /\ setting' = setting
  <2>1. a \in Nat \ {0} /\ attempt[t] \in Nat
    BY DEF Attempts, TInv, TypeOK
  <2> QED
    BY <2>1 DEF TInv, TypeOK, Submit, envVars, Live
<1>1. Bare(t)' <=> Bare(t)
  BY <1>0 DEF Bare
<1>2. ASSUME NEW b \in Attempts, NEW o \in Ops
      PROVE  /\ JobSound(t, b, o)
             /\ b = a /\ o = op => jpc'[<<t, b, o>>] = "queued"
             /\ ~(b = a /\ o = op) => jpc'[<<t, b, o>>] =
                    IF <<t, b, o>> = Mine(t) THEN Leave(jpc[<<t, b, o>>])
                    ELSE jpc[<<t, b, o>>]
  <2>1. <<t, b, o>> \in Jobs
    BY DEF Jobs
  <2> QED
    BY <2>1 DEF Submit, Sound
<1>3. ASSUME NEW b \in Attempts, NEW o \in Ops, ~(b = a /\ o = op)
      PROVE  \/ jpc'[<<t, b, o>>] = "idle"
             \/ /\ o = "step"
                /\ jpc[<<t, b, o>>] = "exec"
                /\ jpc'[<<t, b, o>>] = "exec"
  <2>1. CASE jpc[<<t, b, o>>] = "idle"
    BY <1>2, <1>3, <2>1 DEF Leave
  <2>2. CASE jpc[<<t, b, o>>] # "idle" /\ o # "step"
    <3>1. <<t, b, o>> = Mine(t) /\ cpc[t] = o
      BY <1>2, <2>2 DEF JobSound, Mine
    <3>2. jpc[Mine(t)] \in {"idle", "queued", "ok", "finish", "error"}
      BY <2>2, <3>1
    <3> QED
      BY <1>2, <1>3, <3>1, <3>2 DEF Leave
  <2>3. CASE jpc[<<t, b, o>>] \notin {"idle", "exec"} /\ o = "step"
    <3>1. <<t, b, o>> = Mine(t)
      BY <1>2, <2>3 DEF JobSound, Mine
    <3>2. jpc[<<t, b, o>>] \in {"queued", "ok", "finish", "error"}
      BY <1>2, <2>3 DEF JobSound, Places
    <3> QED
      BY <1>2, <1>3, <3>1, <3>2 DEF Leave
  <2>4. CASE jpc[<<t, b, o>>] = "exec" /\ o = "step"
    BY <1>2, <1>3, <2>4 DEF Leave
  <2> QED
    BY <2>1, <2>2, <2>3, <2>4
<1>4. ASSUME NEW b \in Attempts, NEW o \in Ops
      PROVE  JobSound(t, b, o)'
  <2>1. CASE b = a /\ o = op
    <3>1. jpc'[<<t, b, o>>] = "queued"
      BY <1>2, <2>1
    <3>2. b <= a
      BY <1>0, <2>1
    <3> QED
      BY <1>0, <1>1, <2>1, <3>1, <3>2 DEF JobSound, Places, Ops
  <2>2. CASE ~(b = a /\ o = op) /\ jpc'[<<t, b, o>>] = "idle"
    BY <2>2 DEF JobSound, Places, Ops
  <2>3. CASE /\ ~(b = a /\ o = op) /\ o = "step"
             /\ jpc[<<t, b, o>>] = "exec" /\ jpc'[<<t, b, o>>] = "exec"
    <3>1. b <= a
      <4>1. b <= attempt[t]
        BY <1>2, <2>3 DEF JobSound
      <4>2. b \in Nat
        BY DEF Attempts
      <4> QED
        BY <1>0, <4>1, <4>2
    <3>2. hold'[<<t, b, o>>] = b
      BY <1>0, <1>2, <2>3 DEF JobSound
    <3> QED
      BY <2>3, <3>1, <3>2 DEF JobSound, Places
  <2> QED
    BY <1>3, <2>1, <2>2, <2>3
<1>5. Known(t)'
  <2> SUFFICES ASSUME NEW c \in Live(t)
               PROVE  \/ session[t] = c
                      \/ \E b \in Attempts, o \in Ops :
                            /\ jpc'[<<t, b, o>>] = "delete"
                            /\ hold[<<t, b, o>>] = c
    BY <1>0 DEF Known
  <2>1. CASE session[t] = c
    BY <2>1
  <2>2. CASE session[t] # c
    <3>1. PICK b \in Attempts, o \in Ops :
              jpc[<<t, b, o>>] = "delete" /\ hold[<<t, b, o>>] = c
      BY <2>2 DEF Sound, Known
    <3>2. b = attempt[t] /\ o = cpc[t] /\ o # "step" /\ ~Bare(t)
      BY <3>1, <1>2 DEF JobSound, Places, Bare, Ops
    <3>3. jpc[Mine(t)] = "delete" /\ cpc[t] \in Ops
      BY <3>1, <3>2 DEF Mine
    <3> QED
      BY <3>2, <3>3
  <2> QED
    BY <2>1, <2>2
<1>6. "step" \in Ops
  BY DEF Ops
<1>7. op = "reset" => jpc'[<<t, a, "step">>] = "idle"
  <2> SUFFICES ASSUME op = "reset" PROVE jpc'[<<t, a, "step">>] = "idle"
    OBVIOUS
  <2>1. a = attempt[t] + 1
    OBVIOUS
  <2>2. jpc[<<t, a, "step">>] = "idle"
    BY <1>0, <1>2, <1>6, <2>1 DEF JobSound
  <2> QED
    BY <1>3, <1>6, <2>2
<1>8. setting.filter /\ op = "reward" => jpc'[<<t, a, "step">>] = "idle"
  <2> SUFFICES ASSUME setting.filter, op = "reward"
               PROVE  jpc'[<<t, a, "step">>] = "idle"
    OBVIOUS
  <2>1. a = attempt[t]
    OBVIOUS
  <2>2. CASE cpc[t] = "llm"
    <3>1. jpc[<<t, a, "step">>] = "idle"
      BY <2>1, <2>2 DEF Sound
    <3> QED
      BY <1>3, <1>6, <3>1
  <2>3. CASE cpc[t] = "step" /\ jpc[Mine(t)] \in {"ok", "finish"}
    <3>1. jpc[<<t, a, "step">>] \in {"ok", "finish"}
      BY <2>1, <2>3 DEF Mine
    <3> QED
      BY <1>3, <1>6, <3>1
  <2> QED
    BY <2>2, <2>3
<1>9. closed[t] => session[t] = None
  BY DEF Sound
<1>10. session[t] \in {None, a}
  BY DEF Sound, Bare
<1>11. cpc'[t] # "idle" /\ cpc'[t] # "llm" /\ ~Over(t)'
  BY <1>0 DEF Ops, Over
<1> QED
  BY <1>0, <1>4, <1>5, <1>7, <1>8, <1>9, <1>10, <1>11 DEF Sound

\* It goes on without one.
LEMMA ConsumeSound ==
    ASSUME TInv, NEW t \in Trajs, Sound(t),
           NEW pc \in {"llm", "done", "failed"},
           Consume(t, pc), jpc[Mine(t)] = "ok",
           cpc[t] \in IF pc = "llm" THEN {"reset", "step"}
                                    ELSE {"close", "cleanup"},
           UNCHANGED <<setting, attempt, hold, envVars>>
    PROVE  Sound(t)'
<1>0. /\ cpc'[t] = pc /\ cpc[t] \in Ops /\ attempt[t] \in Attempts
      /\ attempt'[t] = attempt[t] /\ hold' = hold /\ setting' = setting
      /\ session'[t] = session[t] /\ closed'[t] = closed[t]
      /\ Live(t)' = Live(t)
  BY AttemptIsOne DEF Consume, TInv, TypeOK, envVars, Live, Ops
<1>1. Bare(t)' <=> Bare(t)
  BY <1>0 DEF Bare
<1>2. ASSUME NEW b \in Attempts, NEW o \in Ops
      PROVE  /\ JobSound(t, b, o)
             /\ jpc'[<<t, b, o>>] = IF <<t, b, o>> = Mine(t) THEN "idle"
                                    ELSE jpc[<<t, b, o>>]
  <2>1. <<t, b, o>> \in Jobs
    BY DEF Jobs
  <2> QED
    BY <2>1 DEF Consume, Sound
<1>3. ASSUME NEW b \in Attempts, NEW o \in Ops
      PROVE  \/ jpc'[<<t, b, o>>] = "idle"
             \/ /\ o = "step"
                /\ jpc[<<t, b, o>>] = "exec"
                /\ jpc'[<<t, b, o>>] = "exec"
                /\ ~(b = attempt[t] /\ cpc[t] = "step")
  <2>1. CASE jpc[<<t, b, o>>] = "idle"
    BY <1>2, <2>1
  <2>2. CASE <<t, b, o>> = Mine(t)
    BY <1>2, <2>2
  <2>3. CASE <<t, b, o>> # Mine(t) /\ jpc[<<t, b, o>>] # "idle"
    <3>1. ~(b = attempt[t] /\ o = cpc[t])
      BY <2>3 DEF Mine
    <3>2. o = "step" /\ jpc[<<t, b, o>>] = "exec"
      BY <1>2, <2>3, <3>1 DEF JobSound
    <3> QED
      BY <1>2, <2>3, <3>1, <3>2
  <2> QED
    BY <2>1, <2>2, <2>3
<1>4. ASSUME NEW b \in Attempts, NEW o \in Ops
      PROVE  JobSound(t, b, o)'
  <2>1. CASE jpc'[<<t, b, o>>] = "idle"
    BY <2>1 DEF JobSound, Places, Ops
  <2>2. CASE /\ o = "step"
             /\ jpc[<<t, b, o>>] = "exec" /\ jpc'[<<t, b, o>>] = "exec"
    BY <1>0, <1>2, <2>2 DEF JobSound, Places
  <2> QED
    BY <1>3, <2>1, <2>2
<1>5. pc # "llm" => Bare(t)
  BY <1>0, <1>2 DEF JobSound, Mine
<1>6. Known(t)'
  <2>1. ASSUME NEW b \in Attempts, NEW o \in Ops
        PROVE  jpc[<<t, b, o>>] # "delete"
    BY <1>2, <2>1 DEF JobSound, Mine, Places
  <2> QED
    BY <1>0, <2>1 DEF Sound, Known
<1>7. jpc[<<t, attempt[t], "step">>] = "idle"
          => jpc'[<<t, attempt[t], "step">>] = "idle"
  BY <1>0, <1>2 DEF Ops
<1>8. pc = "llm" => jpc'[<<t, attempt[t], "step">>] = "idle"
  BY <1>0, <1>2, <1>7 DEF Sound, Mine, Ops
<1> QED
  BY <1>0, <1>1, <1>4, <1>5, <1>6, <1>8 DEF Sound, Over
\* The step of a coroutine.
LEMMA CoroutineSound ==
    ASSUME ~setting.cancels, TInv, NEW t \in Trajs, Sound(t), CoroutineStep(t)
    PROVE  Sound(t)'
<1>1. cpc[t] # "idle" => attempt[t] \in Attempts
  BY AttemptIsOne
<1>2. ASSUME cpc[t] # "idle", UNCHANGED <<setting, attempt, hold, envVars>>,
             NEW op \in {"step", "reward", "close", "cleanup"},
             Submit(t, attempt[t], op), op # cpc[t],
             cpc[t] \in {"reset", "reward", "close", "cleanup"}
                 => jpc[Mine(t)] \in {"idle", "queued", "ok", "finish",
                                      "error"},
             op = "step" => cpc[t] = "llm",
             op = "reward" /\ setting.filter
                 => \/ cpc[t] = "llm"
                    \/ cpc[t] = "step" /\ jpc[Mine(t)] \in {"ok", "finish"}
      PROVE  Sound(t)'
  BY <1>1, <1>2, SubmitSound DEF Ops
<1>3. CASE Launch(t)
  <2>1. 1 \in Attempts /\ "reset" \in Ops
    BY RolloutAssumption DEF Attempts, Ops
  <2>2. attempt[t] = 0 /\ Bare(t) /\ attempt'[t] = 1 /\ cpc[t] \notin Ops
    BY <1>3 DEF Launch, TInv, TypeOK, Sound, Ops
  <2>3. Submit(t, 1, "reset") /\ UNCHANGED <<setting, hold, envVars>>
    BY <1>3 DEF Launch
  <2> QED
    BY <2>1, <2>2, <2>3, SubmitSound
<1>4. CASE ResetDone(t)
  BY <1>4, ConsumeSound DEF ResetDone
<1>5. CASE ModelAnswers(t)
  BY <1>2, <1>5 DEF ModelAnswers
<1>6. CASE StepDone(t)
  BY <1>6, ConsumeSound DEF StepDone
<1>7. CASE EpisodeEnds(t)
  BY <1>2, <1>7 DEF EpisodeEnds, LeaveLoop
<1>8. CASE StepTimeout(t)
  BY <1>2, <1>8 DEF StepTimeout, LeaveLoop
<1>9. CASE RewardDone(t)
  BY <1>2, <1>9 DEF RewardDone
<1>10. CASE CloseDone(t)
  BY <1>10, ConsumeSound DEF CloseDone
<1>11. CASE AttemptFails(t)
  BY <1>2, <1>11 DEF AttemptFails, Pending, Running
<1>12. CASE Retry(t)
  <2>1. /\ cpc[t] = "cleanup" /\ jpc[Mine(t)] = "ok"
        /\ attempt[t] < RetryLimit
        /\ Submit(t, attempt[t] + 1, "reset")
        /\ attempt' = [attempt EXCEPT ![t] = @ + 1]
        /\ UNCHANGED <<setting, hold, envVars>>
    BY <1>12 DEF Retry
  <2>2. attempt[t] + 1 \in Attempts /\ "reset" \in Ops
    BY <1>1, <2>1, RolloutAssumption DEF Attempts, Ops
  <2>3. attempt'[t] = attempt[t] + 1
    BY <2>1 DEF TInv, TypeOK
  <2>4. JobSound(t, attempt[t], "cleanup")
    BY <1>1, <2>1 DEF Sound, Ops
  <2>5. Bare(t)
    BY <2>1, <2>4 DEF JobSound, Mine
  <2> QED
    BY <2>1, <2>2, <2>3, <2>5, SubmitSound
<1>13. CASE GiveUp(t)
  BY <1>13, ConsumeSound DEF GiveUp
<1>14. ~RunTimeout(t)
  BY DEF RunTimeout
<1> QED
  BY <1>3, <1>4, <1>5, <1>6, <1>7, <1>8, <1>9, <1>10, <1>11, <1>12, <1>13,
     <1>14 DEF CoroutineStep

-------------------------------------------------------------------------------
(* The jobs of a trajectory *)

\* While the awaited job is under way, only abandoned steps are besides it.
LEMMA OnlySteps ==
    ASSUME NEW t \in Trajs, Sound(t), NEW b \in Attempts, NEW o \in Ops,
           <<t, b, o>> # Mine(t)
    PROVE  \/ jpc[<<t, b, o>>] = "idle"
           \/ o = "step" /\ jpc[<<t, b, o>>] = "exec"
BY DEF Sound, JobSound, Mine

\* The awaited job moves on: what is left to show.
LEMMA MineMoves ==
    ASSUME TInv, NEW t \in Trajs, Sound(t), NEW a \in Attempts, NEW op \in Ops,
           <<t, a, op>> = Mine(t), jpc[<<t, a, op>>] # "idle",
           UNCHANGED <<setting, coVars>>,
           \A b \in Attempts, o \in Ops : ~(b = a /\ o = op)
               => /\ jpc'[<<t, b, o>>] = jpc[<<t, b, o>>]
                  /\ hold'[<<t, b, o>>] = hold[<<t, b, o>>],
           JobSound(t, a, op)', Known(t)',
           closed'[t] => session'[t] = None,
           session'[t] \in {None, attempt[t]}
    PROVE  Sound(t)'
<1>1. /\ cpc[t] = op /\ attempt[t] = a
      /\ cpc' = cpc /\ attempt' = attempt /\ setting' = setting
  BY DEF Mine, coVars
<1>2. cpc'[t] # "idle" /\ ~Over(t)'
  BY <1>1 DEF Ops, Over
<1>3. ASSUME NEW b \in Attempts, NEW o \in Ops, ~(b = a /\ o = op)
      PROVE  JobSound(t, b, o)'
  <2>1. /\ jpc'[<<t, b, o>>] = jpc[<<t, b, o>>]
        /\ hold'[<<t, b, o>>] = hold[<<t, b, o>>]
        /\ JobSound(t, b, o)
    BY <1>3 DEF Sound
  <2>2. <<t, b, o>> # Mine(t)
    BY <1>1, <1>3 DEF Mine
  <2>3. CASE jpc[<<t, b, o>>] = "idle"
    BY <2>1, <2>3 DEF JobSound, Places, Ops
  <2>4. CASE o = "step" /\ jpc[<<t, b, o>>] = "exec"
    BY <1>1, <2>1, <2>4 DEF JobSound, Places
  <2> QED
    BY <2>2, <2>3, <2>4, OnlySteps
<1>4. op # "step" /\ jpc[<<t, a, "step">>] = "idle"
          => jpc'[<<t, a, "step">>] = "idle"
  BY DEF Ops
<1>5. /\ cpc'[t] \in {"reset", "llm"}
             => jpc'[<<t, attempt'[t], "step">>] = "idle"
      /\ setting'.filter /\ cpc'[t] = "reward"
             => jpc'[<<t, attempt'[t], "step">>] = "idle"
  BY <1>1, <1>4 DEF Sound, Ops
<1> QED
  BY <1>1, <1>2, <1>3, <1>5 DEF Sound

\* Every sandbox is behind the session, or the awaited job deletes it.
LEMMA KnownByMine ==
    ASSUME NEW t \in Trajs, Sound(t), NEW a \in Attempts, NEW op \in Ops,
           <<t, a, op>> = Mine(t), NEW c \in Live(t)
    PROVE  \/ session[t] = c
           \/ jpc[<<t, a, op>>] = "delete" /\ hold[<<t, a, op>>] = c
<1> SUFFICES ASSUME session[t] # c
             PROVE  jpc[<<t, a, op>>] = "delete" /\ hold[<<t, a, op>>] = c
  OBVIOUS
<1>1. PICK b \in Attempts, o \in Ops :
          jpc[<<t, b, o>>] = "delete" /\ hold[<<t, b, o>>] = c
  BY DEF Sound, Known
<1>2. <<t, b, o>> = Mine(t)
  BY <1>1, OnlySteps
<1> QED
  BY <1>1, <1>2

\* A job that is under way is awaited, unless it is a step in its sandbox.
LEMMA MineBy ==
    ASSUME NEW t \in Trajs, Sound(t), NEW a \in Attempts, NEW op \in Ops,
           jpc[<<t, a, op>>] # "idle", op # "step" \/ jpc[<<t, a, op>>] # "exec"
    PROVE  <<t, a, op>> = Mine(t) /\ JobSound(t, a, op)
BY DEF Sound, JobSound, Mine

\* A job that takes a session leaves what the others hold.
LEMMA HoldOthers ==
    ASSUME TInv, NEW j \in Jobs, NEW h, hold' = [hold EXCEPT ![j] = h]
    PROVE  \A k \in Jobs : k # j => hold'[k] = hold[k]
BY DEF TInv, TypeOK

\* What a step of one job does to the others of its trajectory.
LEMMA OneJob ==
    ASSUME TInv, NEW t \in Trajs, NEW a \in Attempts, NEW op \in Ops, NEW pc,
           Goto(<<t, a, op>>, pc),
           \A k \in Jobs : k # <<t, a, op>> => hold'[k] = hold[k]
    PROVE  /\ jpc'[<<t, a, op>>] = pc
           /\ \A b \in Attempts, o \in Ops : ~(b = a /\ o = op)
                  => /\ jpc'[<<t, b, o>>] = jpc[<<t, b, o>>]
                     /\ hold'[<<t, b, o>>] = hold[<<t, b, o>>]
<1>1. <<t, a, op>> \in Jobs
  BY DEF Jobs
<1>2. ASSUME NEW b \in Attempts, NEW o \in Ops, ~(b = a /\ o = op)
      PROVE  <<t, b, o>> \in Jobs /\ <<t, b, o>> # <<t, a, op>>
  BY <1>2 DEF Jobs
<1> QED
  BY <1>1, <1>2 DEF Goto, TInv, TypeOK

\* A job ends and leaves session and sandboxes as they are.
LEMMA EndSound ==
    ASSUME TInv, NEW t \in Trajs, Sound(t), NEW a \in Attempts, NEW op \in Ops,
           jpc[<<t, a, op>>] \notin {"idle", "delete"},
           NEW result \in {"ok", "finish", "error"}, result \in Places(op),
           End(<<t, a, op>>, result),
           op \in {"close", "cleanup"} /\ result = "ok" => Bare(t),
           UNCHANGED <<setting, coVars>>,
           session'[t] = session[t], sandbox'[t] = sandbox[t],
           \/ closed'[t] = closed[t]
           \/ op \in {"close", "cleanup"} /\ session[t] = None
    PROVE  Sound(t)'
<1> DEFINE j == <<t, a, op>>
<1>1. /\ Mine(t) = j => jpc'[j] = result
      /\ Mine(t) # j => jpc'[j] = "idle"
      /\ \A b \in Attempts, o \in Ops : ~(b = a /\ o = op)
             => /\ jpc'[<<t, b, o>>] = jpc[<<t, b, o>>]
                /\ hold'[<<t, b, o>>] = hold[<<t, b, o>>]
  <2> DEFINE pc == IF Mine(t) = j THEN result ELSE "idle"
  <2>1. Goto(j, pc) /\ hold' = [hold EXCEPT ![j] = None]
    BY DEF End
  <2>2. \A k \in Jobs : k # j => hold'[k] = hold[k]
    <3>1. j \in Jobs
      BY DEF Jobs
    <3> HIDE DEF j
    <3> QED
      BY <2>1, <3>1, HoldOthers
  <2> HIDE DEF pc
  <2>3. /\ jpc'[j] = pc
        /\ \A b \in Attempts, o \in Ops : ~(b = a /\ o = op)
               => /\ jpc'[<<t, b, o>>] = jpc[<<t, b, o>>]
                  /\ hold'[<<t, b, o>>] = hold[<<t, b, o>>]
    BY <2>1, <2>2, OneJob
  <2> QED
    BY <2>3 DEF pc
<1>2. /\ Live(t)' = Live(t) /\ Bare(t)' = Bare(t)
      /\ cpc' = cpc /\ attempt' = attempt /\ setting' = setting
  BY DEF Live, Bare, coVars
<1>3. Known(t)'
  <2> SUFFICES ASSUME NEW c \in Live(t), session[t] # c
               PROVE  \E b \in Attempts, o \in Ops :
                         jpc'[<<t, b, o>>] = "delete" /\ hold'[<<t, b, o>>] = c
    BY <1>2 DEF Known
  <2>1. PICK b \in Attempts, o \in Ops :
            jpc[<<t, b, o>>] = "delete" /\ hold[<<t, b, o>>] = c
    BY DEF Sound, Known
  <2>2. ~(b = a /\ o = op)
    BY <2>1
  <2> QED
    BY <1>1, <2>1, <2>2
<1>4. closed'[t] => session'[t] = None
  BY DEF Sound
<1>5. session'[t] \in {None, attempt[t]}
  BY DEF Sound
<1>6. CASE Mine(t) = j
  <2>1. JobSound(t, a, op)
    BY DEF Sound
  <2>2. a = attempt[t] /\ op = cpc[t] /\ a <= attempt[t]
    BY <1>6, <2>1 DEF Mine, JobSound
  <2>3. JobSound(t, a, op)'
    BY <1>1, <1>2, <1>6, <2>2 DEF JobSound, Places
  <2> QED
    BY <1>1, <1>3, <1>4, <1>5, <1>6, <2>3, MineMoves
<1>7. CASE Mine(t) # j
  <2>1. op = "step" /\ jpc[j] = "exec" /\ jpc'[j] = "idle"
    BY <1>1, <1>7, OnlySteps
  <2>2. closed'[t] = closed[t]
    BY <2>1
  <2>3. ASSUME NEW b \in Attempts, NEW o \in Ops
        PROVE  JobSound(t, b, o)'
    <3>1. CASE b = a /\ o = op
      BY <2>1, <3>1 DEF JobSound, Places
    <3>2. CASE ~(b = a /\ o = op)
      <4>1. /\ jpc'[<<t, b, o>>] = jpc[<<t, b, o>>]
            /\ hold'[<<t, b, o>>] = hold[<<t, b, o>>]
            /\ JobSound(t, b, o)
        BY <1>1, <3>2 DEF Sound
      <4> QED
        BY <1>2, <2>2, <4>1 DEF JobSound
    <3> QED
      BY <3>1, <3>2
  <2>4. cpc[t] # "idle" /\ jpc[<<t, attempt[t], "step">>] = "idle"
            => jpc'[<<t, attempt[t], "step">>] = "idle"
    BY <1>1, <2>1, AttemptIsOne DEF Ops
  <2> QED
    BY <1>2, <1>3, <1>4, <1>5, <2>3, <2>4 DEF Sound, Over
<1> QED
  BY <1>6, <1>7

\* A thread takes a job of the trajectory.
LEMMA StartSound ==
    ASSUME TInv, NEW t \in Trajs, Sound(t), Start, Head(waiting)[1] = t
    PROVE  Sound(t)'
<1>1. /\ waiting # <<>> /\ waiting \in Seq(Jobs)
      /\ UNCHANGED <<setting, coVars, envVars>>
  BY DEF Start, TInv, TypeOK
<1>2. Head(waiting) \in Jobs
  BY <1>1
<1>3. PICK a \in Attempts, op \in Ops : Head(waiting) = <<t, a, op>>
  BY <1>2 DEF Jobs
<1> DEFINE j == <<t, a, op>>
<1>4. \/ UNCHANGED <<jpc, hold>>
      \/ /\ jpc[j] = "queued"
         /\ \/ op = "reset" /\ Goto(j, "check") /\ UNCHANGED hold
            \/ op = "step" /\ \E result \in {"ok", "finish"} : End(j, result)
            \/ op \in {"step", "reward"} /\ End(j, "error")
            \/ /\ op \in {"step", "reward"} /\ session[t] # None
               /\ Goto(j, "exec")
               /\ hold' = [hold EXCEPT ![j] = session[t]]
            \/ /\ op \in {"close", "cleanup"}
               /\ Goto(j, "detach") /\ UNCHANGED hold
  BY <1>3 DEF Start
<1>5. CASE UNCHANGED <<jpc, hold>>
  BY <1>1, <1>5, Frame DEF coVars, envVars
<1>6. CASE jpc[j] = "queued" /\ \E result \in {"ok", "finish", "error"} :
             /\ End(j, result) /\ op \in {"step", "reward"}
             /\ op = "reward" => result = "error"
  <2>1. PICK result \in {"ok", "finish", "error"} :
             /\ End(j, result) /\ op \in {"step", "reward"}
             /\ op = "reward" => result = "error"
    BY <1>6
  <2>2. result \in Places(op)
    BY <2>1 DEF Places
  <2>3. op \notin {"close", "cleanup"}
    BY <2>1
  <2>4. session'[t] = session[t] /\ sandbox'[t] = sandbox[t]
        /\ closed'[t] = closed[t] /\ UNCHANGED <<setting, coVars>>
    BY <1>1 DEF envVars
  <2>5. jpc[j] \notin {"idle", "delete"}
    BY <1>6
  <2> QED
    BY <2>1, <2>2, <2>3, <2>4, <2>5, EndSound
<1>7. ASSUME NEW pc \in {"check", "exec", "detach"}, jpc[j] = "queued",
             Goto(j, pc),
             \/ UNCHANGED hold /\ pc # "exec"
             \/ /\ hold' = [hold EXCEPT ![j] = session[t]]
                /\ session[t] # None /\ pc = "exec",
             pc = "check" => op = "reset",
             pc = "exec" => op \in {"step", "reward"},
             pc = "detach" => op \in {"close", "cleanup"}
      PROVE  Sound(t)'
  <2>1. j = Mine(t) /\ JobSound(t, a, op)
    BY <1>7, MineBy
  <2>2. /\ jpc'[j] = pc
        /\ \A b \in Attempts, o \in Ops : ~(b = a /\ o = op)
               => /\ jpc'[<<t, b, o>>] = jpc[<<t, b, o>>]
                  /\ hold'[<<t, b, o>>] = hold[<<t, b, o>>]
    <3>1. \A k \in Jobs : k # j => hold'[k] = hold[k]
      <4>1. j \in Jobs
        BY DEF Jobs
      <4> HIDE DEF j
      <4> QED
        BY <1>7, <4>1, HoldOthers
    <3> QED
      BY <1>7, <3>1, OneJob
  <2>3. /\ Live(t)' = Live(t) /\ Bare(t)' = Bare(t)
        /\ cpc' = cpc /\ attempt' = attempt
        /\ session' = session /\ closed' = closed
    BY <1>1 DEF Live, Bare, coVars, envVars
  <2>4. Known(t)'
    BY <1>7, <2>1, <2>3, KnownByMine DEF Known
  <2>5. a = attempt[t] /\ op = cpc[t] /\ a <= attempt[t]
    BY <1>7, <2>1 DEF JobSound
  <2>6. pc = "exec" => hold'[j] = a
    <3>1. j \in Jobs
      BY DEF Jobs
    <3> QED
      BY <1>7, <2>5, <3>1 DEF Sound, TInv, TypeOK
  <2>7. JobSound(t, a, op)'
    BY <1>7, <2>1, <2>2, <2>3, <2>5, <2>6 DEF JobSound, Places
  <2>8. (closed'[t] => session'[t] = None) /\ session'[t] \in {None, attempt[t]}
    BY <2>3 DEF Sound
  <2>9. jpc[j] # "idle" /\ UNCHANGED <<setting, coVars>>
    BY <1>1, <1>7
  <2> QED
    BY <2>1, <2>2, <2>4, <2>7, <2>8, <2>9, MineMoves
<1> QED
  BY <1>4, <1>5, <1>6, <1>7
\* A thread goes on with a job of the trajectory.
LEMMA JobStepSound ==
    ASSUME TInv, NEW t \in Trajs, Sound(t), NEW a \in Attempts, JobStep(t, a)
    PROVE  Sound(t)'
<1>1. /\ UNCHANGED <<setting, coVars>>
      /\ cpc' = cpc /\ attempt' = attempt
  BY DEF JobStep, ResetCheck, ResetOpen, ResetSession, ResetCreate, ResetSetup,
         Exec, Detach, Delete, coVars
<1>2. /\ session \in [Trajs -> Attempts \cup {None}]
      /\ closed \in [Trajs -> BOOLEAN]
      /\ sandbox \in [Trajs -> [Attempts -> {"none", "new", "live", "deleted",
                                             "stuck"}]]
      /\ hold \in [Jobs -> Attempts \cup {None}]
      /\ a \in Nat \ {0}
  BY DEF TInv, TypeOK, Attempts
<1>3. "reset" \in Ops /\ "reset" \notin {"close", "cleanup"}
      /\ <<t, a, "reset">> \in Jobs
  BY DEF Ops, Jobs
<1>4. (closed[t] => session[t] = None) /\ session[t] \in {None, attempt[t]}
  BY DEF Sound
\* The reset moves on.
<1>5. ASSUME NEW pc \in {"open", "new", "create", "setup"},
             jpc[<<t, a, "reset">>] \notin {"idle", "delete"},
             Goto(<<t, a, "reset">>, pc), UNCHANGED hold,
             pc \in {"create", "setup"} => session'[t] = a,
             pc \in {"open", "new"} => Bare(t)',
             pc = "new" => ~closed'[t],
             session'[t] # None => session'[t] = a /\ ~closed'[t],
             \A c \in Live(t)' : session'[t] = c
      PROVE  Sound(t)'
  <2>1. <<t, a, "reset">> = Mine(t) /\ JobSound(t, a, "reset")
    BY <1>3, <1>5, MineBy
  <2>2. /\ jpc'[<<t, a, "reset">>] = pc
        /\ \A b \in Attempts, o \in Ops : ~(b = a /\ o = "reset")
               => /\ jpc'[<<t, b, o>>] = jpc[<<t, b, o>>]
                  /\ hold'[<<t, b, o>>] = hold[<<t, b, o>>]
    BY <1>3, <1>5, OneJob
  <2>3. a = attempt[t] /\ "reset" = cpc[t]
    BY <2>1 DEF Mine
  <2>4. JobSound(t, a, "reset")'
    BY <1>1, <1>2, <1>5, <2>2, <2>3 DEF JobSound, Places
  <2>5. Known(t)'
    BY <1>5 DEF Known
  <2>6. session'[t] \in {None, attempt[t]} /\ (closed'[t] => session'[t] = None)
    BY <1>5, <2>3
  <2> QED
    BY <1>1, <1>3, <1>5, <2>1, <2>2, <2>4, <2>5, <2>6, MineMoves
<1>6. CASE ResetCheck(t, a)
  <2>1. jpc[<<t, a, "reset">>] = "check" /\ UNCHANGED <<hold, envVars>>
    BY <1>6 DEF ResetCheck
  <2>2. Bare(t)
    BY <1>3, <2>1, MineBy DEF JobSound
  <2>3. Goto(<<t, a, "reset">>, "open")
    BY <1>6, <2>2 DEF ResetCheck, Bare
  <2>4. Bare(t)' /\ session'[t] = None /\ Live(t)' = {}
    BY <2>1, <2>2 DEF Bare, Live, envVars
  <2> QED
    BY <1>5, <2>1, <2>3, <2>4
<1>7. CASE ResetOpen(t, a)
  <2>1. /\ jpc[<<t, a, "reset">>] = "open"
        /\ UNCHANGED <<hold, session, sandbox>>
        /\ Goto(<<t, a, "reset">>, "new") /\ ~closed'[t]
    BY <1>2, <1>7 DEF ResetOpen
  <2>2. Bare(t)
    BY <1>3, <2>1, MineBy DEF JobSound
  <2>3. Bare(t)' /\ session'[t] = None /\ Live(t)' = {}
    BY <2>1, <2>2 DEF Bare, Live
  <2> QED
    BY <1>5, <2>1, <2>3
<1>8. CASE ResetSession(t, a)
  <2>1. /\ jpc[<<t, a, "reset">>] = "new" /\ UNCHANGED <<hold, closed>>
        /\ Goto(<<t, a, "reset">>, "create")
        /\ session'[t] = a /\ sandbox' = [sandbox EXCEPT ![t][a] = "new"]
    BY <1>2, <1>8 DEF ResetSession
  <2>2. Bare(t) /\ ~closed[t]
    BY <1>3, <2>1, MineBy DEF JobSound
  <2>3. Live(t)' = {}
    <3>1. sandbox'[t] = [sandbox[t] EXCEPT ![a] = "new"]
      BY <1>2, <2>1
    <3> QED
      BY <1>2, <2>2, <3>1 DEF Bare, Live
  <2> QED
    BY <1>5, <2>1, <2>2, <2>3
<1>9. CASE ResetCreate(t, a)
  <2>1. jpc[<<t, a, "reset">>] = "create" /\ UNCHANGED <<session, closed>>
    BY <1>9 DEF ResetCreate
  <2>2. session[t] = a /\ ~closed[t] /\ <<t, a, "reset">> = Mine(t)
    BY <1>2, <1>3, <1>4, <2>1, MineBy DEF JobSound, None
  <2>3. CASE End(<<t, a, "reset">>, "error") /\ UNCHANGED sandbox
    <3>1. "error" \in Places("reset")
      BY DEF Places
    <3>2. jpc[<<t, a, "reset">>] \notin {"idle", "delete"}
      BY <2>1
    <3> QED
      BY <1>1, <1>3, <2>1, <2>3, <3>1, <3>2, EndSound
  <2>4. CASE /\ sandbox' = [sandbox EXCEPT ![t][a] = "live"]
             /\ Goto(<<t, a, "reset">>, "setup") /\ UNCHANGED hold
    <3>1. sandbox'[t] = [sandbox[t] EXCEPT ![a] = "live"]
      BY <1>2, <2>4
    <3>2. ASSUME NEW c \in Live(t)' PROVE session'[t] = c
      <4>1. c = a \/ c \in Live(t)
        BY <1>2, <3>1 DEF Live
      <4> QED
        BY <1>3, <2>1, <2>2, <4>1, KnownByMine
    <3> QED
      BY <1>5, <2>1, <2>2, <2>4, <3>2
  <2> QED
    BY <1>9, <2>3, <2>4 DEF ResetCreate
<1>10. CASE ResetSetup(t, a)
  <2>1. /\ jpc[<<t, a, "reset">>] = "setup" /\ UNCHANGED envVars
        /\ \E result \in {"ok", "error"} : End(<<t, a, "reset">>, result)
    BY <1>10 DEF ResetSetup
  <2>2. {"ok", "error"} \subseteq Places("reset")
    BY DEF Places
  <2>3. session' = session /\ sandbox' = sandbox /\ closed' = closed
    BY <2>1 DEF envVars
  <2>4. jpc[<<t, a, "reset">>] \notin {"idle", "delete"}
    BY <2>1
  <2> QED
    BY <1>1, <1>3, <2>1, <2>2, <2>3, <2>4, EndSound
<1>11. ASSUME NEW op \in Ops, Exec(t, a, op)
       PROVE  Sound(t)'
  <2>1. /\ jpc[<<t, a, op>>] = "exec" /\ UNCHANGED envVars
        /\ op \in {"step", "reward"}
        /\ \E result \in {"ok", "error"} : End(<<t, a, op>>, result)
    BY <1>11 DEF Exec
  <2>2. {"ok", "error"} \subseteq Places(op) /\ op \notin {"close", "cleanup"}
    BY <2>1 DEF Places
  <2>3. session' = session /\ sandbox' = sandbox /\ closed' = closed
    BY <2>1 DEF envVars
  <2>4. jpc[<<t, a, op>>] \notin {"idle", "delete"}
    BY <2>1
  <2> QED
    BY <1>1, <2>1, <2>2, <2>3, <2>4, EndSound
\* A job that closes.
<1>12. ASSUME NEW op \in Ops, jpc[<<t, a, op>>] \in {"detach", "delete"}
       PROVE  /\ op \in {"close", "cleanup"} /\ <<t, a, op>> = Mine(t)
              /\ a = attempt[t] /\ op = cpc[t] /\ JobSound(t, a, op)
              /\ "ok" \in Places(op) /\ <<t, a, op>> \in Jobs
  <2>1. <<t, a, op>> = Mine(t) /\ JobSound(t, a, op)
    BY <1>12, MineBy
  <2>2. op \in {"close", "cleanup"}
    BY <1>12, <2>1 DEF JobSound, Places, Ops
  <2> QED
    BY <2>1, <2>2 DEF Mine, Places, Jobs
<1>13. ASSUME NEW op \in Ops, Detach(t, a, op)
       PROVE  Sound(t)'
  <2> DEFINE j == <<t, a, op>>
  <2>1. jpc[j] = "detach" /\ sandbox' = sandbox
    BY <1>13 DEF Detach
  <2>2. /\ op \in {"close", "cleanup"} /\ j = Mine(t)
        /\ a = attempt[t] /\ op = cpc[t] /\ JobSound(t, a, op)
        /\ "ok" \in Places(op) /\ j \in Jobs
    BY <1>12, <2>1
  <2>3. \A c \in Live(t) : session[t] = c
    BY <2>1, <2>2, KnownByMine
  <2>4. session'[t] = None
    BY <1>2, <1>4, <1>13 DEF Detach
  <2>5. CASE session[t] = None
    <3>1. End(j, "ok")
      BY <1>4, <1>13, <2>2, <2>5 DEF Detach, AfterClose
    <3>2. Bare(t)
      BY <1>2, <2>3, <2>5 DEF Bare, Live, None, Attempts
    <3>3. jpc[j] \notin {"idle", "delete"}
      BY <2>1
    <3>4. session'[t] = session[t] /\ sandbox'[t] = sandbox[t]
      BY <2>1, <2>4, <2>5
    <3> QED
      BY <1>1, <2>2, <2>5, <3>1, <3>2, <3>3, <3>4, EndSound
  <2>6. CASE session[t] # None
    <3>1. Goto(j, "delete") /\ hold' = [hold EXCEPT ![j] = session[t]]
      BY <1>4, <1>13, <2>6 DEF Detach
    <3>2. \A k \in Jobs : k # j => hold'[k] = hold[k]
      <4> HIDE DEF j
      <4> QED
        BY <2>2, <3>1, HoldOthers
    <3>3. /\ jpc'[j] = "delete"
          /\ \A b \in Attempts, o \in Ops : ~(b = a /\ o = op)
                 => /\ jpc'[<<t, b, o>>] = jpc[<<t, b, o>>]
                    /\ hold'[<<t, b, o>>] = hold[<<t, b, o>>]
      BY <3>1, <3>2, OneJob
    <3>4. hold'[j] = session[t]
      BY <1>2, <2>2, <3>1
    <3>5. Known(t)'
      <4>1. Live(t)' = Live(t)
        BY <2>1 DEF Live
      <4> QED
        BY <2>3, <3>3, <3>4, <4>1 DEF Known
    <3>6. a <= attempt[t]
      BY <1>2, <2>2
    <3>7. JobSound(t, a, op)'
      BY <1>1, <2>2, <2>4, <3>3, <3>6 DEF JobSound, Places
    <3>8. jpc[j] # "idle" /\ session'[t] \in {None, attempt[t]}
      BY <2>1, <2>4
    <3> QED
      BY <1>1, <2>2, <2>4, <3>3, <3>5, <3>7, <3>8, MineMoves
  <2> QED
    BY <2>5, <2>6
<1>14. ASSUME NEW op \in Ops, Delete(t, a, op)
       PROVE  Sound(t)'
  <2> DEFINE j == <<t, a, op>>
             s == hold[j]
  <2>1. jpc[j] = "delete" /\ UNCHANGED <<session, closed>>
    BY <1>14 DEF Delete
  <2>2. /\ op \in {"close", "cleanup"} /\ j = Mine(t)
        /\ a = attempt[t] /\ op = cpc[t] /\ JobSound(t, a, op)
        /\ "ok" \in Places(op) /\ j \in Jobs
    BY <1>12, <2>1
  <2>3. session[t] = None
    BY <2>1, <2>2 DEF JobSound
  <2>4. \A c \in Live(t) : c = s
    BY <1>2, <2>2, <2>3, KnownByMine DEF Live, None, Attempts
  <2>5. PICK end \in {"deleted", "stuck"} :
            sandbox' = [sandbox EXCEPT ![t][s] = IF @ = "live" THEN end ELSE @]
    BY <1>14 DEF Delete
  <2>6. Live(t)' = {}
    <3>1. sandbox'[t] = [sandbox[t] EXCEPT ![s] = IF @ = "live" THEN end ELSE @]
      BY <1>2, <2>5
    <3>2. ASSUME NEW c \in Attempts PROVE sandbox'[t][c] # "live"
      <4>1. CASE c = s
        BY <1>2, <3>1, <4>1
      <4>2. CASE c # s
        BY <1>2, <2>4, <3>1, <4>2 DEF Live
      <4> QED
        BY <4>1, <4>2
    <3> QED
      BY <3>2 DEF Live
  <2>7. Goto(j, "ok") /\ hold' = [hold EXCEPT ![j] = None]
    BY <1>14, <2>2 DEF Delete, AfterClose, End
  <2>8. \A k \in Jobs : k # j => hold'[k] = hold[k]
    <3> HIDE DEF j
    <3> QED
      BY <2>2, <2>7, HoldOthers
  <2>9. /\ jpc'[j] = "ok"
        /\ \A b \in Attempts, o \in Ops : ~(b = a /\ o = op)
               => /\ jpc'[<<t, b, o>>] = jpc[<<t, b, o>>]
                  /\ hold'[<<t, b, o>>] = hold[<<t, b, o>>]
    BY <2>7, <2>8, OneJob
  <2>10. a <= attempt[t]
    BY <1>2, <2>2
  <2>11. Bare(t)' /\ Known(t)'
    BY <2>1, <2>3, <2>6 DEF Bare, Known
  <2>12. JobSound(t, a, op)'
    BY <1>1, <2>2, <2>9, <2>10, <2>11 DEF JobSound, Places
  <2>13. /\ jpc[j] # "idle" /\ session'[t] \in {None, attempt[t]}
         /\ closed'[t] => session'[t] = None
    BY <2>1, <2>3
  <2> QED
    BY <1>1, <2>2, <2>9, <2>11, <2>12, <2>13, MineMoves
<1> QED
  BY <1>6, <1>7, <1>8, <1>9, <1>10, <1>11, <1>13, <1>14 DEF JobStep
-------------------------------------------------------------------------------
(* The whole batch *)

\* Every step of the batch keeps every trajectory sound.
LEMMA StepSound ==
    ASSUME ~setting.cancels, TInv, RInv, Next
    PROVE  RInv'
<1> SUFFICES ASSUME NEW u \in Trajs PROVE Sound(u)'
  BY DEF RInv
<1>0. Sound(u)
  BY DEF RInv
<1>1. CASE \E t \in Trajs : CoroutineStep(t)
  BY <1>0, <1>1, CoroutineSound, CoroutineFrame
<1>2. CASE Start
  <2> DEFINE j == Head(waiting)
  <2>1. j \in Jobs /\ UNCHANGED <<setting, coVars, envVars>>
    BY <1>2 DEF Start, TInv, TypeOK
  <2>2. PICK t \in Trajs, a \in Attempts, op \in Ops : j = <<t, a, op>>
    BY <2>1 DEF Jobs
  <2>3. CASE u = t
    BY <1>0, <1>2, <2>2, <2>3, StartSound
  <2>4. CASE u # t
    <3>1. /\ \/ UNCHANGED jpc
             \/ \E pc : Goto(j, pc)
          /\ \/ UNCHANGED hold
             \/ \E s : hold' = [hold EXCEPT ![j] = s]
      BY <1>2 DEF Start, End
    <3>2. \A k \in Jobs : k # j => jpc'[k] = jpc[k] /\ hold'[k] = hold[k]
      <4> HIDE DEF j
      <4> QED
        BY <2>1, <3>1, HoldOthers DEF Goto, TInv, TypeOK
    <3>3. ASSUME NEW b \in Attempts, NEW o \in Ops
          PROVE  <<u, b, o>> \in Jobs /\ <<u, b, o>> # j
      BY <2>2, <2>4 DEF Jobs
    <3> HIDE DEF j
    <3> QED
      BY <1>0, <2>1, <3>2, <3>3, Frame DEF coVars, envVars
  <2> QED
    BY <2>3, <2>4
<1>3. ASSUME NEW t \in Trajs, NEW a \in Attempts, JobStep(t, a)
      PROVE  Sound(u)'
  <2>1. CASE u = t
    BY <1>0, <1>3, <2>1, JobStepSound
  <2>2. CASE u # t
    <3>1. PICK op \in Ops :
          /\ UNCHANGED <<setting, coVars>>
          /\ \E pc : Goto(<<t, a, op>>, pc)
          /\ \/ UNCHANGED hold
             \/ \E s : hold' = [hold EXCEPT ![<<t, a, op>>] = s]
      <4>1. "reset" \in Ops
        BY DEF Ops
      <4>2. CASE \E op \in Ops : Exec(t, a, op) \/ Detach(t, a, op)
                                                \/ Delete(t, a, op)
        BY <4>2 DEF Exec, Detach, Delete, AfterClose, End
      <4>3. CASE ~\E op \in Ops : Exec(t, a, op) \/ Detach(t, a, op)
                                                 \/ Delete(t, a, op)
        BY <1>3, <4>1, <4>3 DEF JobStep, ResetCheck, ResetOpen, ResetSession,
                                ResetCreate, ResetSetup, End
      <4> QED
        BY <4>2, <4>3
    <3>2. /\ session'[u] = session[u]
          /\ closed'[u] = closed[u]
          /\ sandbox'[u] = sandbox[u]
      BY <1>3, <2>2 DEF JobStep, ResetCheck, ResetOpen, ResetSession,
             ResetCreate, ResetSetup, Exec, Detach, Delete, envVars, TInv,
             TypeOK
    <3> QED
      BY <1>0, <2>2, <3>1, <3>2, JobFrame
  <2> QED
    BY <2>1, <2>2
<1> QED
  BY <1>1, <1>2, <1>3 DEF Next

\* Before the batch starts every trajectory is sound.
LEMMA SoundInit == Init => RInv
<1> SUFFICES ASSUME Init, NEW t \in Trajs PROVE Sound(t)
  BY DEF RInv
<1>1. Live(t) = {} /\ session[t] = None /\ ~closed[t] /\ attempt[t] = 0
      /\ cpc[t] = "idle"
  BY DEF Init, Live
<1>2. ASSUME NEW b \in Attempts, NEW op \in Ops
      PROVE  JobSound(t, b, op)
  <2>1. jpc[<<t, b, op>>] = "idle"
    BY DEF Init, Jobs
  <2> QED
    BY <2>1 DEF JobSound, Places, Ops
<1> QED
  BY <1>1, <1>2 DEF Sound, Known, Bare

\* A stutter changes nothing.
LEMMA StutterSound ==
    ASSUME TInv, RInv, UNCHANGED vars
    PROVE  RInv'
BY Frame DEF RInv, vars, coVars, envVars

\* The settings do not change.
LEMMA SettingStays == [Next]_vars => setting' = setting
<1>1. ASSUME NEW t \in Trajs, CoroutineStep(t) PROVE setting' = setting
  BY <1>1 DEF CoroutineStep, Launch, ResetDone, ModelAnswers, StepDone,
         EpisodeEnds, LeaveLoop, StepTimeout, RewardDone, CloseDone,
         AttemptFails, RunTimeout, Retry, GiveUp
<1>2. ASSUME NEW t \in Trajs, NEW a \in Attempts, JobStep(t, a)
      PROVE  setting' = setting
  BY <1>2 DEF JobStep, ResetCheck, ResetOpen, ResetSession, ResetCreate,
         ResetSetup, Exec, Detach, Delete
<1>3. Start \/ UNCHANGED vars => setting' = setting
  BY DEF Start, vars
<1> QED
  BY <1>1, <1>2, <1>3 DEF Next

\* Without the 7200 s timeout the sessions, the sandboxes and the jobs of every
\* trajectory fit together: the invariant the other theorems follow from.
THEOREM RolloutInvariance == Spec => [](TInv /\ (~setting.cancels => RInv))
<1> DEFINE Inv == TInv /\ (~setting.cancels => RInv)
<1>1. Inv /\ [Next]_vars => Inv'
  <2> SUFFICES ASSUME Inv, [Next]_vars
               PROVE  TInv' /\ (~setting'.cancels => RInv')
    OBVIOUS
  <2>0. setting' = setting
    BY SettingStays
  <2>1. CASE UNCHANGED vars
    <3>1. TInv'
      BY <2>1 DEF vars, coVars, envVars, TInv, TypeOK
    <3> QED
      BY <2>0, <2>1, <3>1, StutterSound
  <2>2. CASE Next
    <3>1. TInv'
      BY <2>2, CoroutineTypes, StartTypes, JobTypes DEF Next
    <3> QED
      BY <2>0, <2>2, <3>1, StepSound
  <2> QED
    BY <2>1, <2>2
<1>2. Init => Inv
  BY TypesInit, SoundInit
<1> QED
  BY <1>1, <1>2, PTL DEF Spec

\* While no attempt is cancelled, a trajectory that is over has no sandbox left
\* but those the gateway refused to delete, whatever steps were abandoned
\* (lines 889 to 910 of the engine, swe.py 387 to 402).
THEOREM NothingLeaks == Spec => []NoLeakUncancelled
<1>1. RInv => NoLeak
  <2> SUFFICES ASSUME RInv, NEW t \in Trajs, Over(t)
               PROVE  Held(t) \subseteq Refused(t)
    BY DEF NoLeak
  <2>1. Live(t) = {}
    BY DEF RInv, Sound, Bare
  <2> QED
    BY <2>1 DEF Live, Held, Refused
<1>2. TInv /\ (~setting.cancels => RInv) => NoLeakUncancelled
  BY <1>1 DEF NoLeakUncancelled
<1> QED
  BY <1>2, RolloutInvariance, PTL

\* A reset never replaces a session (swe.py 318 to 322).
THEOREM ResetsFindNoSession == Spec => []ResetFindsNoSession
<1>1. TInv /\ (~setting.cancels => RInv) => ResetFindsNoSession
  <2> SUFFICES ASSUME RInv, NEW t \in Trajs, NEW a \in Attempts,
                      jpc[<<t, a, "reset">>] \in {"check", "open", "new"}
               PROVE  session[t] = None
    BY DEF ResetFindsNoSession
  <2>1. JobSound(t, a, "reset")
    BY DEF RInv, Sound, Ops
  <2> QED
    BY <2>1 DEF JobSound, Bare
<1> QED
  BY <1>1, RolloutInvariance, PTL

\* With the overlong filter no abandoned step is in the sandbox that is being
\* scored (lines 321 to 332 and 415 to 448 of the engine).
THEOREM RewardsRunAlone == Spec => []RewardRunsAlone
<1>1. TInv /\ (~setting.cancels => RInv) => RewardRunsAlone
  <2> SUFFICES ASSUME RInv, setting.filter, NEW t \in Trajs,
                      NEW a \in Attempts, NEW b \in Attempts,
                      jpc[<<t, a, "reward">>] = "exec",
                      jpc[<<t, b, "step">>] = "exec",
                      hold[<<t, a, "reward">>] = hold[<<t, b, "step">>]
               PROVE  FALSE
    BY DEF RewardRunsAlone
  <2>1. Sound(t)
    BY DEF RInv
  <2>2. JobSound(t, a, "reward") /\ JobSound(t, b, "step")
    BY <2>1 DEF Sound, Ops
  <2>3. a = attempt[t] /\ cpc[t] = "reward" /\ a = b
    BY <2>2 DEF JobSound
  <2> QED
    BY <2>1, <2>3 DEF Sound
<1> QED
  BY <1>1, RolloutInvariance, PTL

-------------------------------------------------------------------------------
(* The quota *)

Launched == {t \in Trajs : Active(t)}
Sandboxes == {p \in Trajs \X Attempts : p[2] \in Live(p[1])}

QInv == Cardinality(Launched) <= setting.slots

\* The launched trajectories can be counted.
LEMMA LaunchedFinite ==
    IsFiniteSet(Launched) /\ Cardinality(Launched) \in Nat
<1>1. Launched \subseteq Trajs
  BY DEF Launched
<1> QED
  BY <1>1, RolloutAssumption, FS_Subset, FS_CardinalityType

\* Only the semaphore lets one more trajectory in.
LEMMA QuotaStep ==
    ASSUME TInv, QInv, [Next]_vars
    PROVE  QInv'
<1>0. setting' = setting /\ setting.slots \in Nat
  BY SettingStays, RolloutAssumption DEF TInv, TypeOK
<1>1. CASE Launched' \subseteq Launched
  <2>1. Cardinality(Launched') <= Cardinality(Launched)
        /\ Cardinality(Launched') \in Nat
    BY <1>1, LaunchedFinite, FS_Subset, FS_CardinalityType
  <2> QED
    BY <1>0, <2>1, LaunchedFinite DEF QInv
<1>2. ASSUME NEW t \in Trajs, Launch(t)
      PROVE  QInv'
  <2>1. Launched' \subseteq Launched \cup {t}
    BY <1>2 DEF Launch, Submit, Launched, Active, Over, TInv, TypeOK
  <2>2. Cardinality(Launched) < setting.slots
    BY <1>2 DEF Launch, Launched
  <2>3. IsFiniteSet(Launched \cup {t})
        /\ Cardinality(Launched \cup {t}) <= Cardinality(Launched) + 1
    BY LaunchedFinite, FS_AddElement
  <2>4. Cardinality(Launched') <= Cardinality(Launched \cup {t})
        /\ Cardinality(Launched') \in Nat
        /\ Cardinality(Launched \cup {t}) \in Nat
    BY <2>1, <2>3, FS_Subset, FS_CardinalityType
  <2> QED
    BY <1>0, <2>2, <2>3, <2>4, LaunchedFinite DEF QInv
<1>3. ASSUME NEW t \in Trajs, CoroutineStep(t), ~Launch(t)
      PROVE  Launched' \subseteq Launched
  <2>1. /\ cpc[t] \notin {"idle", "done", "failed"}
        /\ \/ \E a, op : Submit(t, a, op)
           \/ \E pc : Consume(t, pc)
    BY <1>3 DEF CoroutineStep, ResetDone, ModelAnswers, StepDone, EpisodeEnds,
           LeaveLoop, StepTimeout, RewardDone, CloseDone, AttemptFails,
           RunTimeout, Retry, GiveUp
  <2>2. \A u \in Trajs : u # t => cpc'[u] = cpc[u]
    BY <2>1 DEF Submit, Consume, TInv, TypeOK
  <2> QED
    BY <2>1, <2>2 DEF Launched, Active, Over
<1>4. CASE UNCHANGED cpc
  BY <1>1, <1>4 DEF Launched, Active, Over
<1>5. ASSUME NEW t \in Trajs, NEW a \in Attempts, JobStep(t, a)
      PROVE  UNCHANGED cpc
  BY <1>5 DEF JobStep, ResetCheck, ResetOpen, ResetSession, ResetCreate,
              ResetSetup, Exec, Detach, Delete, coVars
<1>6. Start \/ UNCHANGED vars => UNCHANGED cpc
  BY DEF Start, coVars, vars
<1> QED
  BY <1>1, <1>2, <1>3, <1>4, <1>5, <1>6 DEF Next

\* A trajectory has at most one sandbox, and none unless it is active.
LEMMA OneSandbox ==
    ASSUME RInv
    PROVE  Cardinality(Sandboxes) <= Cardinality(Launched)
<1>1. ASSUME NEW t \in Trajs, NEW c \in Live(t) PROVE Active(t)
  <2>1. Sound(t)
    BY DEF RInv
  <2> QED
    BY <2>1 DEF Sound, Bare, Active
<1>2. ASSUME NEW t \in Trajs, NEW c \in Live(t), NEW d \in Live(t)
      PROVE  c = d
  <2>1. Sound(t)
    BY DEF RInv
  <2>2. CASE session[t] = c /\ session[t] = d
    BY <2>2
  <2>3. ASSUME NEW e \in Live(t), session[t] # e
        PROVE  /\ session[t] = None
               /\ hold[Mine(t)] = e
    <3>1. PICK b \in Attempts, o \in Ops :
              jpc[<<t, b, o>>] = "delete" /\ hold[<<t, b, o>>] = e
      BY <2>1, <2>3 DEF Sound, Known
    <3>2. <<t, b, o>> = Mine(t) /\ JobSound(t, b, o)
      BY <2>1, <3>1, MineBy
    <3> QED
      BY <3>1, <3>2 DEF JobSound
  <2>4. c # None /\ d # None
    BY DEF Live, Attempts, None
  <2> QED
    BY <2>2, <2>3, <2>4
<1> DEFINE f == [p \in Sandboxes |-> p[1]]
<1>3. f \in [Sandboxes -> Launched]
  BY <1>1 DEF Sandboxes, Launched
<1>4. ASSUME NEW p \in Sandboxes, NEW q \in Sandboxes, f[p] = f[q]
      PROVE  p = q
  <2>1. p[1] = q[1] /\ p[1] \in Trajs
    BY <1>4 DEF Sandboxes
  <2>2. p[2] \in Live(p[1]) /\ q[2] \in Live(p[1])
    BY <2>1 DEF Sandboxes
  <2>3. p[2] = q[2]
    BY <1>2, <2>1, <2>2
  <2>4. p = <<p[1], p[2]>> /\ q = <<q[1], q[2]>>
    BY DEF Sandboxes
  <2> QED
    BY <2>1, <2>3, <2>4
<1>5. f \in Injection(Sandboxes, Launched)
  BY <1>3, <1>4 DEF Injection, IsInjective
<1> QED
  BY <1>5, LaunchedFinite, FS_Injection

\* While no attempt is cancelled, the batch holds at most n_parallel_agents
\* sandboxes beyond those the gateway refused to delete (lines 924 to 934 of the
\* engine, swe.py 387 to 402).
THEOREM QuotaHolds == Spec => []SandboxQuota
<1>1. Init => QInv
  <2> SUFFICES ASSUME Init PROVE QInv
    OBVIOUS
  <2>1. Launched = {}
    BY DEF Init, Launched, Active
  <2>2. setting.slots \in Nat
    BY RolloutAssumption DEF Init
  <2> QED
    BY <2>1, <2>2, FS_EmptySet DEF QInv
<1>2. TInv /\ (~setting.cancels => RInv) /\ QInv => SandboxQuota
  <2> SUFFICES ASSUME TInv, RInv, QInv
               PROVE  Cardinality(AllHeld)
                          <= setting.slots + Cardinality(AllRefused)
    BY DEF SandboxQuota
  <2>1. Cardinality(Sandboxes) <= Cardinality(Launched)
    BY OneSandbox
  <2>2. IsFiniteSet(Sandboxes) /\ IsFiniteSet(AllRefused)
    <3>1. IsFiniteSet(Attempts)
      BY RolloutAssumption, FS_Interval DEF Attempts
    <3>2. IsFiniteSet(Trajs \X Attempts)
      BY <3>1, RolloutAssumption, FS_Product
    <3> QED
      BY <3>2, FS_Subset DEF Sandboxes, AllRefused
  <2>3. AllHeld = Sandboxes \cup AllRefused
    BY DEF AllHeld, AllRefused, Sandboxes, Held, Refused, Live
  <2>4. /\ Cardinality(Sandboxes) \in Nat
        /\ Cardinality(AllRefused) \in Nat
        /\ Cardinality(Sandboxes \cap AllRefused) \in Nat
        /\ Cardinality(AllHeld) = Cardinality(Sandboxes)
              + Cardinality(AllRefused) - Cardinality(Sandboxes \cap AllRefused)
    BY <2>2, <2>3, FS_Union, FS_Intersection, FS_CardinalityType
  <2>5. setting.slots \in Nat
    BY RolloutAssumption DEF TInv, TypeOK
  <2> QED
    BY <2>1, <2>4, <2>5, LaunchedFinite DEF QInv
<1>3. TInv /\ QInv /\ [Next]_vars => QInv'
  BY QuotaStep
<1> QED
  BY <1>1, <1>2, <1>3, RolloutInvariance, PTL DEF Spec
===============================================================================
