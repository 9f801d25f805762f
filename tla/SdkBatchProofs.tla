---------------------------- MODULE SdkBatchProofs ----------------------------
(***************************************************************************)
(* What holds of every batch, for any tasks, number of calls, rounds and   *)
(* retries, whatever goes wrong and in whatever order the calls, the       *)
(* tracer and the engine get on.                                           *)
(*                                                                         *)
(* A job that is through keeps its session, so what the jobs of earlier    *)
(* rounds, the proxy and the tracer still do cannot change what a flush    *)
(* asked about, what is read from the store or what is delivered: this is  *)
(* Frame, and the rest follows the engine.                                 *)
(***************************************************************************)
EXTENDS SdkBatch, ListsProofs, FiniteSetTheorems, TLAPS

USE BatchAssumption DEF Attempts, Rounds, Rollouts, Jobs, Calls

-------------------------------------------------------------------------------
(* Types *)

States == {"new", "pending", "stored", "failed", "dropped"}

\* The variables of TraceLog, and what a step needs to know of the jobs.
Types ==
    /\ TypeOK
    /\ status \in [Calls -> States]
    /\ asked \in [Rounds -> SUBSET Calls]
    /\ answer \in [Rounds -> {"idle", "join", "true", "false"}]
    /\ Len(made) <= MaxCalls
    /\ \A i \in DOMAIN read : read[i] \in Seq(Calls)
    /\ \A j \in Jobs : /\ pc[j] \in {"run", "call", "ok", "raised"}
                             => attempt[j] \in Attempts
                       /\ pc[j] = "call" => CallsOf(Session(j)) # {}

\* The job of a rollout.
LEMMA MineIs ==
    ASSUME NEW i \in Rollouts, round \in Rounds
    PROVE  Mine(i) \in Jobs /\ Mine(i)[2] = i
  BY DEF Mine

\* Jobs have different sessions.
LEMMA SessionsDiffer ==
    ASSUME NEW j \in Jobs, NEW k \in Jobs, Session(j) = Session(k)
    PROVE  j = k
  BY DEF Session

\* Each call has its place in the log of calls.
LEMMA CallsAre ==
    ASSUME Types
    PROVE  /\ DOMAIN made = 1..Len(made) /\ DOMAIN made \subseteq Calls
           /\ \A s : CallsOf(s) \subseteq DOMAIN made
<1>1. /\ made \in Seq(Rounds \X Rollouts \X Attempts)
      /\ Len(made) <= MaxCalls
  BY DEF Types, TypeOK
<1>2. PICK n \in Nat : n = Len(made)
  BY <1>1, LenProperties
<1>3. DOMAIN made = 1..n
  BY <1>1, <1>2, LenProperties
<1>4. n <= MaxCalls /\ 1..n \subseteq 1..MaxCalls
  BY <1>1, <1>2
<1>5. QED
  BY <1>2, <1>3, <1>4 DEF CallsOf

\* Whoever waits for a call has made it.
LEMMA LatestIs ==
    ASSUME Types, NEW j \in Jobs, pc[j] = "call"
    PROVE  /\ Latest(j) \in CallsOf(Session(j))
           /\ Latest(j) \in DOMAIN made /\ Latest(j) \in Calls
           /\ made[Latest(j)] = Session(j)
<1>1. PICK T : T = CallsOf(Session(j))
  OBVIOUS
<1>2. T # {}
  BY <1>1 DEF Types
<1>3. T \subseteq 0..MaxCalls
  <2>1. T \subseteq Calls
    BY <1>1, CallsAre
  <2>2. QED
    BY <2>1
<1>4. \E x \in T : \A y \in T : x >= y
  <2>1. PICK x \in T : \A y \in T : y <= x
    BY <1>2, <1>3, GreatestNat
  <2>2. \A y \in T : x >= y
    BY <1>3, <2>1
  <2>3. QED
    BY <2>2
<1>5. Latest(j) \in T
  BY <1>1, <1>4 DEF Latest, Max
<1>6. QED
  BY <1>1, <1>5, CallsAre DEF CallsOf

\* A job goes on in an attempt.
LEMMA JobTypes ==
    ASSUME Types, NEW j \in Jobs, NEW to \in {"run", "ok", "raised"},
           NEW a \in Attempts,
           pc' = [pc EXCEPT ![j] = to],
           attempt' = [attempt EXCEPT ![j] = a],
           UNCHANGED <<engineVars, made, open, accepted, logVars>>,
           answered' \subseteq DOMAIN made,
           faults' \in 0..MaxFaults
    PROVE  Types'
<1>1. TypeOK'
  BY DEF Types, TypeOK, engineVars
<1>2. ASSUME NEW k \in Jobs
      PROVE  /\ pc'[k] \in {"run", "call", "ok", "raised"}
                   => attempt'[k] \in Attempts
             /\ pc'[k] = "call" => CallsOf(Session(k))' # {}
  <2>1. CASE k = j
    BY <2>1 DEF Types, TypeOK
  <2>2. CASE k # j
    <3>1. pc'[k] = pc[k] /\ attempt'[k] = attempt[k]
      BY <2>2 DEF Types, TypeOK
    <3>2. CallsOf(Session(k))' = CallsOf(Session(k))
      BY <3>1 DEF CallsOf, Session
    <3>3. QED
      BY <3>1, <3>2 DEF Types
  <2>3. QED
    BY <2>1, <2>2
<1>3. QED
  BY <1>1, <1>2 DEF Types, engineVars, logVars

\* What keeps the jobs and the calls keeps what relates them.
LEMMA OtherTypes ==
    ASSUME Types, UNCHANGED <<jobVars, made, answered>>,
           kind' \in Kinds \cup {"unseen"},
           epc' \in {"gather", "flush", "read", "done", "raised"},
           round' = round,
           DOMAIN read' \subseteq Rollouts,
           \A i \in DOMAIN read' : read'[i] \in Seq(Calls),
           open' \subseteq DOMAIN made,
           accepted' \in Seq(DOMAIN made),
           status' \in [Calls -> States],
           asked' \in [Rounds -> SUBSET Calls],
           answer' \in [Rounds -> {"idle", "join", "true", "false"}],
           faults' \in 0..MaxFaults
    PROVE  Types'
<1>1. pc' = pc /\ attempt' = attempt /\ made' = made /\ answered' = answered
  BY DEF jobVars
<1>2. TypeOK'
  BY <1>1 DEF Types, TypeOK
<1>3. \A k \in Jobs : CallsOf(Session(k))' = CallsOf(Session(k))
  BY <1>1 DEF CallsOf, Session
<1>4. QED
  BY <1>1, <1>2, <1>3 DEF Types

\* A step of the log keeps its types.
LEMMA LogTypes ==
    ASSUME Types,
           \/ \E c \in Calls : Log!Log(c) \/ Log!Settle(c)
           \/ \E f \in Rounds : Log!Ask(f) \/ Log!AnswerTrue(f)
                                \/ Log!AnswerFalse(f)
           \/ UNCHANGED logVars
    PROVE  /\ status' \in [Calls -> States]
           /\ asked' \in [Rounds -> SUBSET Calls]
           /\ answer' \in [Rounds -> {"idle", "join", "true", "false"}]
<1> USE DEF Types, States
<1>1. ASSUME NEW c \in Calls, Log!Log(c) \/ Log!Settle(c)
      PROVE  /\ status' \in [Calls -> States]
             /\ asked' = asked /\ answer' = answer
  BY <1>1 DEF Log!Log, Log!Settle
<1>2. ASSUME NEW f \in Rounds, Log!Ask(f)
      PROVE  /\ asked' \in [Rounds -> SUBSET Calls]
             /\ answer' \in [Rounds -> {"idle", "join", "true", "false"}]
             /\ status' = status
  BY <1>2 DEF Log!Ask, Log!Pending, Log!Settled
<1>3. ASSUME NEW f \in Rounds, Log!AnswerTrue(f) \/ Log!AnswerFalse(f)
      PROVE  /\ asked' = asked
             /\ answer' \in [Rounds -> {"idle", "join", "true", "false"}]
             /\ status' = status
  BY <1>3 DEF Log!AnswerTrue, Log!AnswerFalse
<1>4. CASE UNCHANGED logVars
  BY <1>4 DEF logVars
<1>5. QED
  BY <1>1, <1>2, <1>3, <1>4

\* A fault is counted.
LEMMA FaultCounts ==
    ASSUME Types, Fault \/ UNCHANGED faults
    PROVE  faults' \in 0..MaxFaults
  BY DEF Types, TypeOK, Fault

\* A call that is made is the next one.
LEMMA AskTypes ==
    ASSUME Types, NEW j \in Jobs, Ask(j)
    PROVE  /\ Types'
           /\ Len(made) + 1 \in Calls /\ Len(made) + 1 \notin DOMAIN made
           /\ DOMAIN made' = DOMAIN made \cup {Len(made) + 1}
           /\ \A c \in DOMAIN made : made'[c] = made[c]
           /\ made'[Len(made) + 1] = Session(j)
<1>1. /\ pc[j] = "run" /\ pc' = [pc EXCEPT ![j] = "call"]
      /\ made' = Append(made, Session(j))
      /\ open' = open \cup {Len(made')}
      /\ UNCHANGED <<engineVars, attempt, answered, accepted, logVars, faults>>
      /\ Len(made) < MaxCalls
  BY DEF Ask
<1>2. made \in Seq(Rounds \X Rollouts \X Attempts)
  BY DEF Types, TypeOK
<1>3. PICK n \in Nat : n = Len(made)
  BY <1>2, LenProperties
<1>4. Session(j) \in Rounds \X Rollouts \X Attempts
  BY <1>1 DEF Types, Session
<1>5. /\ made' \in Seq(Rounds \X Rollouts \X Attempts)
      /\ Len(made') = n + 1
      /\ \A c \in 1..n : made'[c] = made[c]
      /\ made'[n + 1] = Session(j)
  BY <1>1, <1>2, <1>3, <1>4, AppendProperties
<1>6. DOMAIN made = 1..n /\ DOMAIN made' = 1..n + 1
  BY <1>2, <1>3, <1>5, LenProperties
<1>7. 1..n + 1 = 1..n \cup {n + 1} /\ n + 1 \notin 1..n /\ n + 1 \in Calls
  BY <1>1, <1>3
<1>8. TypeOK'
  <2>1. open' \subseteq DOMAIN made' /\ answered' \subseteq DOMAIN made'
    BY <1>1, <1>5, <1>6, <1>7 DEF Types, TypeOK
  <2>2. accepted' \in Seq(DOMAIN made')
    <3>1. accepted \in Seq(DOMAIN made) /\ DOMAIN made \subseteq DOMAIN made'
      BY <1>6, <1>7 DEF Types, TypeOK
    <3>2. ToSet(accepted) \subseteq DOMAIN made'
      BY <3>1, Elements
    <3>3. QED
      BY <1>1, <3>1, <3>2, Retyped
  <2>3. QED
    BY <1>1, <1>5, <2>1, <2>2 DEF Types, TypeOK, engineVars
<1>9. ASSUME NEW k \in Jobs
      PROVE  /\ pc'[k] \in {"run", "call", "ok", "raised"}
                   => attempt'[k] \in Attempts
             /\ pc'[k] = "call" => CallsOf(Session(k))' # {}
  <2>1. \A c \in CallsOf(Session(k)) : c \in CallsOf(Session(k))'
    BY <1>1, <1>5, <1>6, <1>7 DEF CallsOf, Session
  <2>2. CASE k = j
    <3>1. n + 1 \in CallsOf(Session(k))'
      BY <1>1, <1>5, <1>6, <1>7, <2>2 DEF CallsOf, Session
    <3>2. QED
      BY <1>1, <2>2, <3>1 DEF Types, TypeOK
  <2>3. CASE k # j
    <3>1. pc'[k] = pc[k] /\ attempt'[k] = attempt[k]
      BY <1>1, <2>3 DEF Types, TypeOK
    <3>2. QED
      BY <2>1, <3>1 DEF Types
  <2>4. QED
    BY <2>2, <2>3
<1>10. Len(made') <= MaxCalls
  BY <1>1, <1>3, <1>5
<1>11. Types'
  BY <1>1, <1>8, <1>9, <1>10 DEF Types, engineVars, logVars
<1>12. QED
  BY <1>3, <1>5, <1>6, <1>7, <1>11

\* What is read for a rollout: the stored traces of its session.
LEMMA StoredIs ==
    ASSUME Types, NEW i \in Rollouts
    PROVE  /\ Stored(i) \in Seq(Calls)
           /\ ToSet(Stored(i)) = {c \in ToSet(accepted) :
                                     /\ c \in CallsOf(Session(Mine(i)))
                                     /\ status[c] = "stored"}
           /\ Once(accepted) => Once(Stored(i))
<1>1. PICK T : T = {c \in CallsOf(Session(Mine(i))) : status[c] = "stored"}
  OBVIOUS
<1>2. accepted \in Seq(DOMAIN made) /\ DOMAIN made \subseteq Calls
  BY CallsAre DEF Types, TypeOK
<1>3. accepted \in Seq(Calls)
  <2>1. ToSet(accepted) \subseteq Calls
    BY <1>2, Elements
  <2>2. QED
    BY <1>2, <2>1, Retyped
<1>4. PICK s : s = Select(accepted, T)
  OBVIOUS
<1>5. /\ s \in Seq(Calls)
      /\ ToSet(s) = ToSet(accepted) \cap T
      /\ Once(accepted) => Once(s)
  <2>1. s \in Seq(Calls \cap T)
    BY <1>3, <1>4, SelectType
  <2>2. ToSet(s) = ToSet(accepted) \cap T
    BY <1>3, <1>4, SelectElements
  <2>3. ToSet(s) \subseteq Calls
    BY <2>1, Elements
  <2>4. s \in Seq(Calls)
    BY <2>1, <2>3, Retyped
  <2>5. Once(accepted) => Once(s)
    BY <1>3, <1>4, SelectOnce
  <2>6. QED
    BY <2>2, <2>4, <2>5
<1>6. Stored(i) = Reverse(s)
  BY <1>1, <1>4 DEF Stored
<1>7. /\ Reverse(s) \in Seq(Calls)
      /\ ToSet(Reverse(s)) = ToSet(s)
      /\ Once(s) => Once(Reverse(s))
  BY <1>5, ReverseElements
<1>8. QED
  BY <1>1, <1>5, <1>6, <1>7

\* A new round keeps the types.
LEMMA RoundTypes ==
    ASSUME Types, NextRound, UNCHANGED logVars, faults' \in 0..MaxFaults
    PROVE  Types'
<1>1. /\ read' = <<>>
      /\ UNCHANGED <<kind, rows, attempt, callVars>>
      /\ round' \in Rounds
      /\ epc' \in {"gather", "raised"}
      /\ pc' \in [Jobs -> {"new", "wait", "run", "call", "ok", "raised"}]
      /\ \A j \in Jobs : pc'[j] = "wait" \/ pc'[j] = pc[j]
  BY DEF NextRound, Types, TypeOK
<1>2. DOMAIN read' = {}
  BY <1>1
<1>3. TypeOK'
  BY <1>1, <1>2 DEF Types, TypeOK, callVars
<1>4. ASSUME NEW k \in Jobs
      PROVE  /\ pc'[k] \in {"run", "call", "ok", "raised"}
                   => attempt'[k] \in Attempts
             /\ pc'[k] = "call" => CallsOf(Session(k))' # {}
  <2>1. CASE pc'[k] = "wait"
    BY <2>1
  <2>2. CASE pc'[k] = pc[k]
    <3>1. CallsOf(Session(k))' = CallsOf(Session(k))
      BY <1>1 DEF CallsOf, Session, callVars
    <3>2. QED
      BY <1>1, <2>2, <3>1 DEF Types
  <2>3. QED
    BY <1>1, <2>1, <2>2
<1>5. QED
  BY <1>1, <1>2, <1>3, <1>4 DEF Types, logVars, callVars

\* Every step keeps the types.
LEMMA TypesStep ==
    ASSUME Types, [Next]_vars
    PROVE  Types'
<1>1. ASSUME NEW j \in Jobs, JobStep(j)
      PROVE  Types'
  <2>1. attempt[j] \in Attempts \cup {0} /\ answered \subseteq DOMAIN made
    BY DEF Types, TypeOK
  <2>2. CASE Acquire(j)
    <3>1. 1 \in Attempts /\ faults' \in 0..MaxFaults
      BY <2>2, FaultCounts DEF Acquire
    <3>2. QED
      BY <2>1, <2>2, <3>1, JobTypes DEF Acquire, Begin, callVars
  <2>3. CASE Ask(j)
    BY <2>3, AskTypes
  <2>4. CASE Hear(j)
    <3>1. Latest(j) \in DOMAIN made /\ attempt[j] \in Attempts
      BY <2>4, LatestIs DEF Hear, Types
    <3>2. /\ pc' = [pc EXCEPT ![j] = "run"]
          /\ attempt' = [attempt EXCEPT ![j] = attempt[j]]
          /\ answered' \subseteq DOMAIN made
          /\ UNCHANGED <<engineVars, made, open, accepted, logVars, faults>>
      BY <2>1, <2>4, <3>1 DEF Hear, Types, TypeOK
    <3>3. QED
      BY <3>1, <3>2, FaultCounts, JobTypes
  <2>5. CASE \E to \in {"run", "ok", "raised"} :
                 /\ pc[j] \in {"run", "call"}
                 /\ Goto(j, to)
                 /\ Fault \/ UNCHANGED faults
    <3>1. PICK to \in {"run", "ok", "raised"} : Goto(j, to)
      BY <2>5
    <3>2. attempt[j] \in Attempts /\ faults' \in 0..MaxFaults
      BY <2>5, FaultCounts DEF Types
    <3>3. attempt' = [attempt EXCEPT ![j] = attempt[j]]
      BY <3>1 DEF Goto, Types, TypeOK
    <3>4. QED
      BY <2>1, <3>1, <3>2, <3>3, JobTypes DEF Goto, callVars
  <2>6. CASE Retry(j)
    <3>1. attempt[j] + 1 \in Attempts /\ faults' \in 0..MaxFaults
      BY <2>1, <2>6, FaultCounts DEF Retry
    <3>2. QED
      BY <2>1, <2>6, <3>1, JobTypes DEF Retry, Begin, callVars
  <2>7. QED
    BY <1>1, <2>2, <2>3, <2>4, <2>5, <2>6
       DEF JobStep, GiveUpCall, Return, Raise
<1>2. ASSUME NEW c \in open, Hook(c)
      PROVE  Types'
  <2>1. c \in DOMAIN made /\ c \in Calls /\ accepted \in Seq(DOMAIN made)
    BY CallsAre DEF Types, TypeOK
  <2>2. accepted' \in Seq(DOMAIN made)
    BY <1>2, <2>1, AppendProperties DEF Hook
  <2>3. Log!Log(c) /\ (Fault \/ UNCHANGED faults)
    BY <1>2 DEF Hook
  <2>4. QED
    BY <1>2, <2>1, <2>2, <2>3, FaultCounts, LogTypes, OtherTypes
       DEF Hook, Types, TypeOK, engineVars
<1>3. ASSUME NEW c \in open, CallFails(c)
      PROVE  Types'
  BY <1>3, FaultCounts, LogTypes, OtherTypes
     DEF CallFails, Types, TypeOK, engineVars
<1>4. ASSUME NEW n \in DOMAIN accepted, Settle(accepted[n])
      PROVE  Types'
  <2>1. accepted[n] \in Calls
    <3>1. accepted \in Seq(DOMAIN made) /\ DOMAIN made \subseteq Calls
      BY CallsAre DEF Types, TypeOK
    <3>2. QED
      BY <3>1, ElementOfSeq
  <2>2. Log!Settle(accepted[n]) /\ (Fault \/ UNCHANGED faults)
    BY <1>4 DEF Settle
  <2>3. QED
    BY <1>4, <2>1, <2>2, FaultCounts, LogTypes, OtherTypes
       DEF Settle, Types, TypeOK, engineVars, callVars
<1>5. CASE Engine
  <2>1. CASE RolloutRaised \/ BuildFails \/ BuildsEmpty
    <3>1. NextRound /\ UNCHANGED logVars /\ (Fault \/ UNCHANGED faults)
      BY <2>1 DEF RolloutRaised, BuildFails, BuildsEmpty
    <3>2. QED
      BY <3>1, FaultCounts, RoundTypes
  <2>2. CASE Flush \/ Flushed
    <3>1. round \in Rounds
      BY DEF Types, TypeOK
    <3>2. Log!Ask(round) \/ Log!AnswerTrue(round) \/ Log!AnswerFalse(round)
      BY <2>2 DEF Flush, Flushed
    <3>3. QED
      BY <2>2, <3>1, <3>2, FaultCounts, LogTypes, OtherTypes
         DEF Flush, Flushed, Types, TypeOK, engineVars, callVars
  <2>3. ASSUME NEW i \in Rollouts, Read(i)
        PROVE  Types'
    <3>1. Stored(i) \in Seq(Calls)
      BY StoredIs
    <3>2. /\ DOMAIN read' \subseteq Rollouts
          /\ \A k \in DOMAIN read' : read'[k] \in Seq(Calls)
      BY <2>3, <3>1 DEF Read, Types, TypeOK
    <3>3. QED
      BY <2>3, <3>2, FaultCounts, LogTypes, OtherTypes
         DEF Read, Types, TypeOK, engineVars, callVars
  <2>4. CASE Deliver
    <3>1. /\ kind' \in Kinds /\ epc' \in {"raised", "done"}
          /\ UNCHANGED <<round, read, jobVars, callVars, logVars, faults>>
      BY <2>4 DEF Deliver
    <3>2. QED
      BY <3>1, FaultCounts, LogTypes, OtherTypes
         DEF Types, TypeOK, callVars
  <2>5. QED
    BY <1>5, <2>1, <2>2, <2>3, <2>4 DEF Engine
<1>6. CASE UNCHANGED vars
  BY <1>6, FaultCounts, LogTypes, OtherTypes
     DEF vars, engineVars, callVars, Types, TypeOK
<1>7. QED
  BY <1>1, <1>2, <1>3, <1>4, <1>5, <1>6 DEF Next, Proxy

\* Nothing has happened yet.
LEMMA TypesInit ==
    ASSUME Init
    PROVE  Types
<1>1. TypeOK
  <2>1. 1 \in Rounds /\ 0 \in 0..MaxFaults
    OBVIOUS
  <2>2. pc \in [Jobs -> {"new", "wait", "run", "call", "ok", "raised"}]
    BY DEF Init
  <2>3. /\ made \in Seq(Rounds \X Rollouts \X Attempts)
        /\ accepted \in Seq(DOMAIN made)
        /\ DOMAIN read \subseteq Rollouts
    BY DEF Init
  <2>4. QED
    BY <2>1, <2>2, <2>3 DEF Init, TypeOK
<1>2. \A j \in Jobs : pc[j] \in {"new", "wait"}
  BY DEF Init
<1>3. /\ status \in [Calls -> States]
      /\ asked \in [Rounds -> SUBSET Calls]
      /\ answer \in [Rounds -> {"idle", "join", "true", "false"}]
  BY DEF Init, Log!Init, States
<1>4. Len(made) <= MaxCalls /\ DOMAIN read = {}
  BY DEF Init
<1>5. QED
  BY <1>1, <1>2, <1>3, <1>4 DEF Types

\* So they always hold.
LEMMA TypesAlways == Spec => []Types
<1>1. Init => Types
  BY TypesInit
<1>2. Types /\ [Next]_vars => Types'
  BY TypesStep
<1>3. QED
  BY <1>1, <1>2, PTL DEF Spec

\* Every variable of the batch keeps its type.
THEOREM TypesHold == Spec => []TypeOK
<1>1. Types => TypeOK
  BY DEF Types
<1>2. QED
  BY <1>1, TypesAlways, PTL

\* A step of the batch is a step of the log, or leaves it alone.
LEMMA LogFollows ==
    ASSUME Types, [Next]_vars
    PROVE  [Log!Next]_(Log!vars)
<1> DEFINE Alone == UNCHANGED logVars
<1>1. Alone => [Log!Next]_(Log!vars)
  BY DEF logVars, Log!vars
<1>2. ASSUME NEW j \in Jobs, JobStep(j)
      PROVE  Alone
  BY <1>2 DEF JobStep, Acquire, Begin, Ask, Hear, GiveUpCall, Return, Retry,
              Raise, Goto
<1>3. ASSUME NEW c \in open, Hook(c) \/ CallFails(c)
      PROVE  Alone \/ \E t \in Calls : Log!Log(t)
  <2>1. c \in Calls
    BY CallsAre DEF Types, TypeOK
  <2>2. QED
    BY <1>3, <2>1 DEF Hook, CallFails
<1>4. ASSUME NEW n \in DOMAIN accepted, Settle(accepted[n])
      PROVE  \E t \in Calls : Log!Settle(t)
  <2>1. accepted[n] \in Calls
    <3>1. accepted \in Seq(DOMAIN made) /\ DOMAIN made \subseteq Calls
      BY CallsAre DEF Types, TypeOK
    <3>2. QED
      BY <3>1, ElementOfSeq
  <2>2. QED
    BY <1>4, <2>1 DEF Settle
<1>5. CASE Engine
  <2>1. round \in Rounds
    BY DEF Types, TypeOK
  <2>2. \/ Alone
        \/ \E f \in Rounds : \/ Log!Ask(f) \/ Log!AnswerTrue(f)
                             \/ Log!AnswerFalse(f)
    BY <1>5, <2>1 DEF Engine, RolloutRaised, Flush, Flushed, Read, BuildFails,
                      BuildsEmpty, Deliver
  <2>3. QED
    BY <1>1, <2>2 DEF Log!Next
<1>6. CASE UNCHANGED vars
  BY <1>1, <1>6 DEF vars
<1>7. QED
  <2> HIDE DEF Alone
  <2>1. \/ Alone
        \/ \E t \in Calls : Log!Log(t) \/ Log!Settle(t)
        \/ [Log!Next]_(Log!vars)
    BY <1>2, <1>3, <1>4, <1>5, <1>6 DEF Next, Proxy
  <2>2. QED
    BY <1>1, <2>1 DEF Log!Next

\* What the calls, the rounds and their retries do with the tracer is a
\* behaviour of the log that SqliteTracer implements: the batch knows no more
\* of it, and every round flushes at most once.
THEOREM TracerIsTheLog == Spec => Log!Spec
<1>1. Init => Log!Init
  BY DEF Init
<1>2. Types /\ [Next]_vars => [Log!Next]_(Log!vars)
  BY LogFollows
<1>3. QED
  BY <1>1, <1>2, TypesAlways, PTL DEF Spec, Log!Spec

-------------------------------------------------------------------------------
(* What a step leaves alone *)

\* A step of a job or of the proxy leaves the engine alone; a job that is
\* through keeps its session, the calls of it and the answers to them; and a
\* trace is settled once.
Frame ==
    /\ UNCHANGED <<kind, round, epc, read, rows, asked, answer>>
    /\ \A c \in DOMAIN made : c \in DOMAIN made' /\ made'[c] = made[c]
    /\ \A j \in Jobs :
          pc[j] = "ok" => /\ pc'[j] = "ok" /\ Session(j)' = Session(j)
                          /\ CallsOf(Session(j))' = CallsOf(Session(j))
                          /\ CallsOf(Session(j)) \cap answered'
                                 = CallsOf(Session(j)) \cap answered
    /\ \A c \in Calls :
          \/ status'[c] = status[c]
          \/ status[c] = "new" /\ status'[c] \in {"pending", "dropped"}
          \/ status[c] = "pending" /\ status'[c] \in {"stored", "failed"}

\* Such is a step that leaves the calls and answers alone, and the jobs that
\* are through.
LEMMA QuietFrame ==
    ASSUME Types, UNCHANGED <<engineVars, made, answered, asked, answer>>,
           \A j \in Jobs : pc[j] = "ok" => /\ pc'[j] = "ok"
                                           /\ attempt'[j] = attempt[j],
           \A c \in Calls :
               \/ status'[c] = status[c]
               \/ status[c] = "new" /\ status'[c] \in {"pending", "dropped"}
               \/ status[c] = "pending" /\ status'[c] \in {"stored", "failed"}
    PROVE  Frame
<1>1. UNCHANGED <<kind, round, epc, read, rows, made, answered, asked, answer>>
  BY DEF engineVars
<1>2. ASSUME NEW j \in Jobs, pc[j] = "ok"
      PROVE  /\ pc'[j] = "ok" /\ Session(j)' = Session(j)
             /\ CallsOf(Session(j))' = CallsOf(Session(j))
  BY <1>1, <1>2 DEF Session, CallsOf
<1>3. QED
  BY <1>1, <1>2 DEF Frame

\* The steps of the jobs are.
LEMMA JobFrame ==
    ASSUME Types, NEW j \in Jobs, JobStep(j)
    PROVE  Frame
<1>1. ASSUME \/ Acquire(j) \/ GiveUpCall(j) \/ Return(j) \/ Retry(j)
             \/ Raise(j)
      PROVE  Frame
  <2>1. /\ UNCHANGED <<engineVars, made, answered, logVars>>
        /\ pc[j] # "ok"
        /\ \E to : pc' = [pc EXCEPT ![j] = to]
        /\ attempt' = attempt \/ \E a : attempt' = [attempt EXCEPT ![j] = a]
    <3>1. CASE Acquire(j)
      BY <3>1 DEF Acquire, Begin, callVars
    <3>2. CASE Retry(j)
      BY <3>2 DEF Retry, Begin, callVars
    <3>3. CASE GiveUpCall(j)
      BY <3>3 DEF GiveUpCall, Goto, callVars
    <3>4. CASE Return(j)
      BY <3>4 DEF Return, Goto, callVars
    <3>5. CASE Raise(j)
      BY <3>5 DEF Raise, Goto, callVars
    <3>6. QED
      BY <1>1, <3>1, <3>2, <3>3, <3>4, <3>5
  <2>2. \A k \in Jobs : pc[k] = "ok" => /\ pc'[k] = "ok"
                                        /\ attempt'[k] = attempt[k]
    BY <2>1 DEF Types, TypeOK
  <2>3. QED
    BY <2>1, <2>2, QuietFrame DEF logVars
<1>2. ASSUME Ask(j)
      PROVE  Frame
  <2>1. /\ UNCHANGED <<kind, round, epc, read, rows, attempt, answered, status,
                       asked, answer>>
        /\ pc[j] = "run" /\ pc' = [pc EXCEPT ![j] = "call"]
    BY <1>2 DEF Ask, engineVars, logVars
  <2>2. PICK d : d = Len(made) + 1
    OBVIOUS
  <2>3. /\ DOMAIN made' = DOMAIN made \cup {d} /\ d \notin DOMAIN made
        /\ \A c \in DOMAIN made : made'[c] = made[c]
        /\ made'[d] = Session(j)
    BY <1>2, <2>2, AskTypes
  <2>4. ASSUME NEW k \in Jobs, pc[k] = "ok"
        PROVE  /\ pc'[k] = "ok" /\ Session(k)' = Session(k)
               /\ CallsOf(Session(k))' = CallsOf(Session(k))
    <3>1. k # j /\ pc'[k] = "ok" /\ attempt'[k] = attempt[k]
      BY <2>1, <2>4 DEF Types, TypeOK
    <3>2. Session(k)' = Session(k)
      BY <3>1 DEF Session
    <3>3. made'[d] # Session(k)
      BY <2>3, <3>1, SessionsDiffer
    <3>4. CallsOf(Session(k))' = CallsOf(Session(k))
      BY <2>3, <3>2, <3>3 DEF CallsOf
    <3>5. QED
      BY <3>1, <3>2, <3>4
  <2>5. QED
    BY <2>1, <2>3, <2>4 DEF Frame
<1>3. ASSUME Hear(j)
      PROVE  Frame
  <2>1. /\ UNCHANGED <<kind, round, epc, read, rows, attempt, made, status,
                       asked, answer>>
        /\ pc[j] = "call" /\ pc' = [pc EXCEPT ![j] = "run"]
        /\ answered' = answered \/ answered' = answered \cup {Latest(j)}
    BY <1>3 DEF Hear, engineVars, logVars
  <2>2. Latest(j) \in DOMAIN made /\ made[Latest(j)] = Session(j)
    BY <2>1, LatestIs
  <2>3. ASSUME NEW k \in Jobs, pc[k] = "ok"
        PROVE  /\ pc'[k] = "ok" /\ Session(k)' = Session(k)
               /\ CallsOf(Session(k))' = CallsOf(Session(k))
               /\ CallsOf(Session(k)) \cap answered'
                      = CallsOf(Session(k)) \cap answered
    <3>1. k # j /\ pc'[k] = "ok" /\ attempt'[k] = attempt[k]
      BY <2>1, <2>3 DEF Types, TypeOK
    <3>2. Session(k)' = Session(k)
      BY <3>1 DEF Session
    <3>3. Latest(j) \notin CallsOf(Session(k))
      BY <2>2, <3>1, SessionsDiffer DEF CallsOf
    <3>4. QED
      BY <2>1, <3>1, <3>2, <3>3 DEF CallsOf
  <2>4. QED
    BY <2>1, <2>3 DEF Frame
<1>4. QED
  BY <1>1, <1>2, <1>3 DEF JobStep

\* The steps of the proxy and of its tracer are.
LEMMA ProxyFrame ==
    ASSUME Types, NEW c, Hook(c) \/ CallFails(c) \/ Settle(c)
    PROVE  Frame
<1>1. /\ UNCHANGED <<engineVars, pc, attempt, made, answered, asked, answer>>
      /\ \/ status' = status
         \/ /\ status[c] = "new"
            /\ \E s \in {"pending", "dropped"} :
                  status' = [status EXCEPT ![c] = s]
         \/ /\ status[c] = "pending"
            /\ \E s \in {"stored", "failed"} :
                  status' = [status EXCEPT ![c] = s]
  <2>1. CASE Hook(c)
    BY <2>1 DEF Hook, Log!Log, jobVars
  <2>2. CASE CallFails(c)
    BY <2>2 DEF CallFails, jobVars, logVars
  <2>3. CASE Settle(c)
    BY <2>3 DEF Settle, Log!Settle, jobVars, callVars
  <2>4. QED
    BY <2>1, <2>2, <2>3
<1>2. \A d \in Calls :
          \/ status'[d] = status[d]
          \/ status[d] = "new" /\ status'[d] \in {"pending", "dropped"}
          \/ status[d] = "pending" /\ status'[d] \in {"stored", "failed"}
  BY <1>1 DEF Types
<1>3. QED
  BY <1>1, <1>2, QuietFrame

\* A step that changes nothing is.
LEMMA StutterFrame ==
    ASSUME Types, UNCHANGED vars
    PROVE  Frame
  BY QuietFrame DEF vars, jobVars, callVars, logVars

-------------------------------------------------------------------------------
(* The log *)

\* The log holds each trace once that the tracer took, the agent heard of
\* none before the tracer, and what a flush that succeeded asked about is
\* settled.
LogInv ==
    /\ Once(accepted)
    /\ \A c \in Calls :
          c \in ToSet(accepted)
              <=> status[c] \in {"pending", "stored", "failed"}
    /\ \A c \in answered : status[c] # "new"
    /\ \A f \in Rounds : answer[f] = "true" => asked[f] \subseteq Log!Settled

\* A trace that is settled stays so.
LEMMA SettledStays ==
    ASSUME Types, LogInv, Frame, NEW f \in Rounds, answer[f] = "true"
    PROVE  asked'[f] \subseteq (Log!Settled)'
<1>1. asked'[f] = asked[f]
  BY DEF Frame
<1>2. \A c \in asked[f] : c \in Calls /\ status[c] \in {"stored", "failed"}
  BY DEF LogInv, Log!Settled
<1>3. \A c \in asked[f] : status'[c] \in {"stored", "failed"}
  BY <1>2 DEF Frame
<1>4. QED
  BY <1>1, <1>2, <1>3 DEF Log!Settled

\* A step that keeps the log and its traces keeps this.
LEMMA LogStays ==
    ASSUME Types, LogInv, UNCHANGED <<accepted, answered, status>>,
           \A f \in Rounds : answer'[f] = "true"
                                 => asked'[f] \subseteq Log!Settled
    PROVE  LogInv'
  BY DEF LogInv, Log!Settled

\* Every step does.
LEMMA LogStep ==
    ASSUME Types, LogInv, [Next]_vars
    PROVE  LogInv'
<1>1. \A f \in Rounds : answer[f] = "true" => asked[f] \subseteq Log!Settled
  BY DEF LogInv
<1>2. ASSUME NEW j \in Jobs, JobStep(j)
      PROVE  LogInv'
  <2>1. CASE Hear(j)
    <3>1. /\ UNCHANGED <<accepted, status, asked, answer>>
          /\ pc[j] = "call"
          /\ \/ answered' = answered
             \/ /\ answered' = answered \cup {Latest(j)}
                /\ status[Latest(j)] # "new"
      BY <2>1 DEF Hear, logVars
    <3>2. QED
      BY <3>1 DEF LogInv, Log!Settled
  <2>2. CASE ~Hear(j)
    <3>1. UNCHANGED <<accepted, answered, status, asked, answer>>
      BY <1>2, <2>2
         DEF JobStep, Acquire, Begin, Ask, GiveUpCall, Goto, Return, Retry,
             Raise, callVars, logVars
    <3>2. QED
      BY <1>1, <3>1, LogStays
  <2>3. QED
    BY <2>1, <2>2
<1>3. ASSUME NEW c \in open, Hook(c)
      PROVE  LogInv'
  <2>1. c \in DOMAIN made /\ c \in Calls /\ accepted \in Seq(DOMAIN made)
    BY CallsAre DEF Types, TypeOK
  <2>2. PICK s \in {"pending", "dropped"} :
            /\ status[c] = "new" /\ status' = [status EXCEPT ![c] = s]
            /\ UNCHANGED <<asked, answer, answered>>
    BY <1>3 DEF Hook, Log!Log
  <2>3. status'[c] = s
    BY <2>1, <2>2 DEF Types
  <2>4. accepted' = IF s = "pending" THEN Append(accepted, c) ELSE accepted
    BY <1>3, <2>3 DEF Hook
  <2>5. c \notin ToSet(accepted)
    BY <2>1, <2>2 DEF LogInv
  <2>6. /\ Once(accepted')
        /\ ToSet(accepted') = IF s = "pending" THEN ToSet(accepted) \cup {c}
                              ELSE ToSet(accepted)
    <3>1. CASE s = "pending"
      BY <2>1, <2>4, <2>5, <3>1, AppendElements DEF LogInv
    <3>2. CASE s # "pending"
      BY <2>4, <3>2 DEF LogInv
    <3>3. QED
      BY <3>1, <3>2
  <2>7. ASSUME NEW d \in Calls
        PROVE  d \in ToSet(accepted')
                   <=> status'[d] \in {"pending", "stored", "failed"}
    <3>1. CASE d = c
      BY <2>2, <2>3, <2>5, <2>6, <3>1
    <3>2. CASE d # c
      <4>1. status'[d] = status[d]
        BY <2>2, <3>2 DEF Types
      <4>2. d \in ToSet(accepted') <=> d \in ToSet(accepted)
        BY <2>6, <3>2
      <4>3. QED
        BY <4>1, <4>2 DEF LogInv
    <3>3. QED
      BY <3>1, <3>2
  <2>8. \A d \in answered' : status'[d] # "new"
    <3>1. answered \subseteq Calls
      BY CallsAre DEF Types, TypeOK
    <3>2. \A d \in answered : status[d] # "new"
      BY DEF LogInv
    <3>3. QED
      BY <2>2, <3>1, <3>2 DEF Types
  <2>9. \A f \in Rounds : answer'[f] = "true"
                              => asked'[f] \subseteq (Log!Settled)'
    BY <1>3, <2>2, ProxyFrame, SettledStays
  <2>10. QED
    BY <2>6, <2>7, <2>8, <2>9 DEF LogInv
<1>4. ASSUME NEW c \in open, CallFails(c)
      PROVE  LogInv'
  BY <1>1, <1>4, LogStays DEF CallFails, logVars
<1>5. ASSUME NEW n \in DOMAIN accepted, Settle(accepted[n])
      PROVE  LogInv'
  <2>1. PICK c : c = accepted[n]
    OBVIOUS
  <2>2. PICK s \in {"stored", "failed"} :
            /\ status[c] = "pending" /\ status' = [status EXCEPT ![c] = s]
            /\ UNCHANGED <<asked, answer, answered, accepted>>
    BY <1>5, <2>1 DEF Settle, Log!Settle, callVars
  <2>3. ASSUME NEW d \in Calls
        PROVE  /\ status'[d] \in {"pending", "stored", "failed"}
                      <=> status[d] \in {"pending", "stored", "failed"}
               /\ status[d] # "new" => status'[d] # "new"
    BY <2>2 DEF Types
  <2>4. answered \subseteq Calls
    BY CallsAre DEF Types, TypeOK
  <2>5. \A f \in Rounds : answer'[f] = "true"
                              => asked'[f] \subseteq (Log!Settled)'
    BY <1>5, <2>2, ProxyFrame, SettledStays
  <2>6. QED
    BY <2>2, <2>3, <2>4, <2>5 DEF LogInv
<1>6. CASE Engine
  <2>1. round \in Rounds /\ UNCHANGED <<accepted, answered, status>>
    BY <1>6 DEF Engine, RolloutRaised, BuildFails, BuildsEmpty, NextRound,
                Flush, Flushed, Read, Deliver, Log!Ask, Log!AnswerTrue,
                Log!AnswerFalse, callVars, logVars, Types, TypeOK
  <2>2. \A f \in Rounds : answer'[f] = "true"
                              => asked'[f] \subseteq Log!Settled
    <3>1. CASE UNCHANGED logVars
      BY <1>1, <3>1 DEF logVars
    <3>2. CASE Log!Ask(round)
      BY <1>1, <2>1, <3>2 DEF Log!Ask, Types
    <3>3. CASE Log!AnswerTrue(round)
      BY <1>1, <2>1, <3>3 DEF Log!AnswerTrue, Types
    <3>4. CASE Log!AnswerFalse(round)
      BY <1>1, <2>1, <3>4 DEF Log!AnswerFalse, Types
    <3>5. QED
      BY <1>6, <3>1, <3>2, <3>3, <3>4
         DEF Engine, RolloutRaised, BuildFails, BuildsEmpty, Flush, Flushed,
             Read, Deliver
  <2>3. QED
    BY <2>1, <2>2, LogStays
<1>7. CASE UNCHANGED vars
  BY <1>1, <1>7, LogStays DEF vars, callVars, logVars
<1>8. QED
  BY <1>2, <1>3, <1>4, <1>5, <1>6, <1>7 DEF Next, Proxy

\* An empty log.
LEMMA LogInit ==
    ASSUME Init
    PROVE  LogInv
<1>1. accepted = <<>> /\ Len(<<>>) = 0 /\ ToSet(<<>>) = {} /\ answered = {}
  BY DEF Init, ToSet
<1>2. Once(accepted)
  BY <1>1 DEF Once
<1>3. /\ \A c \in Calls : status[c] = "new"
      /\ \A f \in Rounds : answer[f] = "idle"
  BY DEF Init, Log!Init
<1>4. QED
  BY <1>1, <1>2, <1>3 DEF LogInv

-------------------------------------------------------------------------------
(* A round *)

\* The agent of a rollout is through, and what it heard of is dropped or asked
\* about by the flush.
Accounted(i) ==
    /\ pc[Mine(i)] = "ok"
    /\ \A c \in CallsOf(Session(Mine(i))) \cap answered :
          status[c] = "dropped" \/ c \in asked[round]

\* What was read for a rollout is stored and of its session, and after a flush
\* that succeeded it is all that the flush asked about.
ReadFor(i) ==
    /\ Once(read[i])
    /\ \A c \in ToSet(read[i]) :
          c \in CallsOf(Session(Mine(i))) /\ status[c] = "stored"
    /\ answer[round] = "true"
           => \A c \in CallsOf(Session(Mine(i))) \cap asked[round] :
                 status[c] = "stored" => c \in ToSet(read[i])

\* A row is of its task and of a stored call of its rollout.
RowFits(r) ==
    /\ r.rollout \in Rollouts
    /\ r.task = TaskOf[r.rollout]
    /\ r.call \in CallsOf(Session(Mine(r.rollout)))
    /\ status[r.call] = "stored"

\* How far a round is.
RoundInv ==
    /\ epc \in {"gather", "flush"} => read = <<>>
    /\ epc \in {"flush", "read", "done"} => \A i \in Rollouts : Accounted(i)
    /\ epc \in {"read", "done"}
           => /\ answer[round] \in {"true", "false"}
              /\ \A i \in DOMAIN read : ReadFor(i)
    /\ epc = "done"
           => /\ kind \in Kinds /\ DOMAIN read = Rollouts
              /\ \A n \in DOMAIN rows : RowFits(rows[n])
              /\ \A m, n \in DOMAIN rows : rows[m].call = rows[n].call => m = n

\* A step that leaves the engine alone keeps it.
LEMMA RoundFrame ==
    ASSUME Types, LogInv, RoundInv, Frame
    PROVE  RoundInv'
<1>1. /\ UNCHANGED <<kind, round, epc, read, rows, asked, answer>>
      /\ round \in Rounds /\ DOMAIN read \subseteq Rollouts
  BY DEF Frame, Types, TypeOK
<1>2. \A c \in Calls : status[c] \in {"stored", "failed", "dropped"}
                           => status'[c] = status[c]
  BY DEF Frame
<1>3. ASSUME NEW i \in Rollouts, pc[Mine(i)] = "ok"
      PROVE  /\ Mine(i)' = Mine(i) /\ pc'[Mine(i)] = "ok"
             /\ CallsOf(Session(Mine(i)))' = CallsOf(Session(Mine(i)))
             /\ CallsOf(Session(Mine(i))) \cap answered'
                    = CallsOf(Session(Mine(i))) \cap answered
             /\ CallsOf(Session(Mine(i))) \subseteq Calls
  <2>1. Mine(i) \in Jobs /\ Mine(i)' = Mine(i)
    BY <1>1, MineIs DEF Mine
  <2>2. PICK j \in Jobs : j = Mine(i)
    BY <2>1
  <2>3. /\ pc'[j] = "ok" /\ Session(j)' = Session(j)
        /\ CallsOf(Session(j))' = CallsOf(Session(j))
        /\ CallsOf(Session(j)) \cap answered'
               = CallsOf(Session(j)) \cap answered
    BY <1>3, <2>2 DEF Frame
  <2>4. Session(Mine(i))' = Session(j)'
    BY <2>1, <2>2 DEF Session
  <2>5. CallsOf(Session(Mine(i)))' = CallsOf(Session(j))'
    BY <2>4 DEF CallsOf
  <2>6. QED
    BY <2>1, <2>2, <2>3, <2>5, CallsAre
<1>4. ASSUME NEW i \in Rollouts, Accounted(i)
      PROVE  Accounted(i)'
  <2>1. pc[Mine(i)] = "ok"
    BY <1>4 DEF Accounted
  <2>2. ASSUME NEW c \in CallsOf(Session(Mine(i)))' \cap answered'
        PROVE  status'[c] = "dropped" \/ c \in asked'[round']
    BY <1>1, <1>2, <1>3, <1>4, <2>1, <2>2 DEF Accounted
  <2>3. QED
    BY <1>3, <2>1, <2>2 DEF Accounted
<1>5. ASSUME NEW i \in DOMAIN read, Accounted(i), ReadFor(i)
      PROVE  ReadFor(i)'
  <2>1. i \in Rollouts /\ pc[Mine(i)] = "ok"
    BY <1>1, <1>5 DEF Accounted
  <2>2. PICK T : /\ T = CallsOf(Session(Mine(i)))
                 /\ T = CallsOf(Session(Mine(i)))'
                 /\ T \subseteq Calls
    BY <1>3, <2>1
  <2>3. \A c \in ToSet(read[i]) : c \in T /\ status'[c] = "stored"
    BY <1>2, <1>5, <2>2 DEF ReadFor
  <2>4. ASSUME answer[round] = "true",
               NEW c \in T \cap asked[round], status'[c] = "stored"
        PROVE  c \in ToSet(read[i])
    <3>1. status[c] \in {"stored", "failed"}
      BY <1>1, <2>4 DEF LogInv, Log!Settled
    <3>2. status[c] = "stored"
      BY <1>2, <2>2, <2>4, <3>1
    <3>3. QED
      BY <1>5, <2>2, <2>4, <3>2 DEF ReadFor
  <2>5. Once(read[i])
    BY <1>5 DEF ReadFor
  <2>6. QED
    BY <1>1, <2>2, <2>3, <2>4, <2>5 DEF ReadFor
<1>6. ASSUME NEW r, RowFits(r), \A i \in Rollouts : Accounted(i)
      PROVE  RowFits(r)'
  <2>1. /\ r.rollout \in Rollouts
        /\ pc[Mine(r.rollout)] = "ok"
    BY <1>6 DEF RowFits, Accounted
  <2>2. r.call \in CallsOf(Session(Mine(r.rollout)))'
    BY <1>3, <1>6, <2>1 DEF RowFits
  <2>3. status'[r.call] = "stored"
    BY <1>2, <1>3, <1>6, <2>1 DEF RowFits
  <2>4. QED
    BY <1>6, <2>1, <2>2, <2>3 DEF RowFits
<1>7. ASSUME epc = "done"
      PROVE  \A n \in DOMAIN rows' : RowFits(rows[n])'
  BY <1>1, <1>6, <1>7 DEF RoundInv
<1>8. QED
  <2>1. epc' \in {"gather", "flush"} => read' = <<>>
    BY <1>1 DEF RoundInv
  <2>2. epc' \in {"flush", "read", "done"}
            => \A i \in Rollouts : Accounted(i)'
    BY <1>1, <1>4 DEF RoundInv
  <2>3. epc' \in {"read", "done"}
            => /\ answer'[round'] \in {"true", "false"}
               /\ \A i \in DOMAIN read' : ReadFor(i)'
    BY <1>1, <1>5 DEF RoundInv
  <2>4. epc' = "done"
            => /\ kind' \in Kinds /\ DOMAIN read' = Rollouts
               /\ \A n \in DOMAIN rows' : RowFits(rows[n])'
               /\ \A m, n \in DOMAIN rows' :
                     rows'[m].call = rows'[n].call => m = n
    BY <1>1, <1>7 DEF RoundInv
  <2>5. QED
    BY <2>1, <2>2, <2>3, <2>4 DEF RoundInv

-------------------------------------------------------------------------------
(* The rows *)

\* What the agent of a rollout heard of, in the order of the calls.
LEMMA HeardIs ==
    ASSUME Types, NEW i \in Rollouts
    PROVE  /\ Heard(i) \in Seq(Calls)
           /\ Once(Heard(i))
           /\ ToSet(Heard(i)) = CallsOf(Session(Mine(i))) \cap answered
<1>1. PICK T : T = CallsOf(Session(Mine(i))) \cap answered
  OBVIOUS
<1>2. T \subseteq DOMAIN made /\ DOMAIN made = 1..Len(made)
      /\ DOMAIN made \subseteq Calls
  BY <1>1, CallsAre
<1>3. PICK n \in Nat : n = Len(made)
  <2>1. made \in Seq(Rounds \X Rollouts \X Attempts)
    BY DEF Types, TypeOK
  <2>2. QED
    BY <2>1, LenProperties
<1>4. PICK s : s = [c \in DOMAIN made |-> c]
  OBVIOUS
<1>5. s = [c \in 1..n |-> c] /\ 1..n \subseteq Calls
  BY <1>2, <1>3, <1>4
<1>6. s \in Seq(Calls) /\ Len(s) = n
  BY <1>5
<1>7. Once(s)
  BY <1>5, <1>6 DEF Once
<1>8. T \subseteq ToSet(s)
  <2>1. \A c \in 1..n : s[c] \in ToSet(s)
    BY <1>6, Elements
  <2>2. \A c \in 1..n : c \in ToSet(s)
    BY <1>5, <2>1
  <2>3. QED
    BY <1>2, <1>3, <2>2
<1>9. Heard(i) = Select(s, T)
  BY <1>1, <1>4 DEF Heard
<1>10. Select(s, T) \in Seq(Calls)
  <2>1. Select(s, T) \in Seq(Calls \cap T)
    BY <1>6, SelectType
  <2>2. ToSet(Select(s, T)) \subseteq Calls
    BY <2>1, Elements
  <2>3. QED
    BY <2>1, <2>2, Retyped
<1>11. Once(Select(s, T)) /\ ToSet(Select(s, T)) = ToSet(s) \cap T
  BY <1>6, <1>7, SelectOnce, SelectElements
<1>12. QED
  BY <1>1, <1>8, <1>9, <1>10, <1>11

\* The rows of one episode.
EpisodeRows(f, t, i) ==
    [m \in DOMAIN f |-> [task |-> t, rollout |-> i, call |-> f[m],
                         last |-> m = Len(f)]]

\* What can be a row.
Row == [task : Nat, rollout : Rollouts, call : Calls, last : BOOLEAN]

\* Each is of the task, of the rollout and of another call.
OneForEach(e, f, t, i) ==
    /\ e \in Seq(Row)
    /\ Once(e)
    /\ \A r \in ToSet(e) : r.task = t /\ r.rollout = i /\ r.call \in ToSet(f)
    /\ \A q, r \in ToSet(e) : q.call = r.call => q = r

\* The rows of an episode are one for each of its calls.
LEMMA EpisodeRowsAre ==
    ASSUME NEW f \in Seq(Calls), Once(f), NEW t \in Nat, NEW i \in Rollouts
    PROVE  OneForEach(EpisodeRows(f, t, i), f, t, i)
<1>1. PICK n \in Nat : n = Len(f) /\ DOMAIN f = 1..n
  BY LenProperties
<1>2. PICK e : e = EpisodeRows(f, t, i)
  OBVIOUS
<1>3. e = [m \in 1..n |-> [task |-> t, rollout |-> i, call |-> f[m],
                           last |-> m = n]]
  BY <1>1, <1>2 DEF EpisodeRows
<1>4. ASSUME NEW m \in 1..n
      PROVE  /\ e[m] \in Row
             /\ e[m].task = t /\ e[m].rollout = i /\ e[m].call = f[m]
  <2>1. f[m] \in Calls /\ (m = n) \in BOOLEAN
    BY <1>1, ElementOfSeq
  <2>2. PICK b \in BOOLEAN : b = (m = n)
    BY <2>1
  <2>3. e[m] = [task |-> t, rollout |-> i, call |-> f[m], last |-> b]
    BY <1>3, <2>2
  <2>4. QED
    BY <2>1, <2>3 DEF Row
<1>5. e \in Seq(Row) /\ Len(e) = n
  BY <1>3, <1>4
<1>6. ASSUME NEW l \in 1..n, NEW m \in 1..n, e[l].call = e[m].call
      PROVE  l = m
  <2>1. f[l] = f[m]
    BY <1>4, <1>6
  <2>2. QED
    BY <1>1, <2>1 DEF Once
<1>7. Once(e)
  BY <1>5, <1>6 DEF Once
<1>8. ASSUME NEW r \in ToSet(e)
      PROVE  /\ r.task = t /\ r.rollout = i /\ r.call \in ToSet(f)
             /\ \E m \in 1..n : r = e[m]
  <2>1. PICK m \in 1..n : r = e[m]
    BY <1>5, Elements
  <2>2. f[m] \in ToSet(f)
    BY <1>1, Elements
  <2>3. QED
    BY <1>4, <2>1, <2>2
<1>9. ASSUME NEW q \in ToSet(e), NEW r \in ToSet(e), q.call = r.call
      PROVE  q = r
  <2>1. PICK l \in 1..n : q = e[l]
    BY <1>8
  <2>2. PICK m \in 1..n : r = e[m]
    BY <1>8
  <2>3. QED
    BY <1>6, <1>9, <2>1, <2>2
<1>10. QED
  BY <1>2, <1>5, <1>7, <1>8, <1>9 DEF OneForEach

\* In every order of the episodes the n-th is of the n-th task.
LEMMA OrdersKeepTasks ==
    ASSUME NEW o \in Orders
    PROVE  /\ \A n \in Rollouts : o[n] \in Rollouts /\ TaskOf[o[n]] = TaskOf[n]
           /\ \A m, n \in Rollouts : o[m] = o[n] => m = n
<1>1. PICK n \in Nat : n = Len(TaskOf) /\ Rollouts = 1..n
  BY LenProperties
<1>2. /\ o \in [1..n -> 1..n]
      /\ \A i, j \in 1..n : o[i] = o[j] => i = j
      /\ \A i, j \in 1..n : i < j => TaskOf[o[i]] <= TaskOf[o[j]]
  BY <1>1 DEF Orders, IsInjective
<1>3. \A i \in 1..n : TaskOf[i] \in Nat /\ o[i] \in 1..n
  BY <1>1, <1>2, ElementOfSeq
<1>4. \A i, j \in 1..n : i <= j => TaskOf[i] <= TaskOf[j]
  BY <1>1
<1>5. ASSUME NEW i \in 1..n, NEW j \in 1..n, i <= j
      PROVE  TaskOf[o[i]] <= TaskOf[o[j]]
  <2>1. CASE i = j
    BY <1>3, <2>1
  <2>2. CASE i # j
    BY <1>2, <1>5, <2>2
  <2>3. QED
    BY <2>1, <2>2
<1>6. SortedBoth(n, TaskOf, o)
  BY <1>2, <1>3, <1>4, <1>5 DEF SortedBoth
<1>7. \A i \in 1..n : TaskOf[o[i]] = TaskOf[i]
  BY <1>6, SortedAlike
<1>8. QED
  BY <1>1, <1>2, <1>3, <1>7

\* The rows of the batch: one for each step that was read, of its own task.
LEMMA RowsAre ==
    ASSUME Types, DOMAIN read = Rollouts, NEW k \in Kinds, NEW o \in Orders,
           \A i \in Rollouts : ReadFor(i) /\ ~StepsMissing(k, i)
    PROVE  \E q \in Seq(Row) :
              /\ q = RowsOf(k, o)
              /\ \A n \in DOMAIN q : RowFits(q[n])
              /\ \A m, n \in DOMAIN q : q[m].call = q[n].call => m = n
<1>1. PICK N \in Nat : N = Len(TaskOf) /\ Rollouts = 1..N
  BY LenProperties
<1>2. /\ \A n \in Rollouts : o[n] \in Rollouts /\ TaskOf[o[n]] = TaskOf[n]
      /\ \A m, n \in Rollouts : o[m] = o[n] => m = n
  BY OrdersKeepTasks
<1>3. ASSUME NEW i \in Rollouts
      PROVE  /\ Steps(k, i) \in Seq(Calls) /\ Once(Steps(k, i))
             /\ ToSet(Steps(k, i)) \subseteq ToSet(read[i])
  <2>1. read[i] \in Seq(Calls) /\ Once(read[i])
    BY DEF Types, ReadFor
  <2>2. QED
    BY <2>1, HeardIs DEF Steps, StepsMissing
<1> DEFINE fit(n) == Select(Steps(k, o[n]), Calls \ Overlong)
<1>4. ASSUME NEW n \in Rollouts
      PROVE  /\ fit(n) \in Seq(Calls) /\ Once(fit(n))
             /\ ToSet(fit(n)) \subseteq ToSet(read[o[n]])
  <2>1. PICK s : s = Steps(k, o[n])
    OBVIOUS
  <2>2. s \in Seq(Calls) /\ Once(s) /\ ToSet(s) \subseteq ToSet(read[o[n]])
    BY <1>2, <1>3, <2>1
  <2>3. PICK T : T = Calls \ Overlong
    OBVIOUS
  <2>4. Select(s, T) \in Seq(Calls \cap T)
    BY <2>2, SelectType
  <2>5. Once(Select(s, T)) /\ ToSet(Select(s, T)) = ToSet(s) \cap T
    BY <2>2, SelectOnce, SelectElements
  <2>6. ToSet(s) \subseteq Calls /\ ToSet(Select(s, T)) \subseteq Calls
    <3>1. ToSet(s) \subseteq Calls
      BY <2>2, Elements
    <3>2. QED
      BY <2>5, <3>1
  <2>7. Select(s, T) \in Seq(Calls)
    BY <2>4, <2>6, Retyped
  <2>8. QED
    BY <2>1, <2>2, <2>3, <2>5, <2>7
<1>5. PICK ss : ss = [n \in Rollouts |-> EpisodeRows(fit(n), TaskOf[n], o[n])]
  OBVIOUS
<1>6. RowsOf(k, o) = FlattenSeq(ss)
  BY <1>5 DEF RowsOf, EpisodeRows
<1> HIDE DEF fit
<1>7. ASSUME NEW n \in Rollouts
      PROVE  /\ ss[n] \in Seq(Row) /\ Once(ss[n])
             /\ \A r \in ToSet(ss[n]) : /\ r.task = TaskOf[n]
                                        /\ r.rollout = o[n]
                                        /\ r.call \in ToSet(read[o[n]])
             /\ \A q, r \in ToSet(ss[n]) : q.call = r.call => q = r
  <2>1. TaskOf[n] \in Nat /\ o[n] \in Rollouts
    BY <1>1, <1>2, ElementOfSeq
  <2>2. ss[n] = EpisodeRows(fit(n), TaskOf[n], o[n])
    BY <1>5
  <2>3. PICK f : f = fit(n)
    OBVIOUS
  <2>4. f \in Seq(Calls) /\ Once(f) /\ ToSet(f) \subseteq ToSet(read[o[n]])
    BY <1>4, <2>3
  <2>5. PICK t \in Nat, i \in Rollouts : t = TaskOf[n] /\ i = o[n]
    BY <2>1
  <2>6. PICK e : e = EpisodeRows(f, t, i)
    OBVIOUS
  <2>7. OneForEach(e, f, t, i)
    BY <2>4, <2>5, <2>6, EpisodeRowsAre
  <2>8. ss[n] = e
    BY <2>2, <2>3, <2>5, <2>6
  <2>9. QED
    BY <2>4, <2>5, <2>7, <2>8 DEF OneForEach
<1>8. ss \in Seq(Seq(Row)) /\ Len(ss) = N
  BY <1>1, <1>5, <1>7
<1>9. PICK q : q = FlattenSeq(ss) /\ q \in Seq(Row)
  BY <1>8, FlattenType
<1>10. ToSet(q) = UNION {ToSet(ss[n]) : n \in 1..N}
  BY <1>8, <1>9, FlattenElements
<1>11. ASSUME NEW r \in ToSet(q)
       PROVE  /\ RowFits(r)
              /\ \E n \in Rollouts : r \in ToSet(ss[n]) /\ r.rollout = o[n]
  <2>1. PICK n \in Rollouts : r \in ToSet(ss[n])
    BY <1>1, <1>10
  <2>2. /\ r.task = TaskOf[n] /\ r.rollout = o[n]
        /\ r.call \in ToSet(read[o[n]])
    BY <1>7, <2>1
  <2>3. o[n] \in Rollouts /\ TaskOf[o[n]] = TaskOf[n] /\ ReadFor(o[n])
    BY <1>2
  <2>4. RowFits(r)
    BY <2>2, <2>3 DEF RowFits, ReadFor
  <2>5. QED
    BY <2>1, <2>2, <2>4
<1>12. ASSUME NEW m \in Rollouts, NEW n \in Rollouts,
              NEW r \in ToSet(ss[m]), NEW p \in ToSet(ss[n]),
              r.call = p.call
       PROVE  m = n /\ r = p
  <2>1. r.rollout = o[m] /\ p.rollout = o[n]
    BY <1>7
  <2>2. r \in ToSet(q) /\ p \in ToSet(q)
    BY <1>1, <1>10
  <2>3. RowFits(r) /\ RowFits(p)
    BY <1>11, <2>2
  <2>4. Session(Mine(o[m])) = Session(Mine(o[n]))
    BY <1>12, <2>1, <2>3 DEF RowFits, CallsOf
  <2>5. o[m] = o[n]
    <3>1. Mine(o[m]) = Mine(o[n])
      BY <1>2, <2>4, MineIs, SessionsDiffer DEF Types, TypeOK
    <3>2. QED
      BY <3>1 DEF Mine
  <2>6. m = n
    BY <1>2, <2>5
  <2>7. QED
    BY <1>7, <1>12, <2>6
<1>13. Once(q)
  <2>1. ASSUME NEW m \in 1..N, NEW n \in 1..N, m # n
        PROVE  ToSet(ss[m]) \cap ToSet(ss[n]) = {}
    BY <1>1, <1>12, <2>1
  <2>2. \A n \in 1..N : Once(ss[n])
    BY <1>1, <1>7
  <2>3. QED
    BY <1>8, <1>9, <2>1, <2>2, FlattenOnce
<1>14. \A n \in DOMAIN q : n \in 1..Len(q) /\ q[n] \in ToSet(q)
  BY <1>9, Elements
<1>15. ASSUME NEW m \in DOMAIN q, NEW n \in DOMAIN q, q[m].call = q[n].call
       PROVE  m = n
  <2>1. PICK i \in Rollouts : q[m] \in ToSet(ss[i])
    BY <1>11, <1>14
  <2>2. PICK j \in Rollouts : q[n] \in ToSet(ss[j])
    BY <1>11, <1>14
  <2>3. q[m] = q[n]
    BY <1>12, <1>15, <2>1, <2>2
  <2>4. QED
    BY <1>13, <1>14, <2>3 DEF Once
<1>16. QED
  BY <1>6, <1>9, <1>11, <1>14, <1>15

-------------------------------------------------------------------------------
(* The engine *)

\* So is a step of the engine.
LEMMA EngineStep ==
    ASSUME Types, LogInv, RoundInv, Engine
    PROVE  RoundInv'
<1>1. round \in Rounds /\ DOMAIN read \subseteq Rollouts
  BY DEF Types, TypeOK
<1>2. CASE RolloutRaised \/ BuildFails \/ BuildsEmpty
  <2>1. read' = <<>> /\ epc' \in {"gather", "raised"}
    BY <1>2 DEF RolloutRaised, BuildFails, BuildsEmpty, NextRound
  <2>2. QED
    BY <2>1 DEF RoundInv
<1>3. CASE Flush
  <2>1. /\ UNCHANGED <<round, read, pc, attempt, made, answered, status>>
        /\ epc = "gather" /\ epc' = "flush"
        /\ \A i \in Rollouts : pc[Mine(i)] = "ok"
        /\ asked' = [asked EXCEPT ![round] = Log!Pending \cup Log!Settled]
    BY <1>3 DEF Flush, Log!Ask, jobVars, callVars
  <2>2. asked'[round] = Log!Pending \cup Log!Settled
    BY <1>1, <2>1 DEF Types
  <2>3. \A c \in answered : status[c] = "dropped" \/ c \in asked'[round]
    <3>1. \A c \in answered : c \in Calls /\ status[c] \in States \ {"new"}
      BY CallsAre DEF LogInv, Types, TypeOK
    <3>2. QED
      BY <2>2, <3>1 DEF Log!Pending, Log!Settled, States
  <2>4. ASSUME NEW i \in Rollouts
        PROVE  Accounted(i)'
    <3>1. Mine(i)' = Mine(i)
      BY <2>1 DEF Mine
    <3>2. pc'[Mine(i)'] = "ok"
      BY <2>1, <3>1
    <3>3. \A c \in answered' : status'[c] = "dropped" \/ c \in asked'[round']
      BY <2>1, <2>3
    <3>4. QED
      BY <3>2, <3>3 DEF Accounted
  <2>5. QED
    BY <2>1, <2>4 DEF RoundInv
<1>4. CASE Flushed
  <2>1. /\ UNCHANGED <<round, read, pc, attempt, made, answered, status, asked>>
        /\ epc = "flush" /\ epc' = "read"
        /\ \E s \in {"true", "false"} : answer' = [answer EXCEPT ![round] = s]
    BY <1>4 DEF Flushed, Log!AnswerTrue, Log!AnswerFalse, jobVars, callVars
  <2>2. answer'[round'] \in {"true", "false"}
    BY <1>1, <2>1 DEF Types
  <2>3. DOMAIN read' = {}
    BY <2>1 DEF RoundInv
  <2>4. \A i \in Rollouts : Accounted(i)'
    BY <2>1 DEF RoundInv, Accounted, Mine, Session, CallsOf
  <2>5. QED
    BY <2>1, <2>2, <2>3, <2>4 DEF RoundInv
<1>5. ASSUME NEW i \in Rollouts, Read(i)
      PROVE  RoundInv'
  <2>1. /\ UNCHANGED <<round, epc, pc, attempt, made, answered, status, asked,
                       answer>>
        /\ epc = "read"
        /\ read' = [k \in DOMAIN read \cup {i} |->
                       IF k = i THEN Stored(i) ELSE read[k]]
    BY <1>5 DEF Read, jobVars, callVars, logVars
  <2>2. \A k \in Rollouts : Accounted(k)'
    BY <2>1 DEF RoundInv, Accounted, Mine, Session, CallsOf
  <2>3. ASSUME NEW k \in DOMAIN read'
        PROVE  ReadFor(k)'
    <3>1. PICK T : /\ T = CallsOf(Session(Mine(k)))
                   /\ T = CallsOf(Session(Mine(k)))'
                   /\ T \subseteq Calls
      <4>1. CallsOf(Session(Mine(k)))' = CallsOf(Session(Mine(k)))
        BY <2>1 DEF Mine, Session, CallsOf
      <4>2. CallsOf(Session(Mine(k))) \subseteq Calls
        BY CallsAre
      <4>3. QED
        BY <4>1, <4>2
    <3>2. CASE k = i
      <4>1. read'[k] = Stored(i)
        BY <2>1, <2>3, <3>2
      <4>2. /\ Once(Stored(i))
            /\ ToSet(Stored(i)) =
                   {c \in ToSet(accepted) : c \in T /\ status[c] = "stored"}
        BY <3>1, <3>2, StoredIs DEF LogInv
      <4>3. \A c \in T : status[c] = "stored" => c \in ToSet(accepted)
        BY <3>1 DEF LogInv
      <4>4. QED
        BY <2>1, <3>1, <4>1, <4>2, <4>3 DEF ReadFor
    <3>3. CASE k # i
      <4>1. k \in DOMAIN read /\ read'[k] = read[k]
        BY <2>1, <2>3, <3>3
      <4>2. ReadFor(k)
        BY <2>1, <4>1 DEF RoundInv
      <4>3. QED
        BY <2>1, <3>1, <4>1, <4>2 DEF ReadFor
    <3>4. QED
      BY <3>2, <3>3
  <2>4. answer'[round'] \in {"true", "false"}
    BY <2>1 DEF RoundInv
  <2>5. QED
    BY <2>1, <2>2, <2>3, <2>4 DEF RoundInv
<1>6. CASE Deliver
  <2>1. /\ UNCHANGED <<round, read, pc, attempt, made, answered, status, asked,
                       answer>>
        /\ epc = "read" /\ epc' \in {"raised", "done"}
        /\ DOMAIN read = Rollouts /\ kind' \in Kinds
    BY <1>6 DEF Deliver, AllRead, jobVars, callVars, logVars
  <2>2. PICK o \in Orders : rows' = RowsOf(kind', o)
    BY <1>6 DEF Deliver
  <2>3. \A i \in Rollouts : ReadFor(i) /\ ~StepsMissing(kind', i)
    BY <1>6, <2>1 DEF Deliver, RoundInv
  <2>4. PICK k \in Kinds : k = kind'
    BY <2>1
  <2>5. PICK q \in Seq(Row) :
            /\ q = RowsOf(k, o)
            /\ \A n \in DOMAIN q : RowFits(q[n])
            /\ \A m, n \in DOMAIN q : q[m].call = q[n].call => m = n
    BY <2>1, <2>3, <2>4, RowsAre
  <2>6. rows' = q
    BY <2>2, <2>4, <2>5
  <2>7. ASSUME NEW r, RowFits(r)
        PROVE  RowFits(r)'
    BY <2>1, <2>7 DEF RowFits, Mine, Session, CallsOf
  <2>8. \A n \in DOMAIN q : RowFits(q[n])'
    BY <2>5, <2>7
  <2>9. \A n \in DOMAIN rows' : RowFits(rows[n])'
    BY <2>6, <2>8
  <2>10. \A i \in Rollouts : Accounted(i)'
    BY <2>1 DEF RoundInv, Accounted, Mine, Session, CallsOf
  <2>11. \A i \in DOMAIN read' : ReadFor(i)'
    BY <2>1, <2>3 DEF ReadFor, Mine, Session, CallsOf
  <2>12. answer'[round'] \in {"true", "false"}
    BY <2>1 DEF RoundInv
  <2>13. QED
    BY <2>1, <2>5, <2>6, <2>9, <2>10, <2>11, <2>12 DEF RoundInv
<1>7. QED
  BY <1>2, <1>3, <1>4, <1>5, <1>6 DEF Engine

\* The invariant of the batch.
BInv == Types /\ LogInv /\ RoundInv

\* Every step keeps it.
LEMMA BatchStep ==
    ASSUME BInv, [Next]_vars
    PROVE  BInv'
<1>1. Types /\ LogInv /\ RoundInv
  BY DEF BInv
<1>2. Types' /\ LogInv'
  BY <1>1, TypesStep, LogStep
<1>3. ASSUME Engine
      PROVE  RoundInv'
  BY <1>1, <1>3, EngineStep
<1>4. ASSUME ~Engine
      PROVE  RoundInv'
  <2>1. Frame
    BY <1>1, <1>4, JobFrame, ProxyFrame, StutterFrame DEF Next, Proxy
  <2>2. QED
    BY <1>1, <2>1, RoundFrame
<1>5. QED
  BY <1>2, <1>3, <1>4 DEF BInv

\* What a flush asked about, what was read and what was delivered fit the
\* sessions of the round.
THEOREM Invariance == Spec => []BInv
<1>1. Init => BInv
  <2>1. Init => RoundInv
    BY DEF Init, RoundInv
  <2>2. QED
    BY <2>1, TypesInit, LogInit DEF BInv
<1>2. BInv /\ [Next]_vars => BInv'
  BY BatchStep
<1>3. QED
  BY <1>1, <1>2, PTL DEF Spec

\* A delivered row is of its task and of a stored call of the session that
\* its reward is for, and of no call twice.
THEOREM RowsAreOwn == Spec => []RowsOfOwnSession
<1>1. BInv => RowsOfOwnSession
  BY DEF BInv, RoundInv, RowFits, RowsOfOwnSession, CallsOf
<1>2. QED
  BY <1>1, Invariance, PTL

\* What the agent heard of is in the episode, or its trace was dropped or
\* failed, or the flush did not succeed.
THEOREM StepsMissForAReason == Spec => []MissingForAReason
<1>1. ASSUME BInv, epc = "done",
             NEW i \in Rollouts,
             NEW c \in ToSet(Heard(i)) \ ToSet(Steps(kind, i))
      PROVE  /\ kind # "views"
             /\ status[c] \in {"dropped", "failed"} \/ answer[round] = "false"
  <2>1. Types /\ LogInv /\ RoundInv /\ round \in Rounds
    BY <1>1 DEF BInv, Types, TypeOK
  <2>2. kind # "views" /\ Steps(kind, i) = read[i]
    BY <1>1 DEF Steps
  <2>3. c \in CallsOf(Session(Mine(i))) \cap answered
    BY <1>1, <2>1, HeardIs
  <2>4. /\ Accounted(i) /\ ReadFor(i)
        /\ answer[round] \in {"true", "false"}
    BY <1>1, <2>1 DEF RoundInv
  <2>5. ASSUME answer[round] = "true", status[c] # "dropped"
        PROVE  status[c] = "failed"
    <3>1. c \in asked[round]
      BY <2>3, <2>4, <2>5 DEF Accounted
    <3>2. status[c] \in {"stored", "failed"}
      BY <2>1, <2>5, <3>1 DEF LogInv, Log!Settled
    <3>3. status[c] # "stored"
      BY <1>1, <2>2, <2>3, <2>4, <2>5, <3>1 DEF ReadFor
    <3>4. QED
      BY <3>2, <3>3
  <2>6. QED
    BY <2>2, <2>4, <2>5
<1>2. BInv => MissingForAReason
  BY <1>1 DEF MissingForAReason
<1>3. QED
  BY <1>2, Invariance, PTL
===============================================================================
