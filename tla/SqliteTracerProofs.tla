-------------------------- MODULE SqliteTracerProofs --------------------------
(***************************************************************************)
(* Theorems about SqliteTracer for any set of traces, number of workers,   *)
(* flushes and closes, queue size and retry limit.                         *)
(***************************************************************************)
EXTENDS SqliteTracer, FiniteSetTheorems, TLAPS

USE TracerAssumption, StopIsNoTrace DEF Workers, None

Items   == Traces \cup {STOP}
Pending == Accepted \ Settled

\* What makes FlushWaitsForAll inductive: where each pending trace is
\* (Custody), that the join counter covers them all, and that flush only
\* remembers traces that were accepted.
IInv ==
    /\ TypeOK
    /\ Custody
    /\ CounterCovers
    /\ Settled \subseteq Accepted
    /\ \A f \in Flushers : snap[f] \subseteq Accepted
    /\ FlushWaitsForAll

-------------------------------------------------------------------------------
\* Sequences: what Append and Tail do to the places of the elements.
LEMMA AppendFacts ==
    ASSUME NEW S, NEW s \in Seq(S), NEW e \in S
    PROVE  /\ Append(s, e) \in Seq(S)
           /\ Len(Append(s, e)) = Len(s) + 1
           /\ \A i \in 1..Len(s) : Append(s, e)[i] = s[i]
           /\ Append(s, e)[Len(s) + 1] = e
  OBVIOUS

\* The tail of a sequence: every element moves up by one place.
LEMMA TailFacts ==
    ASSUME NEW S, NEW s \in Seq(S), s # <<>>
    PROVE  /\ Tail(s) \in Seq(S)
           /\ Len(s) \in Nat \ {0}
           /\ Len(Tail(s)) = Len(s) - 1
           /\ \A i \in 1..Len(Tail(s)) : Tail(s)[i] = s[i + 1]
           /\ Head(s) = s[1]
           /\ Head(s) \in S
  OBVIOUS

\* Finitely many traces are accepted and not yet settled.
LEMMA PendingFinite ==
    ASSUME TypeOK
    PROVE  IsFiniteSet(Pending) /\ Cardinality(Pending) \in Nat
<1>1. Pending \subseteq Traces
  BY DEF Pending, Accepted
<1>2. QED
  BY <1>1, FS_Subset, FS_CardinalityType

\* A trace is put on the queue: the pending traces grow by one.
LEMMA AcceptCounts ==
    ASSUME IInv, NEW t \in Traces, lpc[t] # "queued",
           lpc' = [lpc EXCEPT ![t] = "queued"], UNCHANGED <<stored, failed>>
    PROVE  /\ Pending' = Pending \cup {t}
           /\ Cardinality(Pending') = Cardinality(Pending) + 1
<1>1. t \notin Pending /\ t \notin Settled
  BY DEF Pending, Accepted, IInv
<1>2. Pending' = Pending \cup {t}
  BY <1>1 DEF Pending, Accepted, Settled, IInv, TypeOK
<1>3. QED
  BY <1>1, <1>2, PendingFinite, FS_AddElement DEF IInv

\* The trace of a working worker, or of an abandoned coroutine, is pending.
LEMMA HeldIsPending ==
    ASSUME IInv, NEW w \in Workers, Working(w) \/ Holds(w)
    PROVE  Holds(w) /\ item[w] \in Pending
  BY DEF IInv, Custody, Pending

\* A worker settles the trace it holds: the pending traces shrink by one.
LEMMA SettleCounts ==
    ASSUME IInv, NEW t \in Pending, Settled' = Settled \cup {t}, lpc' = lpc
    PROVE  /\ Pending' = Pending \ {t}
           /\ Cardinality(Pending') = Cardinality(Pending) - 1
           /\ Cardinality(Pending) > 0
<1>1. Pending' = Pending \ {t}
  BY DEF Pending, Accepted
<1>2. QED
  BY <1>1, PendingFinite, FS_RemoveElement, FS_EmptySet DEF IInv

-------------------------------------------------------------------------------
\* Types.

\* The tracer starts with values of its types.
LEMMA TypeInit == Init => TypeOK
  BY DEF Init, TypeOK

\* Every action keeps the types; task_done needs the whole invariant to know
\* that the counter is not zero.
LEMMA TypeStep ==
    ASSUME IInv, Next
    PROVE  TypeOK'
<1> USE DEF TypeOK, workerVars, flushVars, closeVars
<1>a. TypeOK
  BY DEF IInv
<1>b. /\ queue \in Seq(Traces \cup {STOP})
      /\ accepted \in Seq(Traces)
      /\ unfinished \in Nat
      /\ lpc \in [Traces -> {"idle", "start", "put", "queued", "dropped"}]
      /\ cpc \in [Closers -> {"idle", "stop", "join", "closed"}]
  BY <1>a
<1>1. ASSUME NEW t \in Traces, LoggerStep(t) PROVE TypeOK'
  <2>1. CASE LogCheck(t)
    BY <1>a, <2>1 DEF LogCheck
  <2>2. CASE LogStart(t)
    BY <1>a, <2>2 DEF LogStart
  <2>3. CASE LogPut(t)
    <3>1. /\ Append(queue, t) \in Seq(Traces \cup {STOP})
          /\ Append(accepted, t) \in Seq(Traces)
      BY <1>a, AppendFacts
    <3>2. /\ queue' \in Seq(Traces \cup {STOP})
          /\ accepted' \in Seq(Traces)
          /\ unfinished' \in Nat
          /\ lpc' \in [Traces -> {"idle", "start", "put", "queued", "dropped"}]
      <4>1. CASE ~Full
        <5>1. /\ queue' = Append(queue, t)
              /\ unfinished' = unfinished + 1
              /\ lpc' = [lpc EXCEPT ![t] = "queued"]
              /\ accepted' = Append(accepted, t)
          BY <2>3, <4>1 DEF LogPut
        <5>2. QED
          BY <1>b, <3>1, <5>1
      <4>2. CASE Full
        <5>1. /\ lpc' = [lpc EXCEPT ![t] = "dropped"]
              /\ UNCHANGED <<queue, unfinished, accepted>>
          BY <2>3, <4>2 DEF LogPut
        <5>2. QED
          BY <1>b, <5>1
      <4>3. QED
        BY <4>1, <4>2
    <3>3. UNCHANGED <<thread, loop, wpc, item, attempt, stopReq, fpc, snap,
                      cpc, joined, stored, failed>>
      BY <2>3 DEF LogPut
    <3>4. QED
      BY <1>a, <3>2, <3>3
  <2>4. QED
    BY <1>1, <2>1, <2>2, <2>3 DEF LoggerStep
<1>2. ASSUME NEW w \in Workers, WorkerStep(w) PROVE TypeOK'
  <2>1. CASE WorkerBoot(w)
    BY <1>a, <2>1 DEF WorkerBoot
  <2>0. CASE WorkerRun(w)
    BY <1>a, <2>0 DEF WorkerRun
  <2>2. CASE WorkerGet(w)
    <3>1. Tail(queue) \in Seq(Items) /\ Head(queue) \in Items
      BY <1>a, <2>2, TailFacts DEF WorkerGet, Items
    <3>2. QED
      BY <1>a, <2>2, <3>1 DEF WorkerGet, Items
  <2>3. CASE WorkerGetStop(w)
    <3>1. Tail(queue) \in Seq(Items)
      BY <1>a, <2>3, TailFacts DEF WorkerGetStop, Items
    <3>2. QED
      BY <1>a, <2>3, <3>1 DEF WorkerGetStop, Items
  <2>4. CASE StoreOk(w) \/ StoreGiveUp(w)
    <3>1. item[w] \in Pending
      BY <2>4, HeldIsPending DEF StoreOk, StoreGiveUp, Working
    <3>2. Cardinality(Pending) > 0 /\ Cardinality(Pending) \in Nat
      BY <1>a, <3>1, PendingFinite, FS_EmptySet
    <3>3. Cardinality(Pending) <= unfinished
      BY DEF IInv, CounterCovers, Pending
    <3>4. unfinished' = unfinished - 1
      BY <2>4 DEF StoreOk, StoreGiveUp, TaskDone
    <3>5. unfinished' \in Nat
      BY <1>a, <3>2, <3>3, <3>4
    <3>6. item[w] \in Traces
      BY <3>1 DEF Pending, Accepted
    <3>7. stored' \in SUBSET Traces /\ failed' \in SUBSET Traces
      BY <1>a, <2>4, <3>6 DEF StoreOk, StoreGiveUp
    <3>8. UNCHANGED <<queue, thread, loop, stopReq, lpc, fpc, snap, cpc, joined,
                      accepted>>
      BY <2>4 DEF StoreOk, StoreGiveUp
    <3>9. /\ wpc' = [wpc EXCEPT ![w] = "get"]
          /\ item' = [item EXCEPT ![w] = STOP]
          /\ attempt' = [attempt EXCEPT ![w] = 0]
      BY <2>4 DEF StoreOk, StoreGiveUp, TaskDone
    <3>10. QED
      BY <1>a, <3>5, <3>7, <3>8, <3>9
  <2>5. CASE StoreRetry(w)
    BY <1>a, <2>5 DEF StoreRetry
  <2>6. CASE WorkerWake(w)
    BY <1>a, <2>6 DEF WorkerWake
  <2>7. CASE RunStop(w)
    BY <1>a, <2>7 DEF RunStop, ExitThread
  <2>8. CASE WorkerExit(w)
    BY <1>a, <2>8 DEF WorkerExit, ExitThread
  <2>9. QED
    BY <1>2, <2>0, <2>1, <2>2, <2>3, <2>4, <2>5, <2>6, <2>7, <2>8
       DEF WorkerStep
<1>3. ASSUME NEW f \in Flushers, FlushStep(f) PROVE TypeOK'
  <2>1. CASE FlushCall(f)
    <3>1. Accepted \in SUBSET Traces
      BY DEF Accepted
    <3>2. QED
      BY <1>a, <2>1, <3>1 DEF FlushCall
  <2>2. CASE FlushTrue(f)
    BY <1>a, <2>2 DEF FlushTrue
  <2>3. CASE FlushTimeout(f)
    BY <1>a, <2>3 DEF FlushTimeout
  <2>4. QED
    BY <1>3, <2>1, <2>2, <2>3 DEF FlushStep
<1>4. ASSUME NEW c \in Closers, CloseStep(c) PROVE TypeOK'
  <2>1. CASE CloseSentinel(c)
    <3>1. Append(queue, STOP) \in Seq(Traces \cup {STOP})
      BY <1>a, AppendFacts
    <3>2. /\ queue' \in Seq(Traces \cup {STOP})
          /\ unfinished' \in Nat
          /\ cpc' \in [Closers -> {"idle", "stop", "join", "closed"}]
      <4>1. CASE ~Full
        <5>1. /\ queue' = Append(queue, STOP)
              /\ unfinished' = unfinished + 1
              /\ cpc' = [cpc EXCEPT ![c] = "stop"]
          BY <2>1, <4>1 DEF CloseSentinel
        <5>2. QED
          BY <1>b, <3>1, <5>1
      <4>2. CASE Full
        <5>1. /\ cpc' = [cpc EXCEPT ![c] = "stop"]
              /\ UNCHANGED <<queue, unfinished>>
          BY <2>1, <4>2 DEF CloseSentinel
        <5>2. QED
          BY <1>b, <5>1
      <4>3. QED
        BY <4>1, <4>2
    <3>3. UNCHANGED <<thread, loop, wpc, item, attempt, stopReq, lpc, fpc, snap,
                      joined, accepted, stored, failed>>
      BY <2>1 DEF CloseSentinel
    <3>4. QED
      BY <1>a, <3>2, <3>3
  <2>2. CASE CloseSchedule(c)
    BY <1>a, <2>2 DEF CloseSchedule
  <2>3. CASE CloseJoined(c)
    BY <1>a, <2>3 DEF CloseJoined
  <2>4. QED
    BY <1>4, <2>1, <2>2, <2>3 DEF CloseStep
<1>5. ASSUME NEW w \in Workers, Collect(w) PROVE TypeOK'
  <2>1. item[w] \in Pending
    BY <1>5, HeldIsPending DEF Collect, Holds
  <2>2. Cardinality(Pending) > 0 /\ Cardinality(Pending) \in Nat
    BY <1>a, <2>1, PendingFinite, FS_EmptySet
  <2>3. Cardinality(Pending) <= unfinished
    BY DEF IInv, CounterCovers, Pending
  <2>4. unfinished' = unfinished - 1
    BY <1>5 DEF Collect
  <2>5. unfinished' \in Nat
    BY <1>b, <2>2, <2>3, <2>4
  <2>6. failed' \in SUBSET Traces
    BY <1>a, <1>5, <2>1 DEF Collect, Pending, Accepted
  <2>7. /\ item' = [item EXCEPT ![w] = STOP]
        /\ UNCHANGED <<queue, thread, loop, wpc, attempt, stopReq, lpc, fpc,
                       snap, cpc, joined, accepted, stored>>
    BY <1>5 DEF Collect
  <2>8. QED
    BY <1>a, <2>5, <2>6, <2>7
<1>6. QED
  BY <1>1, <1>2, <1>3, <1>4, <1>5 DEF Next

-------------------------------------------------------------------------------
\* Custody.  Each lemma is about what a group of actions does to the queue and
\* to the items the workers hold.

\* Custody is kept when neither the queue nor what is held changes.
LEMMA CustodyFrame ==
    ASSUME IInv, UNCHANGED <<queue, item>>, Pending' = Pending,
           \A w \in Workers : Working(w)' => Working(w)
    PROVE  Custody'
  BY DEF IInv, Custody, Pending, Holds

\* It is kept when a new trace, or a sentinel, is appended to the queue.
LEMMA CustodyAppend ==
    ASSUME IInv, NEW e \in Items, queue' = Append(queue, e), UNCHANGED item,
           e # STOP => e \in Pending' /\ e \notin Pending,
           Pending \subseteq Pending',
           \A w \in Workers : Working(w)' => Working(w)
    PROVE  Custody'
<1>1. /\ Len(queue) \in Nat
      /\ Len(queue') = Len(queue) + 1
      /\ \A i \in 1..Len(queue) : queue'[i] = queue[i]
      /\ queue'[Len(queue) + 1] = e
  BY AppendFacts DEF IInv, TypeOK, Items
<1>2. \A i \in 1..Len(queue') : i \in 1..Len(queue) \/ i = Len(queue) + 1
  BY <1>1
<1>3. /\ \A i \in 1..Len(queue) : queue[i] # STOP => queue[i] \in Pending
      /\ \A w \in Workers : Holds(w) => item[w] \in Pending
      /\ \A w \in Workers : Holds(w) => item[w] # STOP
  BY DEF IInv, Custody, Pending, Accepted, Holds
<1>4. \A i, j \in 1..Len(queue') :
          queue'[i] = queue'[j] /\ queue'[i] # STOP => i = j
  BY <1>1, <1>2, <1>3 DEF IInv, Custody
<1>5. \A i \in 1..Len(queue') : queue'[i] # STOP => queue'[i] \in Pending'
  BY <1>1, <1>2, <1>3
<1>6. ASSUME NEW w \in Workers, Holds(w)'
      PROVE  /\ item'[w] \in Pending'
             /\ \A i \in 1..Len(queue') : queue'[i] # item'[w]
             /\ \A v \in Workers : Holds(v)' /\ item'[v] = item'[w] => v = w
  BY <1>1, <1>2, <1>3, <1>6 DEF IInv, Custody, Holds
<1>7. \A w \in Workers : Working(w)' => Holds(w)'
  BY DEF IInv, Custody, Holds
<1>8. QED
  BY <1>4, <1>5, <1>6, <1>7 DEF Custody, Pending

\* It is kept when a worker takes the head of the queue.
LEMMA CustodyTail ==
    ASSUME IInv, queue # <<>>, queue' = Tail(queue), Pending' = Pending,
           NEW w \in Workers,
           \/ /\ UNCHANGED item
              /\ \A v \in Workers : Working(v)' => Working(v)
           \/ /\ item' = [item EXCEPT ![w] = Head(queue)]
              /\ Head(queue) # STOP
              /\ \A v \in Workers \ {w} : Working(v)' => Working(v)
    PROVE  Custody'
<1>1. /\ Len(queue) \in Nat \ {0}
      /\ Len(queue') = Len(queue) - 1
      /\ \A i \in 1..Len(queue') : queue'[i] = queue[i + 1]
      /\ Head(queue) = queue[1]
  BY TailFacts DEF IInv, TypeOK
<1>2. \A i \in 1..Len(queue') : i + 1 \in 1..Len(queue) /\ i + 1 # 1
  BY <1>1
<1>3. 1 \in 1..Len(queue)
  BY <1>1
<1>4. /\ \A i \in 1..Len(queue) : queue[i] # STOP => queue[i] \in Pending
      /\ \A v \in Workers : Holds(v) => item[v] \in Pending
      /\ STOP \notin Pending
  BY DEF IInv, Custody, Pending, Accepted
<1>5. \A i, j \in 1..Len(queue') :
          queue'[i] = queue'[j] /\ queue'[i] # STOP => i = j
  BY <1>1, <1>2 DEF IInv, Custody
<1>6. \A i \in 1..Len(queue') : queue'[i] # STOP => queue'[i] \in Pending'
  BY <1>1, <1>2, <1>4
<1>7. ASSUME NEW u \in Workers, Holds(u)'
      PROVE  /\ item'[u] \in Pending'
             /\ \A i \in 1..Len(queue') : queue'[i] # item'[u]
             /\ \A v \in Workers : Holds(v)' /\ item'[v] = item'[u] => v = u
  <2>1. CASE UNCHANGED item /\ \A v \in Workers : Working(v)' => Working(v)
    BY <1>1, <1>2, <1>4, <1>7, <2>1 DEF IInv, Custody, Holds
  <2>2. CASE /\ item' = [item EXCEPT ![w] = Head(queue)]
             /\ Head(queue) # STOP
             /\ \A v \in Workers \ {w} : Working(v)' => Working(v)
    <3>1. /\ item'[w] = queue[1]
          /\ \A v \in Workers \ {w} : item'[v] = item[v]
      BY <1>1, <2>2 DEF IInv, TypeOK
    <3>2. \A v \in Workers \ {w} : Holds(v)' => item'[v] # queue[1]
      BY <1>3, <2>2, <3>1 DEF IInv, Custody, Holds
    <3>3. CASE u = w
      BY <1>1, <1>2, <1>3, <1>4, <1>7, <2>2, <3>1, <3>2, <3>3
         DEF IInv, Custody, Holds
    <3>4. CASE u # w
      BY <1>1, <1>2, <1>4, <1>7, <2>2, <3>1, <3>2, <3>4
         DEF IInv, Custody, Holds
    <3>5. QED
      BY <3>3, <3>4
  <2>3. QED
    BY <2>1, <2>2
<1>8. ASSUME NEW v \in Workers, Working(v)' PROVE Holds(v)'
  <2>1. CASE UNCHANGED item /\ \A u \in Workers : Working(u)' => Working(u)
    BY <1>8, <2>1 DEF IInv, Custody, Holds
  <2>2. CASE /\ item' = [item EXCEPT ![w] = Head(queue)]
             /\ Head(queue) # STOP
             /\ \A u \in Workers \ {w} : Working(u)' => Working(u)
    <3>1. item'[w] # STOP /\ (v # w => item'[v] = item[v])
      BY <2>2 DEF IInv, TypeOK
    <3>2. QED
      BY <1>8, <2>2, <3>1 DEF IInv, Custody, Holds
  <2>3. QED
    BY <2>1, <2>2
<1>9. QED
  BY <1>5, <1>6, <1>7, <1>8 DEF Custody, Pending

\* A worker settles its trace and lets go of it.
LEMMA CustodySettle ==
    ASSUME IInv, NEW w \in Workers, Holds(w), UNCHANGED queue,
           Pending' = Pending \ {item[w]},
           item' = [item EXCEPT ![w] = STOP],
           \A v \in Workers : Working(v)' => Working(v) /\ v # w
    PROVE  Custody'
<1>1. \A v \in Workers : Holds(v)' => v # w /\ Holds(v) /\ item'[v] = item[v]
  BY DEF Holds, IInv, TypeOK
<1>2. \A v \in Workers : v # w => (Holds(v)' <=> Holds(v))
  BY DEF Holds, IInv, TypeOK
<1>3. \A v \in Workers : Working(v)' => Holds(v)'
  BY <1>2 DEF IInv, Custody
<1>4. QED
  BY <1>1, <1>3 DEF IInv, Custody, Pending

-------------------------------------------------------------------------------
\* The inductive invariant.

\* An empty tracer satisfies the invariant.
LEMMA IInvInit == Init => IInv
<1> SUFFICES ASSUME Init PROVE IInv
  OBVIOUS
<1>1. TypeOK
  BY TypeInit
<1>2. Accepted = {} /\ Settled = {}
  BY DEF Init, Accepted, Settled
<1>3. CounterCovers
  BY <1>2, FS_EmptySet DEF CounterCovers, Init
<1>4. Custody
  BY DEF Init, Custody, Working, Holds
<1>5. QED
  BY <1>1, <1>2, <1>3, <1>4 DEF IInv, FlushWaitsForAll, Init

\* A step that changes none of the traces' fates, nor the queue.
LEMMA IInvFrame ==
    ASSUME IInv, TypeOK', Accepted' = Accepted,
           UNCHANGED <<queue, unfinished, item, snap, stored, failed>>,
           \A w \in Workers : Working(w)' => Working(w),
           \A f \in Flushers : fpc'[f] = "true" => fpc[f] = "true"
    PROVE  IInv'
<1>1. Settled' = Settled /\ Pending' = Pending
  BY DEF Settled, Pending
<1>2. Custody'
  BY <1>1, CustodyFrame
<1>3. CounterCovers'
  BY <1>1 DEF IInv, CounterCovers, Pending
<1>4. QED
  BY <1>1, <1>2, <1>3 DEF IInv, FlushWaitsForAll

\* log_llm_call puts its trace on the queue.
LEMMA IInvAccept ==
    ASSUME IInv, TypeOK', NEW t \in Traces, LogPut(t), ~Full
    PROVE  IInv'
<1>1. /\ lpc[t] = "put"
      /\ lpc' = [lpc EXCEPT ![t] = "queued"]
      /\ queue' = Append(queue, t)
      /\ unfinished' = unfinished + 1
      /\ UNCHANGED <<item, wpc, snap, fpc, stored, failed>>
  BY DEF LogPut, workerVars, flushVars
<1>2. /\ Pending' = Pending \cup {t}
      /\ Cardinality(Pending') = Cardinality(Pending) + 1
  BY <1>1, AcceptCounts
<1>3. t \notin Pending /\ t \in Items /\ t \in Pending'
  BY <1>1, <1>2 DEF Pending, Accepted, Items
<1>4. Custody'
  <2>1. \A w \in Workers : Working(w)' => Working(w)
    BY <1>1 DEF Working
  <2>2. UNCHANGED item /\ Pending \subseteq Pending'
    BY <1>1, <1>2
  <2>3. QED
    BY <1>1, <1>3, <2>1, <2>2, CustodyAppend
<1>5. CounterCovers'
  <2>1. Cardinality(Pending) <= unfinished
    BY DEF IInv, CounterCovers, Pending
  <2>2. Cardinality(Pending) \in Nat /\ unfinished \in Nat
    BY PendingFinite DEF IInv, TypeOK
  <2>3. Cardinality(Pending') <= unfinished'
    BY <1>1, <1>2, <2>1, <2>2
  <2>4. QED
    BY <2>3 DEF CounterCovers, Pending
<1>6. Accepted \subseteq Accepted' /\ Settled' = Settled
  BY <1>1 DEF Accepted, Settled, IInv, TypeOK
<1>7. QED
  BY <1>1, <1>4, <1>5, <1>6 DEF IInv, FlushWaitsForAll

\* The sentinel counts as unfinished work that nobody will ever mark done.
LEMMA IInvSentinel ==
    ASSUME IInv, TypeOK', NEW c \in Closers, CloseSentinel(c), ~Full
    PROVE  IInv'
<1>1. /\ queue' = Append(queue, STOP)
      /\ unfinished' = unfinished + 1
      /\ UNCHANGED <<item, wpc, lpc, snap, fpc, stored, failed>>
  BY DEF CloseSentinel, workerVars, flushVars
<1>2. Accepted' = Accepted /\ Settled' = Settled /\ Pending' = Pending
  BY <1>1 DEF Accepted, Settled, Pending
<1>3. Custody'
  <2>1. \A w \in Workers : Working(w)' => Working(w)
    BY <1>1 DEF Working
  <2>2. UNCHANGED item /\ Pending \subseteq Pending' /\ STOP \in Items
    BY <1>1, <1>2 DEF Items
  <2>3. QED
    BY <1>1, <2>1, <2>2, CustodyAppend
<1>4. CounterCovers'
  <2>1. Cardinality(Pending) <= unfinished
    BY DEF IInv, CounterCovers, Pending
  <2>2. Cardinality(Pending) \in Nat /\ unfinished \in Nat
    BY PendingFinite DEF IInv, TypeOK
  <2>3. Cardinality(Pending') <= unfinished'
    BY <1>1, <1>2, <2>1, <2>2
  <2>4. QED
    BY <2>3 DEF CounterCovers, Pending
<1>5. QED
  BY <1>1, <1>2, <1>3, <1>4 DEF IInv, FlushWaitsForAll

\* A worker takes the head of the queue.
LEMMA IInvGet ==
    ASSUME IInv, TypeOK', NEW w \in Workers, WorkerGet(w) \/ WorkerGetStop(w)
    PROVE  IInv'
<1>1. /\ queue # <<>>
      /\ queue' = Tail(queue)
      /\ UNCHANGED <<unfinished, lpc, snap, fpc, stored, failed>>
  BY DEF WorkerGet, WorkerGetStop, flushVars
<1>2. Accepted' = Accepted /\ Settled' = Settled /\ Pending' = Pending
  BY <1>1 DEF Accepted, Settled, Pending
<1>3. Custody'
  <2>1. CASE WorkerGet(w)
    <3>1. /\ item' = [item EXCEPT ![w] = Head(queue)]
          /\ Head(queue) # STOP
          /\ \A v \in Workers \ {w} : Working(v)' => Working(v)
      BY <2>1 DEF WorkerGet, Working, IInv, TypeOK
    <3>2. QED
      BY <1>1, <1>2, <3>1, CustodyTail
  <2>2. CASE WorkerGetStop(w)
    <3>1. UNCHANGED item /\ \A v \in Workers : Working(v)' => Working(v)
      BY <2>2 DEF WorkerGetStop, Working, IInv, TypeOK
    <3>2. QED
      BY <1>1, <1>2, <3>1, CustodyTail
  <2>3. QED
    BY <2>1, <2>2
<1>4. CounterCovers'
  BY <1>1, <1>2 DEF IInv, CounterCovers, Pending
<1>5. QED
  BY <1>1, <1>2, <1>3, <1>4 DEF IInv, FlushWaitsForAll

\* A worker stores its trace or gives it up, or the coroutine that held it is
\* collected; the task is marked done.
LEMMA IInvSettle ==
    ASSUME IInv, TypeOK', NEW w \in Workers,
           StoreOk(w) \/ StoreGiveUp(w) \/ Collect(w)
    PROVE  IInv'
<1>1. /\ Working(w) \/ Holds(w)
      /\ unfinished' = unfinished - 1
      /\ item' = [item EXCEPT ![w] = STOP]
      /\ Settled' = Settled \cup {item[w]}
      /\ UNCHANGED <<queue, lpc, snap, fpc>>
  BY DEF StoreOk, StoreGiveUp, Collect, TaskDone, flushVars, Settled, Working,
     Holds
<1>a. \A v \in Workers : Working(v)' => Working(v) /\ v # w
  <2>1. \/ wpc' = [wpc EXCEPT ![w] = "get"]
        \/ wpc' = wpc /\ wpc[w] = "dead"
    BY DEF StoreOk, StoreGiveUp, Collect, TaskDone
  <2>2. QED
    BY <2>1 DEF Working, IInv, TypeOK
<1>2. Holds(w) /\ item[w] \in Pending
  BY <1>1, HeldIsPending
<1>3. /\ Pending' = Pending \ {item[w]}
      /\ Cardinality(Pending') = Cardinality(Pending) - 1
  BY <1>1, <1>2, SettleCounts
<1>4. Custody'
  BY <1>1, <1>a, <1>2, <1>3, CustodySettle
<1>5. CounterCovers'
  <2>1. Cardinality(Pending) <= unfinished
    BY DEF IInv, CounterCovers, Pending
  <2>2. Cardinality(Pending) \in Nat /\ unfinished \in Nat
    BY PendingFinite DEF IInv, TypeOK
  <2>3. Cardinality(Pending') <= unfinished'
    BY <1>1, <1>3, <2>1, <2>2
  <2>4. QED
    BY <2>3 DEF CounterCovers, Pending
<1>6. Accepted' = Accepted /\ Settled' \subseteq Accepted'
  BY <1>1, <1>2 DEF Accepted, Pending, IInv
<1>7. Settled \subseteq Settled'
  BY <1>1
<1>8. QED
  BY <1>1, <1>4, <1>5, <1>6, <1>7 DEF IInv, FlushWaitsForAll

\* flush remembers what is accepted; it answers True when the counter is zero.
LEMMA IInvFlush ==
    ASSUME IInv, TypeOK', NEW f \in Flushers, FlushStep(f)
    PROVE  IInv'
<1>1. UNCHANGED <<queue, unfinished, item, wpc, lpc, stored, failed>>
  BY DEF FlushStep, FlushCall, FlushTrue, FlushTimeout, workerVars
<1>2. Accepted' = Accepted /\ Settled' = Settled /\ Pending' = Pending
  BY <1>1 DEF Accepted, Settled, Pending
<1>3. Custody'
  BY <1>1, <1>2, CustodyFrame DEF Working
<1>4. CounterCovers'
  BY <1>1, <1>2 DEF IInv, CounterCovers, Pending
<1>5. CASE FlushCall(f)
  <2>1. /\ fpc' = [fpc EXCEPT ![f] = "join"]
        /\ snap' = [snap EXCEPT ![f] = Accepted]
    BY <1>5 DEF FlushCall
  <2>2. \A g \in Flushers : snap'[g] \subseteq Accepted'
    BY <1>2, <2>1 DEF IInv, TypeOK
  <2>3. FlushWaitsForAll'
    BY <1>2, <2>1 DEF FlushWaitsForAll, IInv, TypeOK
  <2>4. QED
    BY <1>2, <1>3, <1>4, <2>2, <2>3 DEF IInv
<1>6. CASE FlushTrue(f)
  <2>1. Pending = {}
    <3>1. Cardinality(Pending) <= 0
      BY <1>6 DEF FlushTrue, IInv, CounterCovers, Pending
    <3>2. QED
      BY <3>1, PendingFinite, FS_EmptySet DEF IInv
  <2>2. Accepted \subseteq Settled
    BY <2>1 DEF Pending
  <2>3. fpc' = [fpc EXCEPT ![f] = "true"] /\ UNCHANGED snap
    BY <1>6 DEF FlushTrue
  <2>4. FlushWaitsForAll'
    BY <1>2, <2>2, <2>3 DEF FlushWaitsForAll, IInv
  <2>5. QED
    BY <1>2, <1>3, <1>4, <2>3, <2>4 DEF IInv
<1>7. CASE FlushTimeout(f)
  <2>1. fpc' = [fpc EXCEPT ![f] = "false"] /\ UNCHANGED snap
    BY <1>7 DEF FlushTimeout
  <2>2. FlushWaitsForAll'
    BY <1>2, <2>1 DEF FlushWaitsForAll, IInv, TypeOK
  <2>3. QED
    BY <1>2, <1>3, <1>4, <2>1, <2>2 DEF IInv
<1>8. QED
  BY <1>5, <1>6, <1>7 DEF FlushStep

\* Every action preserves the invariant.
LEMMA IInvNext == IInv /\ Next => IInv'
<1> SUFFICES ASSUME IInv, Next PROVE IInv'
  OBVIOUS
<1> USE DEF workerVars, flushVars, closeVars
<1>1. TypeOK'
  BY TypeStep
<1>2. ASSUME NEW t \in Traces, LoggerStep(t) PROVE IInv'
  <2>1. CASE LogPut(t) /\ ~Full
    BY <1>1, <2>1, IInvAccept
  <2>2. CASE LogCheck(t) \/ LogStart(t) \/ (LogPut(t) /\ Full)
    <3>1. UNCHANGED <<queue, unfinished, item, snap, fpc, stored, failed>>
      BY <2>2 DEF LogCheck, LogStart, LogPut
    <3>2. Accepted' = Accepted
      <4>1. /\ lpc[t] # "queued"
            /\ \E s \in {"put", "start", "dropped"} :
                  lpc' = [lpc EXCEPT ![t] = s]
        BY <2>2 DEF LogCheck, LogStart, LogPut
      <4>2. QED
        BY <4>1 DEF Accepted, IInv, TypeOK
    <3>3. \A w \in Workers : Working(w)' => Working(w)
      BY <2>2 DEF LogCheck, LogStart, LogPut, Working, IInv, TypeOK
    <3>4. QED
      BY <1>1, <3>1, <3>2, <3>3, IInvFrame
  <2>3. QED
    BY <1>2, <2>1, <2>2 DEF LoggerStep
<1>3. ASSUME NEW w \in Workers, WorkerStep(w) PROVE IInv'
  <2>1. CASE WorkerGet(w) \/ WorkerGetStop(w)
    BY <1>1, <2>1, IInvGet
  <2>2. CASE StoreOk(w) \/ StoreGiveUp(w)
    BY <1>1, <2>2, IInvSettle
  <2>3. CASE \/ WorkerBoot(w) \/ WorkerRun(w)
             \/ StoreRetry(w) \/ WorkerWake(w)
             \/ RunStop(w) \/ WorkerExit(w)
    <3>1. UNCHANGED <<queue, unfinished, item, snap, fpc, stored, failed, lpc>>
      BY <2>3 DEF WorkerBoot, WorkerRun, StoreRetry, WorkerWake, RunStop,
                  WorkerExit
    <3>2. \A v \in Workers : Working(v)' => Working(v)
      BY <2>3 DEF WorkerBoot, WorkerRun, StoreRetry, WorkerWake, RunStop,
                  WorkerExit,
         ExitThread, Working, IInv, TypeOK
    <3>3. Accepted' = Accepted
      BY <3>1 DEF Accepted
    <3>4. QED
      BY <1>1, <3>1, <3>2, <3>3, IInvFrame
  <2>4. QED
    BY <1>3, <2>1, <2>2, <2>3 DEF WorkerStep
<1>4. ASSUME NEW f \in Flushers, FlushStep(f) PROVE IInv'
  BY <1>1, <1>4, IInvFlush
<1>5. ASSUME NEW c \in Closers, CloseStep(c) PROVE IInv'
  <2>1. CASE CloseSentinel(c) /\ ~Full
    BY <1>1, <2>1, IInvSentinel
  <2>2. CASE (CloseSentinel(c) /\ Full) \/ CloseSchedule(c) \/ CloseJoined(c)
    <3>1. /\ UNCHANGED <<queue, unfinished, item, snap, fpc, stored, failed>>
          /\ UNCHANGED <<lpc, wpc>>
      BY <2>2 DEF CloseSentinel, CloseSchedule, CloseJoined
    <3>2. Accepted' = Accepted /\ \A w \in Workers : Working(w)' => Working(w)
      BY <3>1 DEF Accepted, Working
    <3>3. QED
      BY <1>1, <3>1, <3>2, IInvFrame
  <2>3. QED
    BY <1>5, <2>1, <2>2 DEF CloseStep
<1>6. ASSUME NEW w \in Workers, Collect(w) PROVE IInv'
  BY <1>1, <1>6, IInvSettle
<1>7. QED
  BY <1>2, <1>3, <1>4, <1>5, <1>6 DEF Next

\* So does a step that changes nothing.
LEMMA IInvStutter == IInv /\ UNCHANGED vars => IInv'
<1> SUFFICES ASSUME IInv, UNCHANGED vars PROVE IInv'
  OBVIOUS
<1> USE DEF vars, workerVars, flushVars, closeVars
<1>1. TypeOK'
  BY DEF IInv, TypeOK
<1>2. Accepted' = Accepted /\ \A w \in Workers : Working(w)' => Working(w)
  BY DEF Accepted, Working
<1>3. QED
  BY <1>1, <1>2, IInvFrame

\* The inductive invariant holds in every reachable state: the tracer keeps its
\* types, its counter and the custody of every accepted trace, for any number
\* of traces, workers, flushes and closes.
THEOREM Invariance == Spec => []IInv
<1>1. Init => IInv
  BY IInvInit
<1>2. IInv /\ [Next]_vars => IInv'
  BY IInvNext, IInvStutter
<1>3. QED
  BY <1>1, <1>2, PTL DEF Spec

\* The variables keep their types; in particular task_done is never called more
\* often than put, which queue.Queue would answer with a ValueError.
THEOREM TypeCorrect == Spec => []TypeOK
<1>1. IInv => TypeOK
  BY DEF IInv
<1>2. QED
  BY <1>1, Invariance, PTL

\* A flush that answers True leaves no trace accepted before it unaccounted
\* for: each one is in the store or was reported as an error.
THEOREM FlushWaits == Spec => []FlushWaitsForAll
<1>1. IInv => FlushWaitsForAll
  BY DEF IInv
<1>2. QED
  BY <1>1, Invariance, PTL

\* No trace is queued twice, held by two workers or taken again once settled.
THEOREM CustodyIsExclusive == Spec => []Custody
<1>1. IInv => Custody
  BY DEF IInv
<1>2. QED
  BY <1>1, Invariance, PTL

\* unfinished_tasks never falls below the number of unsettled traces.
THEOREM CounterIsEnough == Spec => []CounterCovers
<1>1. IInv => CounterCovers
  BY DEF IInv
<1>2. QED
  BY <1>1, Invariance, PTL

-------------------------------------------------------------------------------
(* The tracer implements TraceLog *)

Status == [t \in Traces |-> StatusOf(t)]

\* What the abstract log calls settled and accepted is what the tracer does.
LEMMA AbstractSets ==
    ASSUME IInv
    PROVE  /\ Abstract!Settled = Settled
           /\ Abstract!Pending \cup Abstract!Settled = Accepted
<1>1. stored \subseteq Traces /\ failed \subseteq Traces
  BY DEF IInv, TypeOK
<1>2. Settled \subseteq Accepted
  BY DEF IInv
<1>3. Abstract!Settled = Settled
  BY <1>1 DEF Abstract!Settled, StatusOf, Settled
<1>4. Abstract!Pending = Accepted \ Settled
  BY <1>1, <1>2 DEF Abstract!Pending, StatusOf, Settled, Accepted
<1>5. QED
  BY <1>2, <1>3, <1>4

\* The tracer starts as an empty log nobody asked anything of.
LEMMA RefineInit == Init => Abstract!Init
  BY DEF Init, Abstract!Init, StatusOf

\* A step that settles nothing and admits nothing does not show in the log.
LEMMA RefineFrame ==
    ASSUME UNCHANGED <<stored, failed, snap, fpc>>,
           \A t \in Traces : /\ lpc'[t] = "queued" <=> lpc[t] = "queued"
                             /\ lpc'[t] = "dropped" <=> lpc[t] = "dropped"
    PROVE  UNCHANGED Abstract!vars
<1>1. Status' = Status
  BY DEF Status, StatusOf
<1>2. QED
  BY <1>1 DEF Abstract!vars, Status

\* log_llm_call: the put is the log's admission or its drop.
LEMMA RefineLogger ==
    ASSUME IInv, NEW t \in Traces, LoggerStep(t)
    PROVE  Abstract!Next \/ UNCHANGED Abstract!vars
<1> USE DEF workerVars, flushVars, closeVars
<1>1. UNCHANGED <<stored, failed, snap, fpc>>
  BY DEF LoggerStep, LogCheck, LogStart, LogPut
<1>2. lpc \in [Traces -> {"idle", "start", "put", "queued", "dropped"}]
  BY DEF IInv, TypeOK
<1>3. CASE LogCheck(t) \/ LogStart(t)
  <2>1. \E s \in {"put", "start"} : lpc' = [lpc EXCEPT ![t] = s]
    BY <1>3 DEF LogCheck, LogStart
  <2>2. lpc[t] \in {"idle", "start"}
    BY <1>3 DEF LogCheck, LogStart
  <2>3. QED
    BY <1>1, <1>2, <2>1, <2>2, RefineFrame
<1>4. CASE LogPut(t)
  <2>1. PICK s \in {"queued", "dropped"} : lpc' = [lpc EXCEPT ![t] = s]
    BY <1>4 DEF LogPut
  <2>2. lpc[t] = "put"
    BY <1>4 DEF LogPut
  <2>3. t \notin stored /\ t \notin failed
    BY <2>2 DEF IInv, Accepted, Settled
  <2>4. Status[t] = "new"
    BY <2>2, <2>3 DEF Status, StatusOf
  <2>5. Status' = [Status EXCEPT ![t] = IF s = "queued" THEN "pending"
                                                         ELSE "dropped"]
    BY <1>1, <1>2, <2>1, <2>3 DEF Status, StatusOf
  <2>6. Abstract!Log(t)
    BY <1>1, <2>4, <2>5 DEF Abstract!Log, Status
  <2>7. QED
    BY <2>6 DEF Abstract!Next
<1>5. QED
  BY <1>3, <1>4 DEF LoggerStep

\* A settled trace, stored or given up, is a trace the log had pending.
LEMMA RefineSettle ==
    ASSUME IInv, NEW w \in Workers, StoreOk(w) \/ StoreGiveUp(w) \/ Collect(w)
    PROVE  Abstract!Next
<1> USE DEF workerVars, flushVars, closeVars
<1>1. UNCHANGED <<lpc, snap, fpc>>
  BY DEF StoreOk, StoreGiveUp, Collect
<1>2. Working(w) \/ Holds(w)
  BY DEF StoreOk, StoreGiveUp, Collect, Working, Holds
<1>3. item[w] \in Pending
  BY <1>2, HeldIsPending
<1>4. item[w] \in Traces /\ lpc[item[w]] = "queued"
  BY <1>3 DEF Pending, Accepted
<1>5. item[w] \notin stored /\ item[w] \notin failed
  BY <1>3 DEF Pending, Settled
<1>6. Status[item[w]] = "pending"
  BY <1>4, <1>5 DEF Status, StatusOf
<1>7. \E s \in {"stored", "failed"} : Status' = [Status EXCEPT ![item[w]] = s]
  <2>1. CASE stored' = stored \cup {item[w]} /\ failed' = failed
    <3>1. Status' = [Status EXCEPT ![item[w]] = "stored"]
      BY <1>1, <1>4, <1>5, <2>1 DEF Status, StatusOf
    <3>2. QED
      BY <3>1
  <2>2. CASE stored' = stored /\ failed' = failed \cup {item[w]}
    <3>1. Status' = [Status EXCEPT ![item[w]] = "failed"]
      BY <1>1, <1>4, <1>5, <2>2 DEF Status, StatusOf
    <3>2. QED
      BY <3>1
  <2>3. QED
    BY <2>1, <2>2 DEF StoreOk, StoreGiveUp, Collect
<1>8. Abstract!Settle(item[w])
  BY <1>1, <1>6, <1>7 DEF Abstract!Settle, Status
<1>9. QED
  BY <1>4, <1>8 DEF Abstract!Next

\* The worker: only the end of the last attempt shows.
LEMMA RefineWorker ==
    ASSUME IInv, NEW w \in Workers, WorkerStep(w) \/ Collect(w)
    PROVE  Abstract!Next \/ UNCHANGED Abstract!vars
<1> USE DEF workerVars, flushVars, closeVars
<1>1. CASE \/ WorkerBoot(w) \/ WorkerRun(w) \/ WorkerGet(w) \/ WorkerGetStop(w)
           \/ StoreRetry(w) \/ WorkerWake(w) \/ RunStop(w) \/ WorkerExit(w)
  <2>1. UNCHANGED <<lpc, snap, fpc, stored, failed>>
    BY <1>1 DEF WorkerBoot, WorkerRun, WorkerGet, WorkerGetStop, StoreRetry,
       WorkerWake, RunStop, WorkerExit
  <2>2. QED
    BY <2>1, RefineFrame
<1>2. QED
  BY <1>1, RefineSettle DEF WorkerStep

\* flush: the join that returns finds nothing pending of what it asked about.
LEMMA RefineFlush ==
    ASSUME IInv, NEW f \in Flushers, FlushStep(f)
    PROVE  Abstract!Next
<1> USE DEF workerVars, flushVars, closeVars
<1>1. Status' = Status
  BY DEF FlushStep, FlushCall, FlushTrue, FlushTimeout, Status, StatusOf
<1>2. CASE FlushCall(f)
  <2>1. Abstract!Ask(f)
    BY <1>1, <1>2, AbstractSets DEF FlushCall, Abstract!Ask, Status
  <2>2. QED
    BY <2>1 DEF Abstract!Next
<1>3. CASE FlushTrue(f)
  <2>1. IInv'
    BY IInvFlush, TypeStep DEF IInv, Next
  <2>2. fpc'[f] = "true" /\ snap' = snap /\ Settled' = Settled
    BY <1>3 DEF FlushTrue, IInv, TypeOK, Settled
  <2>3. snap[f] \subseteq Settled
    BY <2>1, <2>2 DEF IInv, FlushWaitsForAll
  <2>4. Abstract!AnswerTrue(f)
    BY <1>1, <1>3, <2>3, AbstractSets DEF FlushTrue, Abstract!AnswerTrue, Status
  <2>5. QED
    BY <2>4 DEF Abstract!Next
<1>4. CASE FlushTimeout(f)
  <2>1. Abstract!AnswerFalse(f)
    BY <1>1, <1>4 DEF FlushTimeout, Abstract!AnswerFalse, Status
  <2>2. QED
    BY <2>1 DEF Abstract!Next
<1>5. QED
  BY <1>2, <1>3, <1>4 DEF FlushStep

\* Every step of the tracer is a step of the log or does not show in it.
LEMMA RefineNext == IInv /\ [Next]_vars => [Abstract!Next]_(Abstract!vars)
<1> SUFFICES ASSUME IInv, [Next]_vars
             PROVE  Abstract!Next \/ UNCHANGED Abstract!vars
  OBVIOUS
<1> USE DEF workerVars, flushVars, closeVars
<1>1. ASSUME NEW c \in Closers, CloseStep(c)
      PROVE  UNCHANGED Abstract!vars
  <2>1. UNCHANGED <<stored, failed, snap, fpc, lpc>>
    BY <1>1 DEF CloseStep, CloseSentinel, CloseSchedule, CloseJoined
  <2>2. QED
    BY <2>1, RefineFrame
<1>2. CASE UNCHANGED vars
  <2>1. UNCHANGED <<stored, failed, snap, fpc, lpc>>
    BY <1>2 DEF vars
  <2>2. QED
    BY <2>1, RefineFrame
<1>3. QED
  BY <1>1, <1>2, RefineLogger, RefineWorker, RefineFlush DEF Next

\* The tracer implements TraceLog: a trace is settled at most once, a settled
\* trace stays what it is, and flush answers True for settled traces only.
THEOREM TracerImplementsLog == Spec => ImplementsTraceLog
<1>1. Init => Abstract!Init
  BY RefineInit
<1>2. IInv /\ [Next]_vars => [Abstract!Next]_(Abstract!vars)
  BY RefineNext
<1>3. QED
  BY <1>1, <1>2, Invariance, PTL DEF Spec, ImplementsTraceLog, Abstract!Spec

-------------------------------------------------------------------------------
(* Traces settle in order, as long as there is one worker *)

\* s was accepted before t.
Before(s, t) ==
    \E i, j \in 1..Len(accepted) :
        i < j /\ accepted[i] = s /\ accepted[j] = t

\* accepted names every accepted trace, once; a worker that has nothing to
\* store holds nothing; and the first worker was started.
Listed ==
    /\ \A i, j \in 1..Len(accepted) : accepted[i] = accepted[j] => i = j
    /\ \A t \in Traces :
          t \in Accepted <=> \E i \in 1..Len(accepted) : accepted[i] = t
    /\ \A w \in Workers : Holds(w) => Working(w) \/ wpc[w] = "dead"
    /\ wpc[1] # "unborn"

\* With one worker the settled traces come first, then the one it holds, then
\* the queue, each in the order of acceptance.
Line ==
    /\ \A w \in Workers \ {1} : wpc[w] = "unborn"
    /\ \A s, t \in Traces : Before(s, t) /\ t \in Settled => s \in Settled
    /\ \A s \in Traces : Holds(1) /\ Before(s, item[1]) => s \in Settled
    /\ \A p, q \in 1..Len(queue) :
          p < q /\ queue[p] # STOP /\ queue[q] # STOP =>
              Before(queue[p], queue[q])
    /\ \A t \in Pending :
          \/ Holds(1) /\ item[1] = t
          \/ \E p \in 1..Len(queue) : queue[p] = t

OInv == Listed /\ (thread = 1 => Line)

\* The order is one: two traces are not before each other.
LEMMA BeforeOrders ==
    ASSUME TypeOK, Listed, NEW s, NEW t, Before(s, t)
    PROVE  ~Before(t, s) /\ s # t
  BY DEF Before, Listed, TypeOK

\* In order, then.
LEMMA LineInOrder ==
    ASSUME IInv, OInv
    PROVE  SettledInOrder
<1> SUFFICES ASSUME thread = 1, NEW i \in 1..Len(accepted),
                    NEW j \in 1..Len(accepted),
                    i < j, accepted[j] \in Settled
             PROVE  accepted[i] \in Settled
  BY DEF SettledInOrder
<1>1. accepted[i] \in Traces /\ accepted[j] \in Traces
  BY DEF IInv, TypeOK
<1>2. Before(accepted[i], accepted[j])
  BY DEF Before
<1>3. QED
  BY <1>1, <1>2 DEF OInv, Line

-------------------------------------------------------------------------------
\* A step that accepts nothing and gives no worker a trace keeps the list.
LEMMA ListedStays ==
    ASSUME TypeOK, Listed, accepted' = accepted, Accepted' = Accepted,
           \A w \in Workers :
               /\ Holds(w)' => Holds(w)
               /\ Holds(w)' /\ Working(w) => Working(w)' \/ wpc'[w] = "dead"
               /\ wpc[w] = "dead" => wpc'[w] = "dead",
           wpc'[1] # "unborn"
    PROVE  Listed'
  BY DEF Listed

\* One that moves nothing on the queue and settles nothing keeps the line.
LEMMA LineStays ==
    ASSUME IInv, Line, UNCHANGED <<queue, item, accepted, stored, failed>>,
           Accepted' = Accepted,
           \A w \in Workers \ {1} : wpc'[w] = wpc[w]
    PROVE  Line'
<1>1. \A s, t : Before(s, t)' = Before(s, t)
  BY DEF Before
<1>2. Settled' = Settled /\ Pending' = Pending /\ Holds(1)' = Holds(1)
  BY DEF Settled, Pending, Holds
<1>3. QED
  BY <1>1, <1>2 DEF Line

\* What the queue and a worker hold are traces that wait.
LEMMA Waiting ==
    ASSUME IInv
    PROVE  /\ \A p \in 1..Len(queue) : queue[p] # STOP =>
                 queue[p] \in Pending /\ queue[p] \in Traces
           /\ \A w \in Workers : Holds(w) => item[w] \in Pending
           /\ \A t \in Settled : t \notin Pending
           /\ STOP \notin Pending
  BY DEF IInv, Custody, Pending, Accepted

\* A trace is accepted: it is the last of the list and of the queue.
LEMMA AcceptOrder ==
    ASSUME IInv, OInv, NEW t \in Traces, LogPut(t), ~Full
    PROVE  OInv'
<1>1. /\ lpc[t] = "put" /\ lpc' = [lpc EXCEPT ![t] = "queued"]
      /\ queue' = Append(queue, t) /\ accepted' = Append(accepted, t)
      /\ UNCHANGED <<thread, wpc, item, stored, failed>>
  BY DEF LogPut, workerVars
<1>2. t \notin Accepted /\ Accepted' = Accepted \cup {t}
  BY <1>1 DEF Accepted, IInv, TypeOK
<1>3. /\ accepted \in Seq(Traces) /\ queue \in Seq(Items)
      /\ Settled \subseteq Accepted
  BY DEF IInv, TypeOK, Items
<1>4. PICK m \in Nat : m = Len(accepted)
  BY <1>3
<1>5. /\ Len(accepted') = m + 1 /\ accepted'[m + 1] = t
      /\ \A i \in 1..m : accepted'[i] = accepted[i]
      /\ \A i \in 1..m + 1 : i \in 1..m \/ i = m + 1
      /\ 1..m \subseteq 1..m + 1 /\ m + 1 \in 1..m + 1
  BY <1>1, <1>3, <1>4, AppendFacts
<1>6. \A i \in 1..m : accepted[i] # t
  BY <1>2, <1>4 DEF OInv, Listed
<1>7. Listed'
  <2>1. \A i, j \in 1..m + 1 : accepted'[i] = accepted'[j] => i = j
    BY <1>4, <1>5, <1>6 DEF OInv, Listed
  <2>2. \A s \in Traces :
            s \in Accepted' <=> \E i \in 1..m + 1 : accepted'[i] = s
    <3>1. \A s \in Traces :
              s \in Accepted <=> \E i \in 1..m : accepted[i] = s
      BY <1>4 DEF OInv, Listed
    <3>2. QED
      BY <1>2, <1>5, <3>1
  <2>3. /\ \A w \in Workers : Holds(w)' => Working(w)' \/ wpc'[w] = "dead"
        /\ wpc'[1] # "unborn"
    BY <1>1 DEF OInv, Listed, Holds, Working
  <2>4. QED
    BY <1>5, <2>1, <2>2, <2>3 DEF Listed
<1>8. ASSUME thread = 1 PROVE Line'
  <2>1. Line
    BY <1>8 DEF OInv
  <2>2. \A r, s : Before(r, s) => Before(r, s)'
    BY <1>4, <1>5 DEF Before
  <2>3. \A r, s : Before(r, s)' => Before(r, s) \/ s = t
    <3>1. ASSUME NEW r, NEW s, Before(r, s)', s # t PROVE Before(r, s)
      <4>1. PICK i, j \in 1..m + 1 :
                i < j /\ accepted'[i] = r /\ accepted'[j] = s
        BY <1>5, <3>1 DEF Before
      <4>2. j \in 1..m /\ i \in 1..m
        BY <1>5, <3>1, <4>1
      <4>3. QED
        BY <1>4, <1>5, <4>1, <4>2 DEF Before
    <3>2. QED
      BY <3>1
  <2>4. \A s \in Accepted : Before(s, t)'
    <3>1. ASSUME NEW s \in Accepted PROVE Before(s, t)'
      <4>1. PICK i \in 1..m : accepted[i] = s
        BY <1>4 DEF OInv, Listed, Accepted
      <4>2. i < m + 1
        OBVIOUS
      <4>3. QED
        BY <1>5, <4>1, <4>2 DEF Before
    <3>2. QED
      BY <3>1
  <2>5. Settled' = Settled /\ t \notin Settled /\ Pending' = Pending \cup {t}
    BY <1>1, <1>2, <1>3 DEF Settled, Pending
  <2>6. PICK n \in Nat : n = Len(queue)
    BY <1>3
  <2>7. /\ Len(queue') = n + 1 /\ queue'[n + 1] = t
        /\ \A p \in 1..n : queue'[p] = queue[p]
        /\ \A p \in 1..n + 1 : p \in 1..n \/ p = n + 1
        /\ 1..n \subseteq 1..n + 1 /\ n + 1 \in 1..n + 1
        /\ \A p \in 1..n + 1 : ~(n + 1 < p)
    <3>1. t \in Items
      BY DEF Items
    <3>2. QED
      BY <1>1, <1>3, <2>6, <3>1, AppendFacts
  <2>8. \A r, s \in Traces : Before(r, s)' /\ s \in Settled' => r \in Settled'
    BY <2>1, <2>3, <2>5 DEF Line
  <2>9. ASSUME NEW s \in Traces, Holds(1)', Before(s, item[1])'
        PROVE  s \in Settled'
    <3>1. Holds(1) /\ item'[1] = item[1]
      BY <1>1, <2>9 DEF Holds
    <3>2. item[1] # t
      BY <1>2, <3>1, Waiting DEF Pending
    <3>3. Before(s, item[1])
      BY <2>3, <2>9, <3>1, <3>2
    <3>4. QED
      BY <2>1, <2>5, <3>1, <3>3 DEF Line
  <2>10. ASSUME NEW p \in 1..n + 1, NEW q \in 1..n + 1, p < q,
                queue'[p] # STOP, queue'[q] # STOP
         PROVE  Before(queue[p], queue[q])'
    <3>1. p \in 1..n /\ queue'[p] = queue[p]
      BY <2>7, <2>10
    <3>2. queue[p] \in Accepted
      BY <2>6, <2>10, <3>1, Waiting DEF Pending
    <3>3. CASE q \in 1..n
      <4>1. queue'[q] = queue[q]
        BY <2>7, <3>3
      <4>2. Before(queue[p], queue[q])
        BY <2>1, <2>6, <2>10, <3>1, <3>3, <4>1 DEF Line
      <4>3. QED
        BY <2>2, <3>1, <4>1, <4>2
    <3>4. CASE q = n + 1
      BY <2>4, <2>7, <3>1, <3>2, <3>4
    <3>5. QED
      BY <2>7, <3>3, <3>4
  <2>11. \A s \in Pending' :
             \/ Holds(1)' /\ item'[1] = s
             \/ \E p \in 1..n + 1 : queue'[p] = s
    BY <1>1, <2>1, <2>5, <2>6, <2>7 DEF Line, Holds
  <2>12. \A w \in Workers \ {1} : wpc'[w] = "unborn"
    BY <1>1, <2>1 DEF Line
  <2>13. QED
    BY <2>7, <2>8, <2>9, <2>10, <2>11, <2>12 DEF Line
<1>9. QED
  BY <1>1, <1>7, <1>8 DEF OInv

\* A sentinel goes behind the queue.
LEMMA SentinelOrder ==
    ASSUME IInv, OInv, NEW c \in Closers, CloseSentinel(c), ~Full
    PROVE  OInv'
<1>1. /\ queue' = Append(queue, STOP)
      /\ UNCHANGED <<thread, wpc, item, lpc, accepted, stored, failed>>
  BY DEF CloseSentinel, workerVars
<1>2. PICK n \in Nat : n = Len(queue)
  BY DEF IInv, TypeOK
<1>3. /\ Len(queue') = n + 1 /\ queue'[n + 1] = STOP
      /\ \A p \in 1..n : queue'[p] = queue[p]
      /\ \A p \in 1..n + 1 : p \in 1..n \/ p = n + 1
      /\ 1..n \subseteq 1..n + 1
  BY <1>1, <1>2, AppendFacts DEF IInv, TypeOK
<1>4. Accepted' = Accepted /\ Settled' = Settled /\ Pending' = Pending
  BY <1>1 DEF Accepted, Settled, Pending
<1>5. Listed'
  BY <1>1, <1>4, ListedStays DEF OInv, Listed, IInv, Holds, Working
<1>6. ASSUME thread = 1 PROVE Line'
  <2>1. Line
    BY <1>6 DEF OInv
  <2>2. \A r, s : Before(r, s)' = Before(r, s)
    BY <1>1 DEF Before
  <2>3. ASSUME NEW p \in 1..n + 1, NEW q \in 1..n + 1, p < q,
               queue'[p] # STOP, queue'[q] # STOP
        PROVE  Before(queue[p], queue[q])'
    <3>1. p \in 1..n /\ q \in 1..n
      BY <1>3, <2>3
    <3>2. queue'[p] = queue[p] /\ queue'[q] = queue[q]
      BY <1>3, <3>1
    <3>3. Before(queue[p], queue[q])
      BY <1>2, <2>1, <2>3, <3>1, <3>2 DEF Line
    <3>4. QED
      BY <2>2, <3>2, <3>3
  <2>4. \A t \in Pending' : \/ Holds(1)' /\ item'[1] = t
                            \/ \E p \in 1..n + 1 : queue'[p] = t
    BY <1>1, <1>2, <1>3, <1>4, <2>1 DEF Line, Holds
  <2>5. Holds(1)' = Holds(1)
    BY <1>1 DEF Holds
  <2>6. QED
    BY <1>1, <1>3, <1>4, <2>1, <2>2, <2>3, <2>4, <2>5 DEF Line
<1>7. QED
  BY <1>1, <1>5, <1>6 DEF OInv

\* A worker takes the head of the queue, a trace or a sentinel.
LEMMA GetOrder ==
    ASSUME IInv, OInv, NEW w \in Workers, WorkerGet(w) \/ WorkerGetStop(w)
    PROVE  OInv'
<1> DEFINE h == Head(queue)
<1>1. /\ queue # <<>> /\ queue' = Tail(queue) /\ wpc[w] = "get"
      /\ UNCHANGED <<thread, lpc, accepted, stored, failed>>
  BY DEF WorkerGet, WorkerGetStop
<1>2. \/ /\ h # STOP /\ item' = [item EXCEPT ![w] = h]
         /\ wpc' = [wpc EXCEPT ![w] = "store"]
      \/ /\ h = STOP /\ item' = item
         /\ wpc' = [wpc EXCEPT ![w] = IF loop = w THEN "exit" ELSE "ended"]
  BY DEF WorkerGet, WorkerGetStop
<1>3. PICK n \in Nat \ {0} : n = Len(queue)
  BY <1>1 DEF IInv, TypeOK
<1>4. /\ Len(queue') = n - 1 /\ h = queue[1]
      /\ \A p \in 1..n - 1 : queue'[p] = queue[p + 1]
      /\ \A p \in 1..n - 1 : p + 1 \in 1..n /\ 1 < p + 1
      /\ \A p \in 2..n : p - 1 \in 1..n - 1 /\ (p - 1) + 1 = p
      /\ 1 \in 1..n
      /\ \A p \in 1..n : p = 1 \/ p \in 2..n
      /\ \A p \in 2..n : 1 < p
  <2>1. /\ Len(queue') = n - 1 /\ h = queue[1]
        /\ \A p \in 1..n - 1 : queue'[p] = queue[p + 1]
    BY <1>1, <1>3, TailFacts DEF IInv, TypeOK
  <2>2. QED
    BY <2>1
<1> HIDE DEF h
<1>5. Accepted' = Accepted /\ Settled' = Settled /\ Pending' = Pending
  BY <1>1 DEF Accepted, Settled, Pending
<1>7. ~Holds(w)
  BY <1>1 DEF OInv, Listed, Working
<1>8. Listed'
  <2>1. ASSUME NEW v \in Workers, Holds(v)'
        PROVE  Working(v)' \/ wpc'[v] = "dead"
    <3>1. CASE v = w
      BY <1>2, <1>7, <2>1, <3>1 DEF Working, Holds, IInv, TypeOK
    <3>2. CASE v # w
      <4>1. Holds(v) /\ wpc'[v] = wpc[v]
        BY <1>2, <2>1, <3>2 DEF Holds, IInv, TypeOK
      <4>2. QED
        BY <4>1 DEF OInv, Listed, Working
    <3>3. QED
      BY <3>1, <3>2
  <2>2. wpc'[1] # "unborn"
    BY <1>2 DEF OInv, Listed, IInv, TypeOK
  <2>3. QED
    BY <1>1, <1>5, <2>1, <2>2 DEF OInv, Listed
<1>9. ASSUME thread = 1 PROVE Line'
  <2>1. Line
    BY <1>9 DEF OInv
  <2>2. \A r, s : Before(r, s)' = Before(r, s)
    BY <1>1 DEF Before
  <2>3. w = 1
    BY <1>1, <2>1 DEF Line
  <2>4. item[1] = STOP
    BY <1>7, <2>3 DEF Holds
  <2>5. \/ h # STOP /\ item'[1] = h
        \/ h = STOP /\ item'[1] = STOP
    BY <1>2, <2>3, <2>4 DEF IInv, TypeOK
  <2>6. \A v \in Workers \ {1} : wpc'[v] = "unborn"
    BY <1>2, <2>1, <2>3 DEF Line, IInv, TypeOK
  <2>7. ASSUME NEW p \in 1..n - 1, NEW q \in 1..n - 1, p < q,
               queue'[p] # STOP, queue'[q] # STOP
        PROVE  Before(queue[p], queue[q])'
    <3>1. /\ p + 1 \in 1..n /\ q + 1 \in 1..n /\ p + 1 < q + 1
          /\ queue'[p] = queue[p + 1] /\ queue'[q] = queue[q + 1]
      BY <1>4, <2>7
    <3>2. Before(queue[p + 1], queue[q + 1])
      BY <1>3, <2>1, <2>7, <3>1 DEF Line
    <3>3. QED
      BY <2>2, <3>1, <3>2
  <2>8. ASSUME NEW s \in Traces, Holds(1)', Before(s, item[1])'
        PROVE  s \in Settled'
    <3>1. h # STOP /\ Before(s, h)
      BY <2>2, <2>5, <2>8 DEF Holds
    <3>2. s \in Accepted
      BY <3>1 DEF Before, OInv, Listed
    <3>3. ASSUME s \in Pending PROVE FALSE
      <4>1. PICK p \in 1..n : queue[p] = s
        BY <1>3, <1>7, <2>1, <2>3, <3>3 DEF Line
      <4>2. s # h /\ ~Before(h, s)
        BY <3>1, BeforeOrders DEF IInv, OInv
      <4>3. 1 < p
        BY <1>4, <4>1, <4>2
      <4>4. s # STOP
        BY <3>3, Waiting
      <4>5. Before(queue[1], queue[p])
        BY <1>3, <1>4, <2>1, <3>1, <4>1, <4>3, <4>4 DEF Line
      <4>6. QED
        BY <1>4, <4>1, <4>2, <4>5
    <3>4. QED
      BY <1>5, <3>2, <3>3 DEF Pending
  <2>9. ASSUME NEW t \in Pending
        PROVE  \/ Holds(1)' /\ item'[1] = t
               \/ \E p \in 1..n - 1 : queue'[p] = t
    <3>1. PICK p \in 1..n : queue[p] = t
      BY <1>3, <1>7, <2>1, <2>3, <2>9 DEF Line
    <3>2. t # STOP
      BY <2>9, Waiting
    <3>3. CASE p = 1
      BY <1>4, <2>5, <3>1, <3>2, <3>3 DEF Holds
    <3>4. CASE p \in 2..n
      BY <1>4, <3>1, <3>4
    <3>5. QED
      BY <1>4, <3>3, <3>4
  <2>10. \A r, s \in Traces :
             Before(r, s)' /\ s \in Settled' => r \in Settled'
    BY <1>5, <2>1, <2>2 DEF Line
  <2>11. QED
    BY <1>4, <1>5, <2>6, <2>7, <2>8, <2>9, <2>10 DEF Line
<1>10. QED
  BY <1>1, <1>8, <1>9 DEF OInv

\* A worker settles the trace it holds: everything before it is settled.
LEMMA SettleOrder ==
    ASSUME IInv, OInv, NEW w \in Workers,
           StoreOk(w) \/ StoreGiveUp(w) \/ Collect(w)
    PROVE  OInv'
<1>1. /\ Working(w) \/ Holds(w)
      /\ item' = [item EXCEPT ![w] = STOP]
      /\ Settled' = Settled \cup {item[w]}
      /\ UNCHANGED <<queue, thread, lpc, accepted>>
      /\ \/ wpc' = wpc /\ wpc[w] = "dead"
         \/ wpc' = [wpc EXCEPT ![w] = "get"] /\ wpc[w] = "store"
  <2>1. Settled' = Settled \cup {item[w]}
    BY DEF StoreOk, StoreGiveUp, Collect, Settled
  <2>2. UNCHANGED <<queue, thread, lpc, accepted>>
    BY DEF StoreOk, StoreGiveUp, Collect
  <2>3. CASE StoreOk(w) \/ StoreGiveUp(w)
    BY <2>1, <2>2, <2>3 DEF StoreOk, StoreGiveUp, TaskDone, Working
  <2>4. CASE Collect(w)
    BY <2>1, <2>2, <2>4 DEF Collect, Holds
  <2>5. QED
    BY <2>3, <2>4
<1>2. Holds(w) /\ item[w] \in Pending
  BY <1>1, HeldIsPending
<1>3. Accepted' = Accepted /\ Pending' = Pending \ {item[w]}
  BY <1>1 DEF Accepted, Pending
<1>4. Listed'
  <2>1. \A v \in Workers : Holds(v)' => v # w /\ Holds(v)
    BY <1>1 DEF Holds, IInv, TypeOK
  <2>2. \A v \in Workers \ {w} : wpc'[v] = wpc[v]
    BY <1>1 DEF IInv, TypeOK
  <2>3. wpc'[1] # "unborn"
    BY <1>1 DEF OInv, Listed, IInv, TypeOK
  <2>4. \A v \in Workers : Holds(v)' => Working(v)' \/ wpc'[v] = "dead"
    BY <2>1, <2>2 DEF OInv, Listed, Working
  <2>5. QED
    BY <1>1, <1>3, <2>3, <2>4 DEF OInv, Listed
<1>5. ASSUME thread = 1 PROVE Line'
  <2>1. Line
    BY <1>5 DEF OInv
  <2>2. \A r, s : Before(r, s)' = Before(r, s)
    BY <1>1 DEF Before
  <2>3. w = 1
    BY <1>1, <2>1 DEF Line, Working
  <2>4. \A v \in Workers \ {1} : wpc'[v] = "unborn"
    BY <1>1, <2>1, <2>3 DEF Line, IInv, TypeOK
  <2>5. ~Holds(1)'
    BY <1>1, <2>3 DEF Holds, IInv, TypeOK
  <2>6. \A r, s \in Traces :
            Before(r, s)' /\ s \in Settled' => r \in Settled'
    BY <1>1, <1>2, <2>1, <2>2, <2>3 DEF Line
  <2>7. \A t \in Pending' : \E p \in 1..Len(queue) : queue[p] = t
    BY <1>3, <2>1, <2>3 DEF Line
  <2>8. QED
    BY <1>1, <2>1, <2>2, <2>4, <2>5, <2>6, <2>7 DEF Line
<1>6. QED
  BY <1>1, <1>4, <1>5 DEF OInv

\* A second worker is started: it is not the first.
LEMMA StartOrder ==
    ASSUME IInv, OInv, NEW t \in Traces, LogStart(t)
    PROVE  OInv'
<1>1. PICK w \in Workers : /\ wpc[w] = "unborn" /\ thread' = w
                           /\ wpc' = [wpc EXCEPT ![w] = "boot"]
  BY DEF LogStart
<1>2. /\ UNCHANGED <<item, accepted>> /\ lpc[t] = "start"
      /\ lpc' = [lpc EXCEPT ![t] = "put"]
  BY DEF LogStart
<1>3. Accepted' = Accepted
  BY <1>2 DEF Accepted, IInv, TypeOK
<1>4. w # 1 /\ ~Holds(w)
  BY <1>1 DEF OInv, Listed, Working
<1>5. \A v \in Workers : v # w => wpc'[v] = wpc[v]
  BY <1>1 DEF IInv, TypeOK
<1>6. Listed'
  <2>1. \A v \in Workers : Holds(v)' => Working(v)' \/ wpc'[v] = "dead"
    BY <1>2, <1>4, <1>5 DEF OInv, Listed, Holds, Working
  <2>2. wpc'[1] # "unborn"
    BY <1>4, <1>5 DEF OInv, Listed
  <2>3. QED
    BY <1>2, <1>3, <2>1, <2>2 DEF OInv, Listed
<1>7. QED
  BY <1>1, <1>4, <1>6 DEF OInv

\* The other steps accept, take and settle nothing.
LEMMA OtherOrder ==
    ASSUME IInv, OInv, UNCHANGED <<queue, item, accepted, stored, failed>>,
           thread' = thread, Accepted' = Accepted,
           NEW w \in Workers, \A v \in Workers \ {w} : wpc'[v] = wpc[v],
           wpc'[w] = wpc[w] \/ "unborn" \notin {wpc[w], wpc'[w]},
           Holds(w) => Working(w)' \/ wpc'[w] = "dead"
    PROVE  OInv'
<1>1. \A v \in Workers : Holds(v)' = Holds(v)
  BY DEF Holds
<1>2. Listed'
  <2>1. \A v \in Workers : Holds(v)' => Working(v)' \/ wpc'[v] = "dead"
    BY <1>1 DEF OInv, Listed, Working
  <2>2. wpc'[1] # "unborn"
    BY DEF OInv, Listed
  <2>3. QED
    BY <2>1, <2>2 DEF OInv, Listed
<1>3. ASSUME thread = 1 PROVE Line'
  <2>1. Line
    BY <1>3 DEF OInv
  <2>2. \A v \in Workers \ {1} : wpc'[v] = wpc[v]
    BY <2>1 DEF Line
  <2>3. QED
    BY <2>1, <2>2, LineStays
<1>4. QED
  BY <1>2, <1>3 DEF OInv

\* Every step keeps the order.
LEMMA OrderStep ==
    ASSUME IInv, OInv, [Next]_vars
    PROVE  OInv'
<1> USE DEF workerVars, flushVars, closeVars
<1>1. ASSUME UNCHANGED <<queue, item, wpc, thread, accepted, stored, failed>>,
             Accepted' = Accepted
      PROVE  OInv'
  <2>1. 1 \in Workers
    OBVIOUS
  <2>2. Holds(1) => Working(1)' \/ wpc'[1] = "dead"
    BY <1>1, <2>1 DEF OInv, Listed, Working
  <2>3. /\ UNCHANGED <<queue, item, accepted, stored, failed>>
        /\ thread' = thread
        /\ \A v \in Workers : wpc'[v] = wpc[v]
    BY <1>1
  <2>4. QED
    BY <1>1, <2>1, <2>2, <2>3, OtherOrder
<1>2. ASSUME NEW t \in Traces, LoggerStep(t) PROVE OInv'
  <2>1. CASE LogPut(t) /\ ~Full
    BY <2>1, AcceptOrder
  <2>2. CASE LogStart(t)
    BY <2>2, StartOrder
  <2>3. CASE LogCheck(t) \/ (LogPut(t) /\ Full)
    <3>1. /\ lpc[t] # "queued"
          /\ \E to \in {"put", "start", "dropped"} :
                lpc' = [lpc EXCEPT ![t] = to]
      BY <2>3 DEF LogCheck, LogPut
    <3>2. Accepted' = Accepted
      BY <3>1 DEF Accepted, IInv, TypeOK
    <3>3. UNCHANGED <<queue, item, wpc, thread, accepted, stored, failed>>
      BY <2>3 DEF LogCheck, LogPut
    <3>4. QED
      BY <1>1, <3>2, <3>3
  <2>4. QED
    BY <1>2, <2>1, <2>2, <2>3 DEF LoggerStep
<1>3. ASSUME NEW w \in Workers, WorkerStep(w) \/ Collect(w) PROVE OInv'
  <2>1. CASE WorkerGet(w) \/ WorkerGetStop(w)
    BY <2>1, GetOrder
  <2>2. CASE StoreOk(w) \/ StoreGiveUp(w) \/ Collect(w)
    BY <2>2, SettleOrder
  <2>3. CASE \/ WorkerBoot(w) \/ WorkerRun(w)
             \/ StoreRetry(w) \/ WorkerWake(w)
             \/ RunStop(w) \/ WorkerExit(w)
    <3>1. UNCHANGED <<queue, item, thread, lpc, accepted, stored, failed>>
      BY <2>3 DEF WorkerBoot, WorkerRun, StoreRetry, WorkerWake, RunStop,
                  WorkerExit
    <3>2. Accepted' = Accepted
      BY <3>1 DEF Accepted
    <3>3. \/ wpc' = wpc
          \/ wpc[w] = "boot" /\ wpc' = [wpc EXCEPT ![w] = "born"]
          \/ /\ wpc[w] = "born"
             /\ \E to \in {"get", "dead"} : wpc' = [wpc EXCEPT ![w] = to]
          \/ wpc[w] = "store" /\ wpc' = [wpc EXCEPT ![w] = "sleep"]
          \/ wpc[w] = "sleep" /\ wpc' = [wpc EXCEPT ![w] = "store"]
          \/ /\ wpc[w] \in {"store", "sleep", "ended", "exit"}
             /\ wpc' = [wpc EXCEPT ![w] = "dead"]
      BY <2>3 DEF WorkerBoot, WorkerRun, StoreRetry, WorkerWake, RunStop,
                  WorkerExit,
                  ExitThread, Yields
    <3>4. \A v \in Workers \ {w} : wpc'[v] = wpc[v]
      BY <3>3 DEF IInv, TypeOK
    <3>5. wpc'[w] = wpc[w] \/ "unborn" \notin {wpc[w], wpc'[w]}
      BY <3>3 DEF IInv, TypeOK
    <3>6. Holds(w) => Working(w)' \/ wpc'[w] = "dead"
      BY <3>3 DEF OInv, Listed, Working, IInv, TypeOK
    <3>7. QED
      BY <3>1, <3>2, <3>4, <3>5, <3>6, OtherOrder
  <2>4. QED
    BY <1>3, <2>1, <2>2, <2>3 DEF WorkerStep
<1>4. ASSUME NEW f \in Flushers, FlushStep(f) PROVE OInv'
  BY <1>1, <1>4 DEF FlushStep, FlushCall, FlushTrue, FlushTimeout, Accepted
<1>5. ASSUME NEW c \in Closers, CloseStep(c) PROVE OInv'
  <2>1. CASE CloseSentinel(c) /\ ~Full
    BY <2>1, SentinelOrder
  <2>2. CASE (CloseSentinel(c) /\ Full) \/ CloseSchedule(c) \/ CloseJoined(c)
    BY <1>1, <2>2 DEF CloseSentinel, CloseSchedule, CloseJoined, Accepted
  <2>3. QED
    BY <1>5, <2>1, <2>2 DEF CloseStep
<1>6. CASE UNCHANGED vars
  BY <1>1, <1>6 DEF vars, Accepted
<1>7. QED
  BY <1>2, <1>3, <1>4, <1>5, <1>6 DEF Next

\* Until a second worker is started, traces settle in the order in which they
\* were accepted, whatever fails, is retried or is closed (sqlite.py:122, 159).
THEOREM OrderHolds == Spec => []SettledInOrder
<1>1. Init => OInv
  <2> SUFFICES ASSUME Init PROVE OInv
    OBVIOUS
  <2>1. Len(accepted) = 0 /\ Len(queue) = 0 /\ 1..0 = {}
    BY DEF Init
  <2>2. Accepted = {} /\ \A w \in Workers : ~Holds(w)
    BY DEF Init, Accepted, Holds
  <2>3. \A s, t : ~Before(s, t)
    BY <2>1 DEF Before
  <2>4. wpc[1] = "get" /\ \A w \in Workers \ {1} : wpc[w] = "unborn"
    BY DEF Init
  <2>5. QED
    BY <2>1, <2>2, <2>3, <2>4 DEF OInv, Listed, Line, Pending
<1>2. IInv /\ OInv /\ [Next]_vars => OInv'
  BY OrderStep
<1>3. IInv /\ OInv => SettledInOrder
  BY LineInOrder
<1>4. QED
  BY <1>1, <1>2, <1>3, Invariance, PTL DEF Spec
===============================================================================
