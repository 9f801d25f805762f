--------------------------- MODULE TrainBatchProofs ---------------------------
(***************************************************************************)
(* What holds of every training batch: whatever the prompts, the number of *)
(* steps, the sizes of the worker groups and the order of arrival.         *)
(*                                                                         *)
(* The operations on batches are reduced to what they do to the set of     *)
(* rows and to the length; the invariant says of this set, stage by stage, *)
(* what the broadcast of the advantages needs.                             *)
(***************************************************************************)
EXTENDS TrainBatch, ListsProofs, FunctionTheorems, FiniteSetTheorems, TLAPS

-------------------------------------------------------------------------------
(* Sizes *)

\* Division with a remainder.
LEMMA DivMod ==
    ASSUME NEW n \in Nat, NEW w \in Nat \ {0}
    PROVE  /\ n \div w \in Nat
           /\ n % w \in 0..(w - 1)
           /\ n = w * (n \div w) + (n % w)
  OBVIOUS

\* The remainder of a number that is put together.
LEMMA ModUnique ==
    ASSUME NEW q \in Nat, NEW w \in Nat \ {0}, NEW r \in 0..(w - 1)
    PROVE  (w * q + r) % w = r
  OBVIOUS

\* The rows of padding make a number that the groups' size divides.
LEMMA RoundUp ==
    ASSUME NEW n \in Nat, NEW w \in Nat \ {0}
    PROVE  /\ (w - (n % w)) % w \in Nat
           /\ (n + ((w - (n % w)) % w)) % w = 0
<1>1. PICK q \in Nat, r \in 0..(w - 1) : n = w * q + r /\ n % w = r
  BY DivMod
<1>2. CASE r = 0
  <2>1. w - r = w * 1 + 0 /\ 0 \in 0..(w - 1)
    BY <1>2
  <2>2. (w - r) % w = 0
    BY <2>1, ModUnique
  <2>3. QED
    BY <1>1, <1>2, <2>2
<1>3. CASE r # 0
  <2>1. w - r = w * 0 + (w - r) /\ w - r \in 0..(w - 1)
    BY <1>3
  <2>2. (w - r) % w = w - r
    BY <2>1, ModUnique
  <2>3. n + (w - r) = w * (q + 1) + 0 /\ q + 1 \in Nat
    BY <1>1
  <2>4. 0 \in 0..(w - 1)
    OBVIOUS
  <2>5. (n + (w - r)) % w = 0
    BY <2>3, <2>4, ModUnique
  <2>6. QED
    BY <1>1, <2>1, <2>2, <2>5
<1>4. QED
  BY <1>2, <1>3

\* So do the rows that the cut leaves.
LEMMA RoundedDown ==
    ASSUME NEW n \in Nat, NEW w \in Nat \ {0}
    PROVE  /\ (n \div w) * w \in 0..n
           /\ ((n \div w) * w) % w = 0
<1>1. PICK q \in Nat, r \in 0..(w - 1) : n = w * q + r /\ n \div w = q
  BY DivMod
<1>2. (n \div w) * w = w * q + 0 /\ 0 \in 0..(w - 1)
  BY <1>1
<1>3. (w * q + 0) % w = 0
  BY <1>2, ModUnique
<1>4. w * q \in Nat
  OBVIOUS
<1>5. QED
  BY <1>1, <1>2, <1>3, <1>4

\* What a multiple divides, its factor divides.
LEMMA DividesToo ==
    ASSUME NEW n \in Nat, NEW a \in Nat \ {0}, NEW f \in Nat \ {0},
           n % (a * f) = 0
    PROVE  n % a = 0
<1>1. a * f \in Nat \ {0}
  OBVIOUS
<1>2. PICK q \in Nat : n = (a * f) * q
  <2>1. /\ n \div (a * f) \in Nat
        /\ n = (a * f) * (n \div (a * f)) + (n % (a * f))
    BY <1>1, DivMod
  <2>2. PICK q \in Nat : q = n \div (a * f)
    BY <2>1
  <2>3. n = (a * f) * q + 0
    BY <2>1, <2>2
  <2>4. QED
    BY <1>1, <2>3
<1>3. PICK p \in Nat : p = f * q
  OBVIOUS
<1>4. n = a * p + 0
  BY <1>2, <1>3
<1>5. 0 \in 0..(a - 1)
  OBVIOUS
<1>6. QED
  BY <1>4, <1>5, ModUnique

-------------------------------------------------------------------------------
(* Batches *)

\* Last steps, others, and rows that are no padding.
LEMMA Parts ==
    ASSUME NEW S, NEW batch \in Seq(S)
    PROVE  /\ Lasts(batch) \in Seq(S)
           /\ ToSet(Lasts(batch)) = {row \in ToSet(batch) : row.last}
           /\ Nonlasts(batch) \in Seq(S)
           /\ ToSet(Nonlasts(batch)) = {row \in ToSet(batch) : ~row.last}
           /\ NoPads(batch) \in Seq(S)
           /\ ToSet(NoPads(batch)) = {row \in ToSet(batch) : ~row.pad}
<1>1. ASSUME NEW T, T \subseteq ToSet(batch)
      PROVE  /\ Select(batch, T) \in Seq(S)
             /\ ToSet(Select(batch, T)) = T
  <2>1. ToSet(Select(batch, T)) = ToSet(batch) \cap T
    BY SelectElements
  <2>2. Select(batch, T) \in Seq(S)
    BY SelectPlaces
  <2>3. QED
    BY <1>1, <2>1, <2>2
<1>2. QED
  BY <1>1 DEF Lasts, Nonlasts, NoPads

\* The batch cut down to a length that the actor group's size divides.
LEMMA RoundDownRows ==
    ASSUME NEW S, NEW batch \in Seq(S), actors \in Nat \ {0}
    PROVE  /\ RoundDown(batch) \in Seq(S)
           /\ ToSet(RoundDown(batch)) \subseteq ToSet(batch)
           /\ Len(RoundDown(batch)) % actors = 0
<1>1. PICK n : n = Len(batch) /\ n \in Nat
  OBVIOUS
<1>2. PICK m : m = (n \div actors) * actors
  OBVIOUS
<1>3. m \in 0..n /\ m % actors = 0
  BY <1>1, <1>2, RoundedDown
<1>4. PICK t : t = SubSeq(batch, 1, m)
  OBVIOUS
<1>5. /\ t \in Seq(S) /\ Len(t) = m
      /\ \A i \in 1..m : t[i] = batch[i] /\ i \in 1..n
  BY <1>1, <1>3, <1>4
<1>6. ToSet(t) \subseteq ToSet(batch)
  BY <1>1, <1>5, Elements
<1>7. QED
  BY <1>1, <1>2, <1>3, <1>4, <1>5, <1>6 DEF RoundDown

\* A row as the padding that is made of it.
Pad(row) == [row EXCEPT !.last = FALSE, !.pad = TRUE]

\* Padding is made of rows of the batch, and rounds its size up.
LEMMA FilledRows ==
    ASSUME NEW S, NEW batch \in Seq(S), world \in Nat \ {0},
           \A row \in S : Pad(row) \in S
    PROVE  /\ Filled(batch) \in Seq(S)
           /\ ToSet(batch) \subseteq ToSet(Filled(batch))
           /\ \A row \in ToSet(Filled(batch)) \ ToSet(batch) :
                  \E x \in ToSet(batch) : row = Pad(x)
           /\ Len(Filled(batch)) % world = 0
<1>1. PICK n : n = Len(batch) /\ n \in Nat
  OBVIOUS
<1>2. PICK m : m = IF n = 0 THEN 0 ELSE (world - (n % world)) % world
  OBVIOUS
<1>3. m \in Nat /\ (n + m) % world = 0
  <2>1. CASE n = 0
    <3>1. (0 + 0) % world = 0
      OBVIOUS
    <3>2. QED
      BY <1>2, <2>1, <3>1
  <2>2. CASE n # 0
    BY <1>1, <1>2, <2>2, RoundUp
  <2>3. QED
    BY <2>1, <2>2
<1>4. PICK pads : pads = [i \in 1..m |-> Pad(batch[((i - 1) % n) + 1])]
  OBVIOUS
<1>5. ASSUME NEW i \in 1..m
      PROVE  ((i - 1) % n) + 1 \in 1..n
  BY <1>1, <1>2
<1>6. /\ pads \in Seq(S) /\ Len(pads) = m
      /\ \A i \in 1..m : \E x \in ToSet(batch) : pads[i] = Pad(x)
  <2>1. \A i \in 1..m : batch[((i - 1) % n) + 1] \in ToSet(batch)
    BY <1>1, <1>5, Elements
  <2>2. \A i \in 1..m : \E x \in ToSet(batch) : pads[i] = Pad(x)
    BY <1>4, <2>1
  <2>3. \A x \in ToSet(batch) : x \in S
    BY Elements
  <2>4. \A i \in 1..m : pads[i] \in S
    BY <2>2, <2>3
  <2>5. pads \in [1..m -> S]
    BY <1>4, <2>4
  <2>6. QED
    BY <1>3, <2>2, <2>5
<1>7. Filled(batch) = batch \o pads
  BY <1>1, <1>2, <1>4 DEF Filled, Pad
<1>8. /\ batch \o pads \in Seq(S)
      /\ ToSet(batch \o pads) = ToSet(batch) \cup ToSet(pads)
      /\ Len(batch \o pads) = n + m
  BY <1>1, <1>6, ConcatElements
<1>9. \A row \in ToSet(pads) : \E x \in ToSet(batch) : row = Pad(x)
  BY <1>6, Elements
<1>10. QED
  BY <1>3, <1>7, <1>8, <1>9

-------------------------------------------------------------------------------
(* Collection *)

\* What is assumed of the prompts.
LEMMA PromptsSorted ==
    /\ Len(Prompts) \in Nat \ {0}
    /\ Trajectories = 1..Len(Prompts)
    /\ \A t \in Trajectories : Prompts[t] \in Nat \ {0}
    /\ \A t, u \in Trajectories : t <= u => Prompts[t] <= Prompts[u]
<1>1. Prompts \in Seq(Nat \ {0}) /\ Prompts # <<>>
  BY BatchAssumption
<1>2. Len(Prompts) \in Nat \ {0} /\ Trajectories = 1..Len(Prompts)
  BY <1>1, EmptySeq DEF Trajectories
<1>3. \A t \in Trajectories : Prompts[t] \in Nat \ {0}
  BY <1>1, <1>2
<1>4. ASSUME NEW t \in Trajectories, NEW u \in Trajectories, t <= u
      PROVE  Prompts[t] <= Prompts[u]
  <2>1. CASE t < u
    BY <2>1, BatchAssumption
  <2>2. CASE t = u
    BY <1>3, <2>2
  <2>3. QED
    BY <1>2, <1>4, <2>1, <2>2
<1>5. QED
  BY <1>2, <1>3, <1>4

\* The trajectories up to prompt m, each once and in the order of the prompts.
InOrder(s, m) ==
    /\ s \in Seq(Trajectories)
    /\ Once(s)
    /\ ToSet(s) = {t \in Trajectories : Prompts[t] <= m}
    /\ \A i, j \in 1..Len(s) : i <= j => Prompts[s[i]] <= Prompts[s[j]]

\* The trajectories of the next prompt come behind the others.
LEMMA NextGroup ==
    ASSUME NEW m \in Nat, NEW s, InOrder(s, m), NEW g \in Seq(Trajectories),
           Once(g), ToSet(g) = {t \in Trajectories : Prompts[t] = m + 1}
    PROVE  InOrder(s \o g, m + 1)
<1>1. s \in Seq(Trajectories)
  BY DEF InOrder
<1>2. \A t \in Trajectories : Prompts[t] \in Nat
  BY PromptsSorted
<1>3. s \o g \in Seq(Trajectories) /\ ToSet(s \o g) = ToSet(s) \cup ToSet(g)
  BY <1>1, ConcatElements
<1>4. ToSet(s \o g) = {t \in Trajectories : Prompts[t] <= m + 1}
  <2>1. \A t \in Trajectories :
            Prompts[t] <= m + 1 <=> Prompts[t] <= m \/ Prompts[t] = m + 1
    BY <1>2
  <2>2. QED
    BY <1>3, <2>1 DEF InOrder
<1>5. Once(s \o g)
  <2>1. ToSet(s) \cap ToSet(g) = {}
    BY <1>2 DEF InOrder
  <2>2. QED
    BY <1>1, <2>1, ConcatOnce DEF InOrder
<1>6. PICK u : u = s \o g
  OBVIOUS
<1>7. PICK k \in Nat : k = Len(s)
  BY <1>1
<1>8. PICK l \in Nat : l = Len(g)
  OBVIOUS
<1>9. /\ Len(u) = k + l
      /\ \A i \in 1..k + l : u[i] = IF i <= k THEN s[i] ELSE g[i - k]
  BY <1>1, <1>6, <1>7, <1>8, ConcatProperties
<1>10. ASSUME NEW i \in 1..k + l
       PROVE  /\ i <= k => i \in 1..k /\ Prompts[u[i]] <= m
              /\ ~(i <= k) => Prompts[u[i]] = m + 1
  <2>1. CASE i <= k
    <3>1. i \in 1..k /\ u[i] = s[i]
      BY <1>9, <2>1
    <3>2. s[i] \in ToSet(s)
      BY <1>1, <1>7, <3>1, Elements
    <3>3. QED
      BY <2>1, <3>1, <3>2 DEF InOrder
  <2>2. CASE ~(i <= k)
    <3>1. i - k \in 1..l /\ u[i] = g[i - k]
      BY <1>9, <2>2
    <3>2. g[i - k] \in ToSet(g)
      BY <1>8, <3>1, Elements
    <3>3. QED
      BY <2>2, <3>1, <3>2
  <2>3. QED
    BY <2>1, <2>2
<1>11. ASSUME NEW i \in 1..k + l, NEW j \in 1..k + l, i <= j
       PROVE  Prompts[u[i]] <= Prompts[u[j]]
  <2>1. CASE j <= k
    <3>1. /\ i \in 1..k /\ j \in 1..k
          /\ u[i] = s[i] /\ u[j] = s[j]
      BY <1>9, <1>11, <2>1
    <3>2. QED
      BY <1>7, <1>11, <3>1 DEF InOrder
  <2>2. CASE ~(j <= k) /\ i <= k
    <3>1. Prompts[u[i]] <= m /\ Prompts[u[j]] = m + 1
      BY <1>10, <2>2
    <3>2. u[i] \in Trajectories
      BY <1>1, <1>7, <1>9, <1>10, <2>2
    <3>3. QED
      BY <1>2, <3>1, <3>2
  <2>3. CASE ~(j <= k) /\ ~(i <= k)
    <3>1. Prompts[u[i]] = m + 1 /\ Prompts[u[j]] = m + 1
      BY <1>10, <2>3
    <3>2. QED
      BY <3>1
  <2>4. QED
    BY <2>1, <2>2, <2>3
<1>12. QED
  BY <1>3, <1>4, <1>5, <1>6, <1>9, <1>11 DEF InOrder

\* All trajectories in the order of the prompts have at each position one of
\* the prompt that stands at this position.
LEMMA Aligned ==
    ASSUME NEW s, InOrder(s, Prompts[Len(Prompts)])
    PROVE  /\ s \in Seq(Trajectories)
           /\ Len(s) = Len(Prompts)
           /\ ToSet(s) = Trajectories
           /\ \A i \in Trajectories : Prompts[s[i]] = Prompts[i]
<1>1. PICK n \in Nat \ {0} : n = Len(Prompts)
  BY PromptsSorted
<1>2. /\ Trajectories = 1..n
      /\ \A t \in 1..n : Prompts[t] \in Nat
      /\ \A t, u \in 1..n : t <= u => Prompts[t] <= Prompts[u]
  BY <1>1, PromptsSorted
<1>3. s \in Seq(1..n) /\ Once(s)
  BY <1>2 DEF InOrder
<1>4. ToSet(s) = 1..n
  <2>1. \A t \in 1..n : t <= n /\ n \in 1..n
    OBVIOUS
  <2>2. \A t \in 1..n : Prompts[t] <= Prompts[n]
    BY <1>2, <2>1
  <2>3. QED
    BY <1>1, <1>2, <2>2 DEF InOrder
<1>5. Len(s) = n
  <2>1. PICK k \in Nat : k = Len(s)
    BY <1>3
  <2>2. s \in [1..k -> 1..n]
    BY <1>3, <2>1
  <2>3. \A a, b \in 1..k : s[a] = s[b] => a = b
    BY <1>3, <2>1 DEF Once
  <2>4. \A t \in 1..n : \E a \in 1..k : s[a] = t
    BY <1>3, <1>4, <2>1, Elements
  <2>5. s \in Injection(1..k, 1..n) /\ s \in Surjection(1..k, 1..n)
    BY <2>2, <2>3, <2>4 DEF Injection, IsInjective, Surjection
  <2>6. ExistsBijection(1..k, 1..n)
    BY <2>5 DEF Bijection, ExistsBijection
  <2>7. ExistsBijection(1..n, 1..n)
    BY Fun_ExistsBijReflexive
  <2>8. QED
    BY <2>1, <2>6, <2>7, Fun_NatBijSame
<1>6. /\ \A i \in 1..n : s[i] \in 1..n
      /\ \A i, j \in 1..n : s[i] = s[j] => i = j
      /\ \A t \in 1..n : \E i \in 1..n : s[i] = t
  BY <1>3, <1>4, <1>5, Elements DEF Once
<1>7. \A i, j \in 1..n : i <= j => Prompts[s[i]] <= Prompts[s[j]]
  BY <1>5 DEF InOrder
<1>8. \A i \in 1..n : Prompts[s[i]] = Prompts[i]
  <2>1. \A i \in 1..n : Prompts[i] \in Nat /\ s[i] \in 1..n
    BY <1>2, <1>6
  <2>2. n \in Nat
    BY <1>1
  <2>3. \A i, j \in 1..n : i <= j => Prompts[i] <= Prompts[j]
    BY <1>2
  <2>4. \A i, j \in 1..n : s[i] = s[j] => i = j
    BY <1>6
  <2>5. SortedBoth(n, Prompts, s)
    BY <1>7, <2>1, <2>3, <2>4 DEF SortedBoth
  <2>6. QED
    BY <2>2, <2>5, SortedAlike
<1>9. QED
  BY <1>1, <1>2, <1>3, <1>4, <1>5, <1>8

\* A list with every trajectory, at a position of its own prompt.
IsArranged(list) ==
    /\ list \in Seq(Trajectories)
    /\ Len(list) = Len(Prompts)
    /\ ToSet(list) = Trajectories
    /\ \A i \in Trajectories : Prompts[list[i]] = Prompts[i]

\* An order of arrival has every trajectory once.
LEMMA AllArrive ==
    ASSUME NEW order \in Arrivals
    PROVE  /\ order \in Seq(Trajectories)
           /\ Once(order)
           /\ ToSet(order) = Trajectories
<1>1. PICK n \in Nat : Trajectories = 1..n
  BY PromptsSorted
<1>2. order \in Injection(1..n, 1..n)
  BY <1>1, BatchAssumption
<1>3. /\ order \in [1..n -> 1..n]
      /\ \A a, b \in 1..n : order[a] = order[b] => a = b
  BY <1>2, Fun_InjectionProperties
<1>4. IsFiniteSet(1..n)
  BY FS_Interval
<1>5. order \in Surjection(1..n, 1..n)
  BY <1>2, <1>4, FS_Injection
<1>6. \A t \in 1..n : \E a \in 1..n : order[a] = t
  BY <1>5, Fun_SurjectionProperties
<1>7. order \in Seq(1..n) /\ Len(order) = n
  BY <1>3
<1>8. ToSet(order) = 1..n
  <2>1. \A a \in 1..n : order[a] \in ToSet(order)
    BY <1>7, Elements
  <2>2. ToSet(order) \subseteq 1..n
    BY <1>7, Elements
  <2>3. QED
    BY <1>6, <2>1, <2>2
<1>9. QED
  BY <1>1, <1>3, <1>7, <1>8 DEF Once

\* Both trainers put the trajectories where their prompts are
\* (agent_ppo_trainer.py:648, agent_workflow_trainer.py:190).
LEMMA ArrangedRight ==
    ASSUME NEW order \in Arrivals
    PROVE  IsArranged(Arranged(order))
<1>1. PICK n \in Nat \ {0} : n = Len(Prompts) /\ Trajectories = 1..n
  BY PromptsSorted
<1>2. CASE Ppo
  <2>1. PICK ids : ids = [t \in Trajectories |-> t]
    OBVIOUS
  <2>2. ids \in Seq(Trajectories) /\ Len(ids) = n /\ \A t \in 1..n : ids[t] = t
    BY <1>1, <2>1
  <2>3. ToSet(ids) = Trajectories
    <3>1. \A t \in 1..n : ids[t] \in ToSet(ids)
      BY <2>2, Elements
    <3>2. ToSet(ids) \subseteq Trajectories
      BY <2>2, Elements
    <3>3. QED
      BY <1>1, <2>2, <3>1, <3>2
  <2>4. Select(ids, ToSet(order)) = ids
    BY <2>2, <2>3, AllArrive, SelectAll
  <2>5. Arranged(order) = ids
    BY <1>2, <2>1, <2>4 DEF Arranged
  <2>6. QED
    BY <1>1, <2>2, <2>3, <2>5 DEF IsArranged
<1>3. CASE ~Ppo
  <2>1. PICK p \in Nat \ {0} : p = Prompts[n]
    BY <1>1, PromptsSorted
  <2>2. PICK groups :
            groups = [q \in 1..p |->
                         Select(order, {t \in Trajectories : Prompts[t] = q})]
    OBVIOUS
  <2>3. Arranged(order) = FlattenSeq(groups)
    BY <1>1, <1>3, <2>1, <2>2 DEF Arranged
  <2>4. ASSUME NEW q \in 1..p
        PROVE  /\ groups[q] \in Seq(Trajectories)
               /\ Once(groups[q])
               /\ ToSet(groups[q]) = {t \in Trajectories : Prompts[t] = q}
    <3>1. PICK T : T = {t \in Trajectories : Prompts[t] = q}
      OBVIOUS
    <3>2. groups[q] = Select(order, T)
      BY <2>2, <3>1
    <3>3. order \in Seq(Trajectories) /\ Once(order)
      BY AllArrive
    <3>4. Select(order, T) \in Seq(Trajectories)
      BY <3>3, SelectPlaces
    <3>5. ToSet(Select(order, T)) = ToSet(order) \cap T
      BY <3>3, SelectElements
    <3>6. Once(Select(order, T))
      BY <3>3, SelectOnce
    <3>7. QED
      BY <3>1, <3>2, <3>4, <3>5, <3>6, AllArrive
  <2>5. groups \in Seq(Seq(Trajectories)) /\ Len(groups) = p
    <3>1. \A q \in 1..p : groups[q] \in Seq(Trajectories)
      BY <2>4
    <3>2. groups \in [1..p -> Seq(Trajectories)]
      BY <2>2, <3>1
    <3>3. QED
      BY <3>2
  <2>6. PICK f : Joins(f, groups, Trajectories) /\ FlattenSeq(groups) = f[p]
    BY <2>5, FlattenRecurses
  <2>7. f[0] = <<>> /\ \A q \in 1..p : f[q] = f[q - 1] \o groups[q]
    BY <2>5, <2>6 DEF Joins
  <2> DEFINE J == {m \in Nat : m <= p => InOrder(f[m], m)}
  <2>8. 0 \in J
    <3>1. <<>> \in Seq(Trajectories) /\ Len(<<>>) = 0 /\ 1..0 = {}
      OBVIOUS
    <3>2. ToSet(<<>>) = {}
      BY <3>1, Elements
    <3>3. {t \in Trajectories : Prompts[t] <= 0} = {}
      BY PromptsSorted
    <3>4. InOrder(f[0], 0)
      BY <2>7, <3>1, <3>2, <3>3 DEF InOrder, Once
    <3>5. QED
      BY <3>4
  <2>9. ASSUME NEW m \in Nat, m \in J
        PROVE  m + 1 \in J
    <3> SUFFICES ASSUME m + 1 <= p
                 PROVE  InOrder(f[m + 1], m + 1)
      OBVIOUS
    <3>1. InOrder(f[m], m)
      BY <2>9
    <3>2. m + 1 \in 1..p /\ (m + 1) - 1 = m
      OBVIOUS
    <3>3. f[m + 1] = f[m] \o groups[m + 1]
      BY <2>7, <3>2
    <3>4. /\ groups[m + 1] \in Seq(Trajectories)
          /\ Once(groups[m + 1])
          /\ ToSet(groups[m + 1]) = {t \in Trajectories : Prompts[t] = m + 1}
      BY <2>4, <3>2
    <3>5. InOrder(f[m] \o groups[m + 1], m + 1)
      BY <3>1, <3>4, NextGroup
    <3>6. QED
      BY <3>3, <3>5
  <2>10. p \in J
    <3> HIDE DEF J
    <3>1. Nat \subseteq J
      BY <2>8, <2>9, Induction
    <3>2. QED
      BY <3>1
  <2>11. InOrder(Arranged(order), Prompts[Len(Prompts)])
    BY <1>1, <2>1, <2>3, <2>6, <2>10
  <2>12. QED
    BY <2>11, Aligned DEF IsArranged
<1>4. QED
  BY <1>2, <1>3

-------------------------------------------------------------------------------
(* Rows *)

\* The settings of the iteration.
Settings ==
    /\ trainer \in {"ppo", "workflow"}
    /\ mode \in {"broadcast", "per_step"}
    /\ rejects \in BOOLEAN
    /\ actors \in Worlds
    /\ world \in {actors * f : f \in Factors}
    /\ wanted \in Wanted \cup {1}
    /\ nsteps \in [Trajectories -> 0..MaxSteps]
    /\ solved \subseteq Trajectories
    /\ silent \subseteq MayBeSilent
    /\ masked \subseteq Maskable

\* Lengths are divided by no zero, and a length that all groups take the actor
\* group takes.
LEMMA SomeWorld ==
    ASSUME Settings
    PROVE  /\ actors \in Nat \ {0}
           /\ world \in Nat \ {0}
           /\ \A n \in Nat : n % world = 0 => n % actors = 0
<1>1. PICK f \in Factors : world = actors * f
  BY DEF Settings
<1>2. actors \in Nat \ {0} /\ f \in Nat \ {0}
  BY BatchAssumption DEF Settings
<1>3. world \in Nat \ {0}
  BY <1>1, <1>2
<1>4. ASSUME NEW n \in Nat, n % world = 0
      PROVE  n % actors = 0
  BY <1>1, <1>2, <1>4, DividesToo
<1>5. QED
  BY <1>2, <1>3, <1>4

\* The rows that are steps of their trajectory, or padding made of one.
Steps ==
    {row \in Row :
        /\ row.uid = Prompts[row.ep]
        /\ row.step <= nsteps[row.ep]
        /\ row.last = (~row.pad /\ row.step = nsteps[row.ep])}

\* Those without an advantage yet.
FreshSteps ==
    {row \in Steps : row.adv = 0 /\ row.near = FALSE}

\* A step of a trajectory makes a row of its own prompt.
LEMMA StepRowFresh ==
    ASSUME Settings, NEW t \in Trajectories, NEW k \in 1..nsteps[t]
    PROVE  /\ StepRow(Prompts[t], t, k) \in FreshSteps
           /\ ~StepRow(Prompts[t], t, k).pad
           /\ StepRow(Prompts[t], t, k).ep = t
           /\ StepRow(Prompts[t], t, k).step = k
           /\ StepRow(Prompts[t], t, k).last = (k = nsteps[t])
           /\ StepRow(Prompts[t], t, k).uid = Prompts[t]
<1>1. PICK row : row = StepRow(Prompts[t], t, k)
  OBVIOUS
<1>2. nsteps[t] \in 0..MaxSteps /\ MaxSteps \in Nat /\ k \in 1..MaxSteps
  BY BatchAssumption DEF Settings
<1>3. Prompts[t] \in ToSet(Prompts)
  <2>1. Prompts \in Seq(Nat \ {0}) /\ t \in 1..Len(Prompts)
    BY BatchAssumption DEF Trajectories
  <2>2. QED
    BY <2>1, Elements
<1>4. /\ row.uid = Prompts[t] /\ row.ep = t /\ row.step = k
      /\ row.last = (k = nsteps[t]) /\ row.pad = FALSE
      /\ row.adv = 0 /\ row.near = FALSE
  BY <1>1 DEF StepRow
<1>5. row \in Row
  BY <1>1, <1>2, <1>3 DEF StepRow, Row
<1>6. row \in Steps
  BY <1>2, <1>4, <1>5 DEF Steps
<1>7. QED
  BY <1>1, <1>4, <1>6 DEF FreshSteps

\* A fresh row that is no padding is known by its trajectory and its step.
LEMMA OnlyStepRows ==
    ASSUME Settings, NEW row \in FreshSteps, ~row.pad
    PROVE  /\ row.ep \in Trajectories
           /\ row.step \in 1..nsteps[row.ep]
           /\ row = StepRow(Prompts[row.ep], row.ep, row.step)
<1>1. /\ row \in Row
      /\ row.uid = Prompts[row.ep] /\ row.step <= nsteps[row.ep]
      /\ row.last = (~row.pad /\ row.step = nsteps[row.ep])
      /\ row.adv = 0 /\ row.near = FALSE
  BY DEF FreshSteps, Steps
<1>2. /\ row.ep \in Trajectories /\ row.step \in 1..MaxSteps
      /\ row.pad \in BOOLEAN /\ row.last \in BOOLEAN
      /\ row = [uid |-> row.uid, ep |-> row.ep, step |-> row.step,
                last |-> row.last, pad |-> row.pad, adv |-> row.adv,
                near |-> row.near]
  BY <1>1 DEF Row
<1>3. nsteps[row.ep] \in 0..MaxSteps /\ MaxSteps \in Nat
  BY <1>2, BatchAssumption DEF Settings
<1>4. row.step \in 1..nsteps[row.ep]
  BY <1>1, <1>2, <1>3
<1>5. row.pad = FALSE /\ row.last = (row.step = nsteps[row.ep])
  BY <1>1, <1>2
<1>6. row = [uid |-> Prompts[row.ep], ep |-> row.ep, step |-> row.step,
             last |-> (row.step = nsteps[row.ep]), pad |-> FALSE, adv |-> 0,
             near |-> FALSE]
  BY <1>1, <1>2, <1>5
<1>7. QED
  BY <1>2, <1>4, <1>6 DEF StepRow

\* Padding is a row of the same trajectory.
LEMMA PadIsStep ==
    ASSUME NEW row \in Steps
    PROVE  /\ Pad(row) \in Steps
           /\ row \in FreshSteps => Pad(row) \in FreshSteps
           /\ Pad(row).pad = TRUE
           /\ Pad(row).last = FALSE
           /\ Pad(row).ep = row.ep
           /\ Pad(row).uid = row.uid
<1>1. row \in Row
  BY DEF Steps
<1>2. /\ Pad(row) \in Row
      /\ Pad(row).uid = row.uid /\ Pad(row).ep = row.ep
      /\ Pad(row).step = row.step
      /\ Pad(row).last = FALSE /\ Pad(row).pad = TRUE
      /\ Pad(row).adv = row.adv /\ Pad(row).near = row.near
  BY <1>1 DEF Row, Pad
<1>3. Pad(row) \in Steps
  BY <1>2 DEF Steps
<1>4. QED
  BY <1>2, <1>3 DEF FreshSteps

\* All steps of trajectory t are in B.
Whole(B, t) == \A k \in 1..nsteps[t] : StepRow(Prompts[t], t, k) \in B

\* What is collected: whole trajectories, without padding.
AllWhole(batch) ==
    /\ batch \in Seq(FreshSteps)
    /\ \A row \in ToSet(batch) : ~row.pad /\ Whole(ToSet(batch), row.ep)

\* Every step of a trajectory that was collected gets its row.
LEMMA RowsOfWhole ==
    ASSUME Settings, NEW list, IsArranged(list)
    PROVE  AllWhole(RowsOf(list))
<1>1. PICK n \in Nat : n = Len(Prompts) /\ Trajectories = 1..n
  BY PromptsSorted
<1>2. /\ list \in Seq(1..n) /\ Len(list) = n
      /\ \A i \in 1..n : list[i] \in 1..n /\ Prompts[i] = Prompts[list[i]]
  BY <1>1 DEF IsArranged
<1>3. PICK ss :
          ss = [i \in 1..n |-> [k \in 1..nsteps[list[i]] |->
                                   StepRow(Prompts[i], list[i], k)]]
  OBVIOUS
<1>4. RowsOf(list) = FlattenSeq(ss)
  BY <1>2, <1>3 DEF RowsOf
<1>5. ASSUME NEW i \in 1..n
      PROVE  /\ ss[i] \in Seq(FreshSteps)
             /\ ToSet(ss[i]) = {StepRow(Prompts[list[i]], list[i], k) :
                                    k \in 1..nsteps[list[i]]}
  <2>1. PICK t \in Trajectories : t = list[i] /\ Prompts[i] = Prompts[t]
    BY <1>1, <1>2
  <2>2. PICK m \in Nat : m = nsteps[t]
    BY BatchAssumption DEF Settings
  <2>3. ss[i] = [k \in 1..m |-> StepRow(Prompts[t], t, k)]
    BY <1>3, <2>1, <2>2
  <2>4. \A k \in 1..m : StepRow(Prompts[t], t, k) \in FreshSteps
    BY <2>2, StepRowFresh
  <2>5. ss[i] \in [1..m -> FreshSteps]
    BY <2>3, <2>4
  <2>6. ss[i] \in Seq(FreshSteps) /\ Len(ss[i]) = m
    BY <2>5
  <2>7. ToSet(ss[i]) = {ss[i][k] : k \in 1..m}
    BY <2>6 DEF ToSet
  <2>8. QED
    BY <2>1, <2>2, <2>3, <2>6, <2>7
<1>6. ss \in Seq(Seq(FreshSteps)) /\ Len(ss) = n
  <2>1. \A i \in 1..n : ss[i] \in Seq(FreshSteps)
    BY <1>5
  <2>2. ss \in [1..n -> Seq(FreshSteps)]
    BY <1>3, <2>1
  <2>3. QED
    BY <2>2
<1>7. PICK batch : batch = RowsOf(list)
  OBVIOUS
<1>8. batch \in Seq(FreshSteps)
  BY <1>4, <1>6, <1>7, FlattenType
<1>9. ToSet(batch) = UNION {ToSet(ss[i]) : i \in 1..n}
  BY <1>4, <1>6, <1>7, FlattenElements
<1>10. ASSUME NEW row \in ToSet(batch)
       PROVE  ~row.pad /\ Whole(ToSet(batch), row.ep)
  <2>1. PICK i \in 1..n : row \in ToSet(ss[i])
    BY <1>9
  <2>2. PICK k \in 1..nsteps[list[i]] :
            row = StepRow(Prompts[list[i]], list[i], k)
    BY <1>5, <2>1
  <2>3. list[i] \in Trajectories
    BY <1>1, <1>2
  <2>4. ~row.pad /\ row.ep = list[i]
    BY <2>2, <2>3, StepRowFresh
  <2>5. ToSet(ss[i]) \subseteq ToSet(batch)
    BY <1>9
  <2>6. QED
    BY <1>5, <2>4, <2>5 DEF Whole
<1>11. QED
  BY <1>7, <1>8, <1>10 DEF AllWhole

-------------------------------------------------------------------------------
(* Cutting and padding *)

\* Rows that can be given advantages: the trajectory of a last step is whole,
\* every row has a last step by which it was kept, and padding was made of a
\* step that is still there.
Ready(B) ==
    /\ \A row \in B : row.last => Whole(B, row.ep)
    /\ \A row \in B : \E x \in B : x.last /\ KeptBy(x) = KeptBy(row)
    /\ \A row \in B : \E x \in B : ~x.pad /\ x.ep = row.ep

\* Whole trajectories, padded or not, are ready.
LEMMA WholeReady ==
    ASSUME Settings, NEW B, B \subseteq FreshSteps,
           \A row \in B : Whole(B, row.ep)
    PROVE  Ready(B)
<1>1. ASSUME NEW row \in B
      PROVE  \E x \in B : /\ x.last /\ KeptBy(x) = KeptBy(row)
                          /\ ~x.pad /\ x.ep = row.ep
  <2>1. /\ row \in Row /\ row.uid = Prompts[row.ep]
        /\ row.step <= nsteps[row.ep]
    BY DEF FreshSteps, Steps
  <2>2. PICK t \in Trajectories : t = row.ep
    BY <2>1 DEF Row
  <2>3. nsteps[t] \in Nat /\ row.step \in Nat \ {0}
    BY <2>1, BatchAssumption DEF Settings, Row
  <2>4. nsteps[t] \in 1..nsteps[t]
    BY <2>1, <2>2, <2>3
  <2>5. PICK x : x = StepRow(Prompts[t], t, nsteps[t])
    OBVIOUS
  <2>6. x \in B
    BY <2>2, <2>4, <2>5 DEF Whole
  <2>7. x.last /\ ~x.pad /\ x.ep = t /\ x.uid = Prompts[t]
    BY <2>4, <2>5, StepRowFresh
  <2>8. KeptBy(x) = KeptBy(row)
    BY <2>1, <2>2, <2>7 DEF KeptBy
  <2>9. QED
    BY <2>2, <2>6, <2>7, <2>8
<1>2. QED
  BY <1>1 DEF Ready

\* The cut keeps the other steps by the last steps it keeps, so it leaves
\* rows that are ready: no last step stays without its trajectory.
LEMMA CutReady ==
    ASSUME Settings, NEW batch, AllWhole(batch)
    PROVE  /\ Cut(batch) \in Seq(FreshSteps)
           /\ ToSet(Cut(batch)) \subseteq ToSet(batch)
           /\ Ready(ToSet(Cut(batch)))
<1>1. batch \in Seq(FreshSteps) /\ ToSet(batch) \subseteq FreshSteps
  BY Elements DEF AllWhole
<1>2. PICK lasts : lasts = RoundDown(Lasts(batch))
  OBVIOUS
<1>3. PICK kept : kept = {KeptBy(row) : row \in ToSet(lasts)}
  OBVIOUS
<1>4. PICK stay :
          stay = {row \in ToSet(batch) : ~row.last /\ KeptBy(row) \in kept}
  OBVIOUS
<1>5. /\ lasts \in Seq(FreshSteps)
      /\ ToSet(lasts) \subseteq {row \in ToSet(batch) : row.last}
  <2>1. /\ Lasts(batch) \in Seq(FreshSteps)
        /\ ToSet(Lasts(batch)) = {row \in ToSet(batch) : row.last}
    BY <1>1, Parts
  <2>2. QED
    BY <1>2, <2>1, SomeWorld, RoundDownRows
<1>6. /\ Select(batch, stay) \in Seq(FreshSteps)
      /\ ToSet(Select(batch, stay)) = stay
  <2>1. ToSet(Select(batch, stay)) = ToSet(batch) \cap stay
    BY <1>1, SelectElements
  <2>2. Select(batch, stay) \in Seq(FreshSteps)
    BY <1>1, SelectPlaces
  <2>3. QED
    BY <1>4, <2>1, <2>2
<1>7. Cut(batch) = lasts \o Select(batch, stay)
  BY <1>2, <1>3, <1>4 DEF Cut
<1>8. PICK B : B = ToSet(Cut(batch))
  OBVIOUS
<1>9. Cut(batch) \in Seq(FreshSteps) /\ B = ToSet(lasts) \cup stay
  BY <1>5, <1>6, <1>7, <1>8, ConcatElements
<1>10. B \subseteq ToSet(batch)
  BY <1>4, <1>5, <1>9
<1>11. ASSUME NEW row \in B, row.last
       PROVE  Whole(B, row.ep)
  <2>1. row \in ToSet(lasts) /\ row \in ToSet(batch)
    BY <1>4, <1>9, <1>10, <1>11
  <2>2. ~row.pad /\ Whole(ToSet(batch), row.ep) /\ row \in FreshSteps
    BY <1>1, <2>1 DEF AllWhole
  <2>3. PICK t \in Trajectories : t = row.ep
    BY <2>2, OnlyStepRows
  <2>4. row.step = nsteps[t] /\ row.uid = Prompts[t]
    BY <1>11, <2>2, <2>3 DEF FreshSteps, Steps
  <2>5. row = StepRow(Prompts[t], t, nsteps[t])
    BY <2>2, <2>3, <2>4, OnlyStepRows
  <2>6. ASSUME NEW k \in 1..nsteps[t]
        PROVE  StepRow(Prompts[t], t, k) \in B
    <3>1. PICK x : x = StepRow(Prompts[t], t, k)
      OBVIOUS
    <3>2. CASE k = nsteps[t]
      BY <2>5, <3>1, <3>2
    <3>3. CASE k # nsteps[t]
      <4>1. /\ x \in ToSet(batch) /\ ~x.last
            /\ x.uid = Prompts[t] /\ x.ep = t
        <5>1. x \in ToSet(batch)
          BY <2>2, <2>3, <3>1 DEF Whole
        <5>2. /\ x.uid = Prompts[t] /\ x.ep = t
              /\ x.last = (k = nsteps[t])
          BY <3>1, StepRowFresh
        <5>3. QED
          BY <3>3, <5>1, <5>2
      <4>2. KeptBy(x) = KeptBy(row)
        BY <2>3, <2>4, <4>1 DEF KeptBy
      <4>3. x \in stay
        BY <1>3, <1>4, <2>1, <4>1, <4>2
      <4>4. QED
        BY <1>9, <3>1, <4>3
    <3>4. QED
      BY <3>2, <3>3
  <2>7. QED
    BY <2>3, <2>6 DEF Whole
<1>12. ASSUME NEW row \in B
       PROVE  \E x \in B : x.last /\ KeptBy(x) = KeptBy(row)
  <2>1. CASE row \in ToSet(lasts)
    BY <1>5, <2>1
  <2>2. CASE row \in stay
    <3>1. KeptBy(row) \in kept
      BY <1>4, <2>2
    <3>2. PICK x \in ToSet(lasts) : KeptBy(row) = KeptBy(x)
      BY <1>3, <3>1
    <3>3. x \in B /\ x.last
      BY <1>5, <1>9
    <3>4. QED
      BY <3>2, <3>3
  <2>3. QED
    BY <1>9, <2>1, <2>2
<1>13. \A row \in B : \E x \in B : ~x.pad /\ x.ep = row.ep
  BY <1>10 DEF AllWhole
<1>14. Ready(B)
  BY <1>11, <1>12, <1>13 DEF Ready
<1>15. QED
  BY <1>8, <1>9, <1>10, <1>14

\* The padding of a batch: made of its own rows, behind the rows that are
\* none, in a batch whose length the groups' size divides.
IsPadded(p, batch) ==
    /\ {row \in ToSet(p) : ~row.pad} = {row \in ToSet(batch) : ~row.pad}
    /\ \A row \in ToSet(p) : row \notin ToSet(batch) =>
           \E x \in ToSet(batch) : row = Pad(x)
    /\ Ppo \/ (\A row \in ToSet(batch) : ~row.pad) =>
           ToSet(batch) \subseteq ToSet(p)
    /\ Len(p) % world = 0

\* What both forms of padding do.
LEMMA PaddedRows ==
    ASSUME Settings, NEW S, S \in {Steps, FreshSteps}, NEW batch \in Seq(S)
    PROVE  /\ Padded(batch) \in Seq(S)
           /\ IsPadded(Padded(batch), batch)
<1>1. world \in Nat \ {0}
  BY SomeWorld
<1>2. \A row \in S : /\ Pad(row) \in S
                     /\ Pad(row).pad = TRUE
  <2>1. S \subseteq Steps
    BY DEF FreshSteps
  <2>2. QED
    BY <2>1, PadIsStep
<1>3. ASSUME NEW b \in Seq(S)
      PROVE  /\ Filled(b) \in Seq(S)
             /\ ToSet(b) \subseteq ToSet(Filled(b))
             /\ \A row \in ToSet(Filled(b)) \ ToSet(b) :
                   \E x \in ToSet(b) : row = Pad(x)
             /\ Len(Filled(b)) % world = 0
             /\ {row \in ToSet(Filled(b)) : ~row.pad} =
                   {row \in ToSet(b) : ~row.pad}
  <2>1. /\ Filled(b) \in Seq(S)
        /\ ToSet(b) \subseteq ToSet(Filled(b))
        /\ \A row \in ToSet(Filled(b)) \ ToSet(b) :
              \E x \in ToSet(b) : row = Pad(x)
        /\ Len(Filled(b)) % world = 0
    BY <1>1, <1>2, FilledRows
  <2>2. ToSet(b) \subseteq S
    BY Elements
  <2>3. \A row \in ToSet(Filled(b)) \ ToSet(b) : row.pad = TRUE
    BY <1>2, <2>1, <2>2
  <2>4. QED
    BY <2>1, <2>3
<1>4. CASE Ppo
  <2>1. Padded(batch) = Filled(batch)
    BY <1>4 DEF Padded
  <2>2. QED
    BY <1>3, <2>1 DEF IsPadded
<1>5. CASE ~Ppo
  <2>1. PICK b : b = NoPads(batch)
    OBVIOUS
  <2>2. b \in Seq(S) /\ ToSet(b) = {row \in ToSet(batch) : ~row.pad}
    BY <2>1, Parts
  <2>3. Padded(batch) = Filled(b)
    BY <1>5, <2>1 DEF Padded
  <2>4. {row \in ToSet(b) : ~row.pad} = {row \in ToSet(batch) : ~row.pad}
    BY <2>2
  <2>5. (\A row \in ToSet(batch) : ~row.pad) => ToSet(b) = ToSet(batch)
    BY <2>2
  <2>6. \A row \in ToSet(Filled(b)) : row \notin ToSet(batch) =>
            \E x \in ToSet(batch) : row = Pad(x)
    BY <1>3, <2>2
  <2>7. QED
    BY <1>3, <1>5, <2>2, <2>3, <2>4, <2>5, <2>6 DEF IsPadded
<1>6. QED
  BY <1>4, <1>5

\* Padding does not undo that rows are ready.
LEMMA PaddedReady ==
    ASSUME Settings, NEW B, NEW C, B \subseteq C, B \subseteq Steps,
           \A row \in C : row \notin B => \E x \in B : row = Pad(x),
           Ready(B)
    PROVE  Ready(C)
<1>1. ASSUME NEW row \in C
      PROVE  \E y \in B : /\ y.ep = row.ep /\ KeptBy(y) = KeptBy(row)
                          /\ row.last => row \in B
  <2>1. CASE row \in B
    BY <2>1
  <2>2. CASE row \notin B
    <3>1. PICK x \in B : row = Pad(x)
      BY <2>2
    <3>2. /\ ~row.last
          /\ row.ep = x.ep /\ row.uid = x.uid
      BY <3>1, PadIsStep
    <3>3. KeptBy(x) = KeptBy(row)
      BY <3>2 DEF KeptBy
    <3>4. QED
      BY <3>2, <3>3
  <2>3. QED
    BY <2>1, <2>2
<1>2. ASSUME NEW row \in C, row.last
      PROVE  Whole(C, row.ep)
  BY <1>1, <1>2 DEF Ready, Whole
<1>3. ASSUME NEW row \in C
      PROVE  /\ \E x \in C : x.last /\ KeptBy(x) = KeptBy(row)
             /\ \E x \in C : ~x.pad /\ x.ep = row.ep
  <2>1. PICK y \in B : y.ep = row.ep /\ KeptBy(y) = KeptBy(row)
    BY <1>1
  <2>2. PICK x \in B : x.last /\ KeptBy(x) = KeptBy(y)
    BY DEF Ready
  <2>3. PICK z \in B : ~z.pad /\ z.ep = y.ep
    BY DEF Ready
  <2>4. QED
    BY <2>1, <2>2, <2>3
<1>4. QED
  BY <1>2, <1>3 DEF Ready

-------------------------------------------------------------------------------
(* Advantages *)

\* A row as it was before it got an advantage.
Plain(row) == [row EXCEPT !.adv = 0]

\* A row with the advantage that batch gives it.
Advised(row, batch) == [row EXCEPT !.adv = Grpo(row, batch)]

\* The rows of a batch are finitely many.
LEMMA FiniteRows ==
    ASSUME NEW S, NEW batch \in Seq(S)
    PROVE  IsFiniteSet(ToSet(batch))
<1>1. PICK n \in Nat : n = Len(batch)
  OBVIOUS
<1>2. batch \in [1..n -> S]
  BY <1>1
<1>3. \A i \in 1..n : batch[i] \in ToSet(batch)
  BY <1>1, Elements
<1>4. batch \in [1..n -> ToSet(batch)]
  BY <1>2, <1>3
<1>5. \A x \in ToSet(batch) : \E i \in 1..n : batch[i] = x
  BY <1>1, Elements
<1>6. batch \in Surjection(1..n, ToSet(batch))
  BY <1>4, <1>5 DEF Surjection
<1>7. IsFiniteSet(1..n)
  BY FS_Interval
<1>8. QED
  BY <1>6, <1>7, FS_Surjection

\* An advantage is a number.
LEMMA GrpoType ==
    ASSUME NEW S, NEW batch \in Seq(S), NEW row
    PROVE  Grpo(row, batch) \in Int
<1>1. PICK group :
          group = {x \in ToSet(batch) : GroupKey(x) = GroupKey(row)}
  OBVIOUS
<1>2. PICK good : good = {x \in group : Reward(x) = 1}
  OBVIOUS
<1>3. group \subseteq ToSet(batch) /\ good \subseteq ToSet(batch)
  BY <1>1, <1>2
<1>4. IsFiniteSet(group) /\ IsFiniteSet(good)
  BY <1>3, FiniteRows, FS_Subset
<1>5. Cardinality(group) \in Nat /\ Cardinality(good) \in Nat
  BY <1>4, FS_CardinalityType
<1>6. Reward(row) \in Int
  BY DEF Reward
<1>7. Grpo(row, batch) =
          IF Cardinality(group) = 1 THEN Reward(row)
          ELSE Cardinality(group) * Reward(row) - Cardinality(good)
  BY <1>1, <1>2 DEF Grpo
<1>8. Cardinality(group) * Reward(row) - Cardinality(good) \in Int
  BY <1>5, <1>6
<1>9. QED
  BY <1>6, <1>7, <1>8

\* The advantages of a batch are those of its rows as a set.
LEMMA GrpoOfSet ==
    ASSUME NEW b, NEW c, ToSet(b) = ToSet(c), NEW row
    PROVE  Grpo(row, b) = Grpo(row, c)
  BY DEF Grpo

\* A set and its image under a map that can be undone have the same size.
LEMMA SameSize ==
    ASSUME NEW S, IsFiniteSet(S), NEW T, NEW f \in [S -> T],
           \A x, y \in S : f[x] = f[y] => x = y,
           \A z \in T : \E x \in S : f[x] = z
    PROVE  Cardinality(T) = Cardinality(S)
<1>1. f \in Injection(S, T) /\ f \in Surjection(S, T)
  BY DEF Injection, IsInjective, Surjection
<1>2. ExistsBijection(S, T)
  BY <1>1 DEF Bijection, ExistsBijection
<1>3. QED
  BY <1>2, FS_Bijection

\* A row with its advantage is the same step.
LEMMA AdvisedRow ==
    ASSUME NEW b \in Seq(FreshSteps), NEW x \in FreshSteps
    PROVE  /\ Advised(x, b) \in Steps
           /\ Plain(Advised(x, b)) = x
           /\ Advised(x, b).last = x.last
           /\ Advised(x, b).ep = x.ep
           /\ Advised(x, b).uid = x.uid
           /\ Advised(x, b).step = x.step
           /\ Advised(x, b).adv = Grpo(x, b)
<1>1. x \in Row /\ x \in Steps /\ x.adv = 0
  BY DEF FreshSteps, Steps
<1>2. x = [uid |-> x.uid, ep |-> x.ep, step |-> x.step, last |-> x.last,
           pad |-> x.pad, adv |-> 0, near |-> x.near]
  BY <1>1 DEF Row
<1>3. Advised(x, b) =
          [uid |-> x.uid, ep |-> x.ep, step |-> x.step, last |-> x.last,
           pad |-> x.pad, adv |-> Grpo(x, b), near |-> x.near]
  BY <1>2 DEF Advised
<1>4. Plain(Advised(x, b)) = x
  BY <1>2, <1>3 DEF Plain
<1>5. Grpo(x, b) \in Int
  BY GrpoType
<1>6. Advised(x, b) \in Row
  BY <1>1, <1>3, <1>5 DEF Row
<1>7. Advised(x, b) \in Steps
  BY <1>1, <1>3, <1>6 DEF Steps
<1>8. QED
  BY <1>3, <1>4, <1>7

\* Giving every row its advantage changes no advantage: the groups stay what
\* they are.
LEMMA GrpoStays ==
    ASSUME NEW b \in Seq(FreshSteps), NEW c,
           ToSet(c) = {Advised(x, b) : x \in ToSet(b)},
           NEW row \in ToSet(b)
    PROVE  Grpo(Advised(row, b), c) = Grpo(row, b)
<1>1. ASSUME NEW x \in ToSet(b)
      PROVE  /\ Plain(Advised(x, b)) = x
             /\ Advised(x, b).ep = x.ep
             /\ Advised(x, b).uid = x.uid
             /\ Advised(x, b).step = x.step
  <2>1. x \in FreshSteps
    BY Elements
  <2>2. QED
    BY <2>1, AdvisedRow
<1>2. \A x \in ToSet(b) : /\ GroupKey(Advised(x, b)) = GroupKey(x)
                          /\ Reward(Advised(x, b)) = Reward(x)
  BY <1>1 DEF GroupKey, Reward, Answered
<1>3. ASSUME NEW G, G \subseteq ToSet(b), NEW H,
             H = {Advised(x, b) : x \in G}
      PROVE  Cardinality(H) = Cardinality(G)
  <2>1. IsFiniteSet(G)
    BY <1>3, FiniteRows, FS_Subset
  <2>2. PICK f : f = [x \in G |-> Advised(x, b)]
    OBVIOUS
  <2>3. f \in [G -> H] /\ \A z \in H : \E x \in G : f[x] = z
    BY <1>3, <2>2
  <2>4. \A x, y \in G : f[x] = f[y] => x = y
    <3>1. \A x \in G : Plain(f[x]) = x
      BY <1>1, <1>3, <2>2
    <3>2. QED
      BY <3>1
  <2>5. QED
    BY <2>1, <2>3, <2>4, SameSize
<1>4. PICK group : group = {x \in ToSet(b) : GroupKey(x) = GroupKey(row)}
  OBVIOUS
<1>5. PICK good : good = {x \in group : Reward(x) = 1}
  OBVIOUS
<1>6. PICK group2 : group2 = {Advised(x, b) : x \in group}
  OBVIOUS
<1>7. PICK good2 : good2 = {Advised(x, b) : x \in good}
  OBVIOUS
<1>8. group2 =
          {x \in ToSet(c) : GroupKey(x) = GroupKey(Advised(row, b))}
  BY <1>2, <1>4, <1>6
<1>9. good2 = {x \in group2 : Reward(x) = 1}
  BY <1>2, <1>4, <1>5, <1>6, <1>7
<1>10. /\ Cardinality(group2) = Cardinality(group)
       /\ Cardinality(good2) = Cardinality(good)
  BY <1>3, <1>4, <1>5, <1>6, <1>7
<1>11. Grpo(row, b) =
           IF Cardinality(group) = 1 THEN Reward(row)
           ELSE Cardinality(group) * Reward(row) - Cardinality(good)
  BY <1>4, <1>5 DEF Grpo
<1>12. Grpo(Advised(row, b), c) =
           IF Cardinality(group2) = 1 THEN Reward(Advised(row, b))
           ELSE Cardinality(group2) * Reward(Advised(row, b))
                    - Cardinality(good2)
  BY <1>8, <1>9 DEF Grpo
<1>13. Reward(Advised(row, b)) = Reward(row)
  BY <1>2
<1>14. QED
  BY <1>10, <1>11, <1>12, <1>13

\* The last steps have their advantages, and the other steps wait for them.
Waiting ==
    /\ rows \in Seq(Steps)
    /\ others \in Seq(FreshSteps)
    /\ \A row \in ToSet(rows) : /\ row.last
                                /\ Plain(row) \in FreshSteps
                                /\ row.adv = Grpo(row, rows)
    /\ \A row \in ToSet(others) : ~row.last
    /\ Ready({Plain(row) : row \in ToSet(rows)} \cup ToSet(others))

\* What is known of a last step.
LEMMA LastStep ==
    ASSUME Settings, Waiting, NEW row \in ToSet(rows)
    PROVE  /\ row \in Steps
           /\ row.ep \in Trajectories
           /\ row.uid = Prompts[row.ep]
           /\ row.step = nsteps[row.ep]
           /\ ~row.pad /\ row.last
           /\ row.adv \in Int /\ row.adv # NaN
           /\ Plain(row).last /\ Plain(row).ep = row.ep
           /\ Plain(row).uid = row.uid /\ Plain(row).step = row.step
<1>1. row \in Steps
  BY Elements DEF Waiting
<1>2. /\ row \in Row /\ row.last /\ row.uid = Prompts[row.ep]
      /\ row.last = (~row.pad /\ row.step = nsteps[row.ep])
  BY <1>1 DEF Steps, Waiting
<1>3. /\ row = [uid |-> row.uid, ep |-> row.ep, step |-> row.step,
                last |-> row.last, pad |-> row.pad, adv |-> row.adv,
                near |-> row.near]
      /\ row.ep \in Trajectories
  BY <1>2 DEF Row
<1>4. Plain(row) =
          [uid |-> row.uid, ep |-> row.ep, step |-> row.step,
           last |-> row.last, pad |-> row.pad, adv |-> 0,
           near |-> row.near]
  BY <1>3 DEF Plain
<1>5. row.adv = Grpo(row, rows) /\ rows \in Seq(Steps)
  BY DEF Waiting
<1>6. row.adv \in Int /\ row.adv # NaN
  BY <1>5, GrpoType, BatchAssumption
<1>7. ~row.pad /\ row.step = nsteps[row.ep]
  BY <1>2
<1>8. /\ Plain(row).last = row.last /\ Plain(row).ep = row.ep
      /\ Plain(row).uid = row.uid /\ Plain(row).step = row.step
  BY <1>4
<1>9. QED
  BY <1>1, <1>2, <1>3, <1>6, <1>7, <1>8

\* A lookup that fails means that the cut parted the trajectories of a task;
\* in the ppo trainer, which cuts by trajectory, none fails.
LEMMA LookupFails ==
    ASSUME Settings, Waiting, NEW r \in ToSet(others), Source(r) = {}
    PROVE  /\ ~Ppo
           /\ \E row \in ToSet(others), x \in ToSet(rows) :
                  /\ x.uid = row.uid
                  /\ ~row.pad
                  /\ row.ep \notin {y.ep : y \in ToSet(rows)}
<1>1. PICK B : B = {Plain(row) : row \in ToSet(rows)} \cup ToSet(others)
  OBVIOUS
<1>2. /\ \A row \in B : \E x \in B : x.last /\ KeptBy(x) = KeptBy(row)
      /\ \A row \in B : \E x \in B : ~x.pad /\ x.ep = row.ep
  BY <1>1 DEF Ready, Waiting
<1>3. \A y \in ToSet(rows) : y.ep # r.ep
  BY DEF Source
<1>4. PICK z \in B : ~z.pad /\ z.ep = r.ep
  BY <1>1, <1>2
<1>5. z \in ToSet(others)
  BY <1>1, <1>3, <1>4, LastStep
<1>6. PICK x \in B : x.last /\ KeptBy(x) = KeptBy(z)
  BY <1>2
<1>7. PICK y \in ToSet(rows) : x = Plain(y)
  BY <1>1, <1>6 DEF Waiting
<1>8. x.ep = y.ep /\ x.uid = y.uid
  BY <1>7, LastStep
<1>9. ~Ppo
  <2>1. ASSUME Ppo
        PROVE  x.ep = z.ep
    <3>1. <<x.uid, x.ep>> = <<z.uid, z.ep>>
      BY <1>6, <2>1 DEF KeptBy
    <3>2. QED
      BY <3>1
  <2>2. QED
    BY <1>3, <1>4, <1>8, <2>1
<1>10. y.uid = z.uid
  <2>1. <<x.uid>> = <<z.uid>>
    BY <1>6, <1>9 DEF KeptBy
  <2>2. QED
    BY <1>8, <2>1
<1>11. QED
  BY <1>3, <1>4, <1>5, <1>9, <1>10

\* A row with what it is handed of the last step of its trajectory.
Handed(row) ==
    LET src == CHOOSE x \in Source(row) : TRUE
    IN  [row EXCEPT !.adv = IF NoTokens(src) THEN NaN ELSE src.adv]

\* What a lookup that does not fail hands over.
LEMMA HandedRow ==
    ASSUME Settings, Waiting, NEW row \in ToSet(others), Source(row) # {}
    PROVE  /\ Handed(row) \in Steps
           /\ ~Handed(row).last
           /\ Handed(row).pad = row.pad
           /\ Handed(row).ep = row.ep
           /\ Handed(row).step = row.step
           /\ \E x \in ToSet(rows) :
                  /\ x.ep = row.ep
                  /\ Handed(row).adv = IF NoTokens(x) THEN NaN ELSE x.adv
<1>1. PICK src : src = CHOOSE x \in Source(row) : TRUE
  OBVIOUS
<1>2. src \in ToSet(rows) /\ src.ep = row.ep
  BY <1>1 DEF Source
<1>3. row \in Steps /\ ~row.last
  BY Elements DEF Waiting, FreshSteps
<1>4. /\ row \in Row /\ row.uid = Prompts[row.ep]
      /\ row.step <= nsteps[row.ep]
      /\ row.last = (~row.pad /\ row.step = nsteps[row.ep])
  BY <1>3 DEF Steps
<1>5. src.adv \in Int
  BY <1>2, LastStep
<1>6. PICK h : h = Handed(row)
  OBVIOUS
<1>7. PICK adv : adv = IF NoTokens(src) THEN NaN ELSE src.adv
  OBVIOUS
<1>8. h = [row EXCEPT !.adv = adv] /\ adv \in Int \cup {NaN}
  BY <1>1, <1>5, <1>6, <1>7 DEF Handed
<1>9. /\ h \in Row
      /\ h.uid = row.uid /\ h.ep = row.ep /\ h.step = row.step
      /\ h.last = row.last /\ h.pad = row.pad /\ h.adv = adv
  BY <1>4, <1>8 DEF Row
<1>10. h \in Steps
  BY <1>4, <1>9 DEF Steps
<1>11. QED
  BY <1>2, <1>3, <1>6, <1>7, <1>9, <1>10

\* The steps of every trajectory in C are all its steps, and have what the
\* broadcast hands over of the advantage of its last step.
Agreed(C) ==
    \A row \in C :
        /\ {x.step : x \in {y \in C : y.ep = row.ep}}
               = 1..nsteps[row.ep]
        /\ \E last \in C :
               /\ last.last /\ last.ep = row.ep
               /\ last.adv # NaN
               /\ row.adv = IF ~row.last /\ NoTokens(last) THEN NaN
                            ELSE last.adv

\* So have the rows that are trained after the broadcast.
LEMMA HandedOver ==
    ASSUME Settings, Waiting,
           \A row \in ToSet(others) : Source(row) # {},
           NEW c, c \in Seq(Steps),
           ToSet(c) = ToSet(rows) \cup {Handed(row) : row \in ToSet(others)}
    PROVE  /\ Agreed({row \in ToSet(c) : ~row.pad})
           /\ \A row \in ToSet(c) :
                  row.last => row.adv = Grpo(row, Lasts(c))
<1>1. PICK C : C = {row \in ToSet(c) : ~row.pad}
  OBVIOUS
<1>2. \A row \in C : row \in Steps
  BY <1>1, Elements
<1>3. ASSUME NEW row \in C
      PROVE  /\ row.ep \in Trajectories
             /\ row.step \in 1..nsteps[row.ep]
  <2>1. row \in Row /\ row.step <= nsteps[row.ep]
    BY <1>2 DEF Steps
  <2>2. row.ep \in Trajectories /\ row.step \in 1..MaxSteps
    BY <2>1 DEF Row
  <2>3. nsteps[row.ep] \in Nat /\ MaxSteps \in Nat
    BY <2>2, BatchAssumption DEF Settings
  <2>4. QED
    BY <2>1, <2>2, <2>3
<1>4. ASSUME NEW row \in C
      PROVE  \E x \in ToSet(rows) :
                 /\ x.ep = row.ep
                 /\ row.adv = IF ~row.last /\ NoTokens(x) THEN NaN
                              ELSE x.adv
  <2>1. CASE row \in ToSet(rows)
    BY <2>1, LastStep
  <2>2. CASE row \notin ToSet(rows)
    <3>1. PICK r \in ToSet(others) : row = Handed(r)
      BY <1>1, <2>2
    <3>2. Source(r) # {}
      OBVIOUS
    <3>3. QED
      BY <3>1, <3>2, HandedRow
  <2>3. QED
    BY <2>1, <2>2
<1>5. ASSUME NEW x \in ToSet(rows)
      PROVE  x \in C /\ x.last /\ x.adv # NaN
  BY <1>1, LastStep
<1>6. ASSUME NEW row \in C
      PROVE  \E last \in C :
                 /\ last.last /\ last.ep = row.ep
                 /\ last.adv # NaN
                 /\ row.adv = IF ~row.last /\ NoTokens(last) THEN NaN
                              ELSE last.adv
  BY <1>4, <1>5
<1>7. ASSUME NEW row \in C, NEW k \in 1..nsteps[row.ep]
      PROVE  \E y \in C : y.ep = row.ep /\ y.step = k
  <2>1. PICK x \in ToSet(rows) : x.ep = row.ep
    BY <1>4
  <2>2. PICK B :
            B = {Plain(r) : r \in ToSet(rows)} \cup ToSet(others)
    OBVIOUS
  <2>3. Plain(x) \in B /\ Plain(x).last /\ Plain(x).ep = row.ep
    BY <2>1, <2>2, LastStep
  <2>4. Whole(B, row.ep)
    <3>1. Ready(B)
      BY <2>2 DEF Waiting
    <3>2. QED
      BY <2>3, <3>1 DEF Ready
  <2>5. PICK s : s = StepRow(Prompts[row.ep], row.ep, k)
    OBVIOUS
  <2>6. s \in B
    BY <2>4, <2>5 DEF Whole
  <2>7. s.ep = row.ep /\ s.step = k /\ ~s.pad
    BY <1>3, <2>5, StepRowFresh
  <2>8. CASE s \in ToSet(others)
    <3>1. Handed(s) \in ToSet(c) /\ Source(s) # {}
      BY <2>8
    <3>2. ~Handed(s).pad /\ Handed(s).ep = row.ep /\ Handed(s).step = k
      BY <2>7, <2>8, <3>1, HandedRow
    <3>3. QED
      BY <1>1, <3>1, <3>2
  <2>9. CASE s \notin ToSet(others)
    <3>1. PICK y \in ToSet(rows) : s = Plain(y)
      BY <2>2, <2>6, <2>9
    <3>2. y.ep = row.ep /\ y.step = k /\ ~y.pad
      BY <2>7, <3>1, LastStep
    <3>3. QED
      BY <1>1, <3>2
  <2>10. QED
    BY <2>8, <2>9
<1>8. Agreed(C)
  <2>1. ASSUME NEW row \in C
        PROVE  {x.step : x \in {y \in C : y.ep = row.ep}}
                   = 1..nsteps[row.ep]
    <3>1. \A x \in {y \in C : y.ep = row.ep} :
              x.step \in 1..nsteps[row.ep]
      BY <1>3
    <3>2. \A k \in 1..nsteps[row.ep] :
              \E x \in {y \in C : y.ep = row.ep} : x.step = k
      BY <1>7
    <3>3. QED
      BY <3>1, <3>2
  <2>2. QED
    BY <1>6, <2>1 DEF Agreed
<1>9. ASSUME NEW row \in ToSet(c), row.last
      PROVE  row.adv = Grpo(row, Lasts(c))
  <2>1. ASSUME NEW x \in ToSet(c), x.last
        PROVE  x \in ToSet(rows)
    <3>1. ASSUME NEW r \in ToSet(others)
          PROVE  ~Handed(r).last
      BY HandedRow
    <3>2. QED
      BY <2>1, <3>1
  <2>2. row \in ToSet(rows)
    BY <1>9, <2>1
  <2>3. row.adv = Grpo(row, rows)
    BY <2>2 DEF Waiting
  <2>4. ToSet(Lasts(c)) = ToSet(rows)
    <3>1. ToSet(Lasts(c)) = {x \in ToSet(c) : x.last}
      BY Parts
    <3>2. \A x \in ToSet(rows) : x \in ToSet(c) /\ x.last
      BY DEF Waiting
    <3>3. QED
      BY <2>1, <3>1, <3>2
  <2>5. Grpo(row, rows) = Grpo(row, Lasts(c))
    BY <2>4, GrpoOfSet
  <2>6. QED
    BY <2>3, <2>5
<1>10. QED
  BY <1>1, <1>8, <1>9

-------------------------------------------------------------------------------
(* The inductive invariant *)

\* The names that stage and outcome go through; the outcome comes at the end.
Names ==
    /\ stage \in {"collect", "reject", "logprob", "split", "advantage",
                  "broadcast", "reshape", "pad", "update", "over"}
    /\ outcome \in {"none", "skipped", "empty", "KeyError",
                    "RuntimeError", "trained"}
    /\ stage # "over" => outcome = "none"

\* Rows are steps of their trajectories, without an advantage at first.
Rowed ==
    /\ rows \in Seq(Steps)
    /\ others \in Seq(FreshSteps)
    /\ stage \in {"collect", "reject", "logprob", "split", "advantage"}
          => rows \in Seq(FreshSteps)

\* Before rejection sampling trajectories are whole, and there is padding
\* only in the ppo trainer.
Collected ==
    stage = "reject" =>
        \A row \in ToSet(rows) :
            /\ Whole(ToSet(rows), row.ep)
            /\ ~Ppo => ~row.pad

\* From the cut to the broadcast the rows are ready for their advantages.
Kept ==
    /\ Broadcast /\ stage \in {"logprob", "split"} => Ready(ToSet(rows))
    /\ Broadcast /\ stage = "advantage" =>
           /\ \A row \in ToSet(rows) : row.last
           /\ \A row \in ToSet(others) : ~row.last
           /\ Ready(ToSet(rows) \cup ToSet(others))
    /\ stage = "broadcast" => Broadcast /\ Waiting

\* The groups' size divides the batch of the ppo trainer from the start.
Sized ==
    /\ stage = "reject" /\ Ppo => Len(rows) % world = 0
    /\ BatchDivides

\* After the broadcast trajectories are whole and agree with their last step.
Trained ==
    Broadcast /\ stage \in {"reshape", "pad", "update"} =>
        /\ Agreed({row \in ToSet(rows) : ~row.pad})
        /\ stage = "reshape" =>
               \A row \in ToSet(rows) :
                   row.last => row.adv = Grpo(row, Lasts(rows))

IInv ==
    /\ Settings
    /\ Names
    /\ Rowed
    /\ Collected
    /\ Kept
    /\ Sized
    /\ Trained
    /\ KeyErrorNeedsASplitTask

\* Settings do not change, and what is said of rows in their terms stays.
LEMMA Stay ==
    ASSUME inputs' = inputs
    PROVE  /\ Steps' = Steps /\ FreshSteps' = FreshSteps
           /\ Settings => Settings'
           /\ \A B : Ready(B)' <=> Ready(B)
           /\ \A B : Agreed(B)' <=> Agreed(B)
           /\ \A B, t : Whole(B, t)' <=> Whole(B, t)
           /\ \A row, batch : Grpo(row, batch)' = Grpo(row, batch)
           /\ \A row : NoTokens(row)' <=> NoTokens(row)
           /\ (Ppo' <=> Ppo) /\ (Broadcast' <=> Broadcast)
           /\ rejects' = rejects /\ actors' = actors /\ world' = world
<1>1. /\ trainer' = trainer /\ mode' = mode /\ rejects' = rejects
      /\ actors' = actors /\ world' = world /\ wanted' = wanted
      /\ nsteps' = nsteps /\ solved' = solved /\ silent' = silent
      /\ masked' = masked
  BY DEF inputs
<1>2. Steps' = Steps /\ FreshSteps' = FreshSteps
  BY <1>1 DEF Steps, FreshSteps
<1>3. Settings => Settings'
  BY <1>1 DEF Settings
<1>4. \A B, t : Whole(B, t)' <=> Whole(B, t)
  BY <1>1 DEF Whole, StepRow
<1>5. \A B : Ready(B)' <=> Ready(B)
  BY <1>1 DEF Ready, Whole, StepRow, KeptBy, Ppo
<1>6. \A row : NoTokens(row)' <=> NoTokens(row)
  BY <1>1 DEF NoTokens, Answered, Ppo
<1>7. \A B : Agreed(B)' <=> Agreed(B)
  BY <1>1, <1>6 DEF Agreed
<1>8. \A row : Reward(row)' = Reward(row)
  BY <1>1 DEF Reward, Answered
<1>9. \A row, batch : Grpo(row, batch)' = Grpo(row, batch)
  BY <1>1, <1>8 DEF Grpo, GroupKey, Ppo, Broadcast
<1>10. (Ppo' <=> Ppo) /\ (Broadcast' <=> Broadcast)
  BY <1>1 DEF Ppo, Broadcast
<1>11. QED
  BY <1>1, <1>2, <1>3, <1>4, <1>5, <1>6, <1>7, <1>9, <1>10

\* The last steps wait with the advantages they were given.
LEMMA WaitingNext ==
    ASSUME inputs' = inputs,
           rows' \in Seq(Steps),
           others' \in Seq(FreshSteps),
           \A row \in ToSet(rows') : /\ row.last
                                     /\ Plain(row) \in FreshSteps
                                     /\ row.adv = Grpo(row, rows'),
           \A row \in ToSet(others') : ~row.last,
           Ready({Plain(row) : row \in ToSet(rows')} \cup ToSet(others'))
    PROVE  Waiting'
<1>1. \A row : (Plain(row))' = Plain(row)
  BY DEF Plain
<1>2. \A row, batch : (Grpo(row, batch))' = Grpo(row, batch)
  BY Stay
<1>3. FreshSteps' = FreshSteps /\ Steps' = Steps
  BY Stay
<1>4. (\A row \in ToSet(rows) : /\ row.last
                                /\ Plain(row) \in FreshSteps
                                /\ row.adv = Grpo(row, rows))'
  BY <1>1, <1>2, <1>3
<1>5. PICK R : R = {Plain(row) : row \in ToSet(rows')}
  OBVIOUS
<1>6. R = {Plain(row) : row \in ToSet(rows)}'
  BY <1>5 DEF Plain
<1>7. Ready(R \cup ToSet(others'))
  BY <1>5
<1>8. (Ready({Plain(row) : row \in ToSet(rows)} \cup ToSet(others)))'
  BY <1>6, <1>7, Stay
<1>9. QED
  BY <1>3, <1>4, <1>8 DEF Waiting

\* The end of an iteration leaves the rows as they are.
LEMMA Ended ==
    ASSUME IInv, NEW how, End(how),
           how \in {"none", "skipped", "empty", "RuntimeError", "trained"}
    PROVE  IInv'
<1>1. /\ stage' = "over" /\ outcome' = how
      /\ inputs' = inputs /\ rows' = rows /\ others' = others
  BY DEF End, inputs
<1>2. Settings' /\ Names'
  BY <1>1, Stay DEF IInv, Names
<1>3. Rowed'
  BY <1>1, Stay DEF IInv, Rowed
<1>4. Collected' /\ Kept' /\ Sized' /\ Trained'
  BY <1>1 DEF Collected, Kept, Sized, BatchDivides, Trained
<1>5. KeyErrorNeedsASplitTask'
  BY <1>1 DEF KeyErrorNeedsASplitTask
<1>6. QED
  BY <1>2, <1>3, <1>4, <1>5 DEF IInv

\* What a step that does not end the iteration has to show.
LEMMA GoesOn ==
    ASSUME IInv, stage # "over", inputs' = inputs, outcome' = outcome,
           Names', Rowed', Collected', Kept', Sized', Trained'
    PROVE  IInv'
<1>1. Settings'
  BY Stay DEF IInv
<1>2. KeyErrorNeedsASplitTask'
  BY DEF KeyErrorNeedsASplitTask, IInv, Names
<1>3. QED
  BY <1>1, <1>2 DEF IInv

-------------------------------------------------------------------------------
(* The steps *)

\* An iteration starts with nothing collected.
LEMMA InitIInv == Init => IInv
<1> SUFFICES ASSUME Init
             PROVE  IInv
  OBVIOUS
<1>1. Settings
  <2>1. wanted \in Wanted \cup {1}
    BY DEF Init
  <2>2. nsteps \in [Trajectories -> 0..MaxSteps]
    <3>1. (IF Ppo THEN 1 ELSE 0)..MaxSteps \subseteq 0..MaxSteps
      OBVIOUS
    <3>2. QED
      BY <3>1 DEF Init
  <2>3. QED
    BY <2>1, <2>2, BatchAssumption DEF Init, Settings
<1>2. Names /\ Rowed
  BY EmptySeq DEF Init, Names, Rowed
<1>3. Collected /\ Kept /\ Sized /\ Trained /\ KeyErrorNeedsASplitTask
  BY DEF Init, Collected, Kept, Sized, BatchDivides, Trained,
         KeyErrorNeedsASplitTask
<1>4. QED
  BY <1>1, <1>2, <1>3 DEF IInv

\* The rows that are collected are whole trajectories.
LEMMA GenerateKeeps == IInv /\ Generate => IInv'
<1> SUFFICES ASSUME IInv, Generate
             PROVE  IInv'
  OBVIOUS
<1>1. PICK order \in Arrivals :
          LET all == RowsOf(Arranged(order))
          IN  IF all = <<>> THEN End("empty")
              ELSE /\ rows' = IF Ppo THEN Padded(all) ELSE all
                   /\ stage' = "reject"
                   /\ UNCHANGED <<inputs, others, outcome>>
  BY DEF Generate
<1>2. PICK all : all = RowsOf(Arranged(order))
  OBVIOUS
<1>3. Settings /\ stage = "collect"
  BY DEF Generate, IInv
<1>4. AllWhole(all)
  BY <1>2, <1>3, ArrangedRight, RowsOfWhole
<1>5. CASE all = <<>>
  BY <1>1, <1>2, <1>5, Ended
<1>6. CASE all # <<>>
  <2>1. /\ rows' = IF Ppo THEN Padded(all) ELSE all
        /\ stage' = "reject"
        /\ inputs' = inputs /\ others' = others /\ outcome' = outcome
    BY <1>1, <1>2, <1>6
  <2>2. all \in Seq(FreshSteps)
    BY <1>4 DEF AllWhole
  <2>3. Padded(all) \in Seq(FreshSteps) /\ IsPadded(Padded(all), all)
    BY <1>3, <2>2, PaddedRows
  <2>4. rows' \in Seq(FreshSteps)
    BY <2>1, <2>2, <2>3
  <2>5. ASSUME NEW row \in ToSet(rows')
        PROVE  Whole(ToSet(rows'), row.ep) /\ (~Ppo => ~row.pad)
    <3>1. CASE Ppo
      <4>1. ToSet(all) \subseteq ToSet(rows')
        BY <2>1, <2>3, <3>1 DEF IsPadded
      <4>2. PICK x \in ToSet(all) : x.ep = row.ep
        <5>1. CASE row \in ToSet(all)
          BY <5>1
        <5>2. CASE row \notin ToSet(all)
          <6>1. PICK x \in ToSet(all) : row = Pad(x)
            BY <2>1, <2>3, <3>1, <5>2 DEF IsPadded
          <6>2. x \in Steps
            BY <2>2, Elements DEF FreshSteps
          <6>3. QED
            BY <6>1, <6>2, PadIsStep
        <5>3. QED
          BY <5>1, <5>2
      <4>3. Whole(ToSet(all), row.ep)
        BY <1>4, <4>2 DEF AllWhole
      <4>4. QED
        BY <3>1, <4>1, <4>3 DEF Whole
    <3>2. CASE ~Ppo
      BY <1>4, <2>1, <3>2 DEF AllWhole
    <3>3. QED
      BY <3>1, <3>2
  <2>6. Names' /\ Kept' /\ Trained'
    BY <1>3, <2>1 DEF Names, Kept, Trained, IInv
  <2>7. Rowed'
    <3>1. rows' \in Seq(Steps)
      BY <2>4, Elements, Retyped DEF FreshSteps
    <3>2. QED
      BY <2>1, <2>4, <3>1, Stay DEF Rowed, IInv
  <2>8. Collected'
    BY <2>1, <2>5, Stay DEF Collected
  <2>9. Sized'
    <3>1. Ppo => Len(rows') % world = 0
      BY <2>1, <2>3 DEF IsPadded
    <3>2. QED
      BY <2>1, <3>1, Stay DEF Sized, BatchDivides
  <2>10. QED
    BY <1>3, <2>1, <2>6, <2>7, <2>8, <2>9, GoesOn
<1>7. QED
  BY <1>5, <1>6

\* After the cut or the rejection: the rows go to the worker group.
LEMMA ToLogProb ==
    ASSUME IInv, stage # "over", stage' = "logprob",
           inputs' = inputs, others' = others, outcome' = outcome,
           rows' \in Seq(FreshSteps),
           Broadcast => Ready(ToSet(rows')),
           IF Ppo /\ rejects /\ ~Broadcast THEN Len(rows') % actors = 0
           ELSE Len(rows') % world = 0
    PROVE  IInv'
<1>1. Names' /\ Collected' /\ Trained'
  BY DEF Names, Collected, Trained, IInv
<1>2. Rowed'
  <2>1. rows' \in Seq(Steps)
    BY Elements, Retyped DEF FreshSteps
  <2>2. QED
    BY <2>1, Stay DEF Rowed, IInv
<1>3. Kept'
  BY Stay DEF Kept
<1>4. Sized'
  <2>1. Len(rows') \in Nat
    OBVIOUS
  <2>2. Len(rows') % actors = 0
    BY <2>1, SomeWorld DEF IInv
  <2>3. QED
    BY <2>2, Stay DEF Sized, BatchDivides
<1>5. QED
  BY <1>1, <1>2, <1>3, <1>4, GoesOn

\* The rows that were cut and padded are ready.
LEMMA CutAndPadded ==
    ASSUME Settings, NEW batch, AllWhole(batch)
    PROVE  /\ Padded(Cut(batch)) \in Seq(FreshSteps)
           /\ Ready(ToSet(Padded(Cut(batch))))
           /\ Len(Padded(Cut(batch))) % world = 0
<1>1. PICK b : b = Cut(batch)
  OBVIOUS
<1>2. /\ b \in Seq(FreshSteps)
      /\ ToSet(b) \subseteq ToSet(batch)
      /\ Ready(ToSet(b))
  BY <1>1, CutReady
<1>3. Padded(b) \in Seq(FreshSteps) /\ IsPadded(Padded(b), b)
  BY <1>2, PaddedRows
<1>4. \A row \in ToSet(b) : ~row.pad
  BY <1>2 DEF AllWhole
<1>5. ToSet(b) \subseteq Steps
  BY <1>2, Elements DEF FreshSteps
<1>6. ToSet(b) \subseteq ToSet(Padded(b))
  BY <1>3, <1>4 DEF IsPadded
<1>7. \A row \in ToSet(Padded(b)) : row \notin ToSet(b) =>
          \E x \in ToSet(b) : row = Pad(x)
  BY <1>3 DEF IsPadded
<1>8. Ready(ToSet(Padded(b)))
  BY <1>2, <1>5, <1>6, <1>7, PaddedReady
<1>9. QED
  BY <1>1, <1>3, <1>8 DEF IsPadded

\* The workflow trainer cuts without rejecting too.
LEMMA KeepAllKeeps == IInv /\ KeepAll => IInv'
<1> SUFFICES ASSUME IInv, KeepAll
             PROVE  IInv'
  OBVIOUS
<1>1. /\ Settings /\ stage = "reject" /\ stage' = "logprob" /\ ~rejects
      /\ inputs' = inputs /\ others' = others /\ outcome' = outcome
      /\ rows' = IF Ppo THEN rows
                 ELSE IF Broadcast THEN Padded(Cut(rows)) ELSE Padded(rows)
  BY DEF KeepAll, IInv
<1>2. /\ rows \in Seq(FreshSteps)
      /\ \A row \in ToSet(rows) : Whole(ToSet(rows), row.ep)
      /\ ~Ppo => \A row \in ToSet(rows) : ~row.pad
  BY <1>1 DEF IInv, Rowed, Collected
<1>3. CASE Ppo
  <2>1. rows' = rows
    BY <1>1, <1>3
  <2>2. ToSet(rows) \subseteq FreshSteps
    BY <1>2, Elements
  <2>3. Ready(ToSet(rows))
    BY <1>1, <1>2, <2>2, WholeReady
  <2>4. Len(rows) % world = 0
    BY <1>1, <1>3 DEF IInv, Sized
  <2>5. QED
    BY <1>1, <1>2, <2>1, <2>3, <2>4, ToLogProb
<1>4. CASE ~Ppo /\ Broadcast
  <2>1. rows' = Padded(Cut(rows))
    BY <1>1, <1>4
  <2>2. AllWhole(rows)
    BY <1>2, <1>4 DEF AllWhole
  <2>3. QED
    BY <1>1, <2>1, <2>2, CutAndPadded, ToLogProb
<1>5. CASE ~Ppo /\ ~Broadcast
  <2>1. rows' = Padded(rows)
    BY <1>1, <1>5
  <2>2. Padded(rows) \in Seq(FreshSteps) /\ IsPadded(Padded(rows), rows)
    BY <1>1, <1>2, PaddedRows
  <2>3. QED
    BY <1>1, <1>5, <2>1, <2>2, ToLogProb DEF IsPadded
<1>6. QED
  BY <1>3, <1>4, <1>5

\* What a rejection leaves of a prompt is left whole, and then cut.
LEMMA RejectKeeps == IInv /\ Reject => IInv'
<1> SUFFICES ASSUME IInv, Reject
             PROVE  IInv'
  OBVIOUS
<1>1. Settings /\ stage = "reject" /\ rejects
  BY DEF Reject, IInv
<1>2. /\ rows \in Seq(FreshSteps)
      /\ \A row \in ToSet(rows) : Whole(ToSet(rows), row.ep)
  BY <1>1 DEF IInv, Rowed, Collected
<1>3. CASE Drawn = {} /\ End("skipped")
  BY <1>3, Ended
<1>4. ASSUME NEW uids \in Drawn,
             LET left == Select(rows, {x \in ToSet(rows) : x.uid \in uids})
                 kept == IF Broadcast THEN Cut(NoPads(left))
                         ELSE IF Ppo THEN RoundDown(left) ELSE left
             IN  IF Ppo /\ kept = <<>> THEN End("skipped")
                 ELSE /\ rows' = IF Broadcast \/ ~Ppo THEN Padded(kept)
                                 ELSE kept
                      /\ stage' = "logprob"
                      /\ UNCHANGED <<inputs, others, outcome>>
      PROVE  IInv'
  <2>1. PICK T : T = {x \in ToSet(rows) : x.uid \in uids}
    OBVIOUS
  <2>2. PICK left : left = Select(rows, T)
    OBVIOUS
  <2>3. left \in Seq(FreshSteps) /\ ToSet(left) = T
    <3>1. ToSet(left) = ToSet(rows) \cap T
      BY <1>2, <2>2, SelectElements
    <3>2. QED
      BY <1>2, <2>1, <2>2, <3>1, SelectPlaces
  <2>4. PICK kept : kept = IF Broadcast THEN Cut(NoPads(left))
                           ELSE IF Ppo THEN RoundDown(left) ELSE left
    OBVIOUS
  <2>5. CASE Ppo /\ kept = <<>>
    <3>1. End("skipped")
      BY <1>4, <2>1, <2>2, <2>4, <2>5
    <3>2. QED
      BY <3>1, Ended
  <2>6. CASE ~(Ppo /\ kept = <<>>)
    <3>1. /\ rows' = IF Broadcast \/ ~Ppo THEN Padded(kept) ELSE kept
          /\ stage' = "logprob"
          /\ inputs' = inputs /\ others' = others /\ outcome' = outcome
      BY <1>4, <2>1, <2>2, <2>4, <2>6
    <3>2. CASE Broadcast
      <4>1. PICK batch : batch = NoPads(left)
        OBVIOUS
      <4>2. /\ batch \in Seq(FreshSteps)
            /\ ToSet(batch) = {row \in T : ~row.pad}
        BY <2>3, <4>1, Parts
      <4>3. ASSUME NEW row \in ToSet(batch)
            PROVE  Whole(ToSet(batch), row.ep)
        <5>1. /\ row \in ToSet(rows) /\ row.uid \in uids /\ ~row.pad
              /\ row \in FreshSteps
          BY <2>1, <4>2, Elements
        <5>2. PICK t \in Trajectories : t = row.ep /\ row.uid = Prompts[t]
          BY <1>1, <5>1, OnlyStepRows DEF FreshSteps, Steps
        <5>3. Whole(ToSet(rows), t)
          BY <1>2, <5>1, <5>2
        <5>4. ASSUME NEW k \in 1..nsteps[t]
              PROVE  StepRow(Prompts[t], t, k) \in ToSet(batch)
          <6>1. PICK x : x = StepRow(Prompts[t], t, k)
            OBVIOUS
          <6>2. x \in ToSet(rows)
            BY <5>3, <6>1 DEF Whole
          <6>3. ~x.pad /\ x.uid = Prompts[t]
            BY <1>1, <6>1, StepRowFresh
          <6>4. QED
            BY <2>1, <4>2, <5>1, <5>2, <6>1, <6>2, <6>3
        <5>5. QED
          BY <5>2, <5>4 DEF Whole
      <4>4. AllWhole(batch)
        BY <4>2, <4>3 DEF AllWhole
      <4>5. rows' = Padded(Cut(batch))
        BY <2>4, <3>1, <3>2, <4>1
      <4>6. /\ rows' \in Seq(FreshSteps)
            /\ Ready(ToSet(rows'))
            /\ Len(rows') % world = 0
        BY <1>1, <4>4, <4>5, CutAndPadded
      <4>7. QED
        BY <1>1, <3>1, <3>2, <4>6, ToLogProb
    <3>3. CASE ~Broadcast /\ Ppo
      <4>1. rows' = RoundDown(left)
        BY <2>4, <3>1, <3>3
      <4>2. /\ RoundDown(left) \in Seq(FreshSteps)
            /\ Len(RoundDown(left)) % actors = 0
        BY <1>1, <2>3, SomeWorld, RoundDownRows
      <4>3. QED
        BY <1>1, <3>1, <3>3, <4>1, <4>2, ToLogProb
    <3>4. CASE ~Broadcast /\ ~Ppo
      <4>1. rows' = Padded(left)
        BY <2>4, <3>1, <3>4
      <4>2. Padded(left) \in Seq(FreshSteps) /\ IsPadded(Padded(left), left)
        BY <1>1, <2>3, PaddedRows
      <4>3. QED
        BY <1>1, <3>1, <3>4, <4>1, <4>2, ToLogProb DEF IsPadded
    <3>5. QED
      BY <3>2, <3>3, <3>4
  <2>7. QED
    BY <2>5, <2>6
<1>5. QED
  BY <1>3, <1>4 DEF Reject

\* The worker group leaves the rows as they are.
LEMMA LogProbKeeps == IInv /\ LogProb => IInv'
<1> SUFFICES ASSUME IInv, LogProb
             PROVE  IInv'
  OBVIOUS
<1>1. CASE rows = <<>>
  BY <1>1, Ended DEF LogProb
<1>2. CASE rows # <<>>
  <2>1. /\ stage = "logprob" /\ stage' = "split"
        /\ inputs' = inputs /\ rows' = rows
        /\ others' = others /\ outcome' = outcome
    BY <1>2 DEF LogProb
  <2>2. Names' /\ Collected' /\ Trained' /\ Sized'
    BY <2>1 DEF Names, Collected, Trained, Sized, BatchDivides, IInv
  <2>3. Rowed'
    BY <2>1, Stay DEF Rowed, IInv
  <2>4. Kept'
    BY <2>1, Stay DEF Kept, IInv
  <2>5. QED
    BY <2>1, <2>2, <2>3, <2>4, GoesOn
<1>3. QED
  BY <1>1, <1>2

\* Last steps and other steps are together what the batch was.
LEMMA SplitKeeps == IInv /\ Split => IInv'
<1> SUFFICES ASSUME IInv, Split
             PROVE  IInv'
  OBVIOUS
<1>1. /\ stage = "split" /\ stage' = "advantage"
      /\ others' = IF Broadcast THEN Nonlasts(rows) ELSE <<>>
      /\ rows' = IF Broadcast THEN Lasts(rows) ELSE NoPads(rows)
      /\ inputs' = inputs /\ outcome' = outcome
  BY DEF Split
<1>2. rows \in Seq(FreshSteps)
  BY <1>1 DEF IInv, Rowed
<1>3. rows' \in Seq(FreshSteps) /\ others' \in Seq(FreshSteps)
  BY <1>1, <1>2, Parts, EmptySeq
<1>4. Names' /\ Collected' /\ Trained' /\ Sized'
  BY <1>1 DEF Names, Collected, Trained, Sized, BatchDivides, IInv
<1>5. Rowed'
  <2>1. rows' \in Seq(Steps)
    BY <1>3, Elements, Retyped DEF FreshSteps
  <2>2. QED
    BY <1>1, <1>3, <2>1, Stay DEF Rowed
<1>6. Kept'
  <2>1. CASE ~Broadcast
    BY <1>1, <2>1, Stay DEF Kept
  <2>2. CASE Broadcast
    <3>1. /\ ToSet(rows') = {row \in ToSet(rows) : row.last}
          /\ ToSet(others') = {row \in ToSet(rows) : ~row.last}
      BY <1>1, <1>2, <2>2, Parts
    <3>2. ToSet(rows') \cup ToSet(others') = ToSet(rows)
      BY <3>1
    <3>3. Ready(ToSet(rows') \cup ToSet(others'))
      BY <1>1, <2>2, <3>2 DEF IInv, Kept
    <3>4. QED
      BY <1>1, <3>1, <3>3, Stay DEF Kept
  <2>3. QED
    BY <2>1, <2>2
<1>7. QED
  BY <1>1, <1>4, <1>5, <1>6, GoesOn

\* Only the last steps get their advantages.
LEMMA AdvantageKeeps == IInv /\ Advantage => IInv'
<1> SUFFICES ASSUME IInv, Advantage
             PROVE  IInv'
  OBVIOUS
<1>1. /\ stage = "advantage"
      /\ stage' = IF Broadcast THEN "broadcast" ELSE "reshape"
      /\ inputs' = inputs /\ others' = others /\ outcome' = outcome
  BY DEF Advantage
<1>2. rows \in Seq(FreshSteps) /\ others \in Seq(FreshSteps)
  BY <1>1 DEF IInv, Rowed
<1>3. PICK n \in Nat : n = Len(rows)
  BY <1>2
<1>4. rows' = [i \in 1..n |-> Advised(rows[i], rows)]
  BY <1>2, <1>3 DEF Advantage, Advised
<1>5. \A i \in 1..n : rows[i] \in FreshSteps
  BY <1>2, <1>3
<1>6. rows' \in Seq(Steps) /\ Len(rows') = n
  <2>1. \A i \in 1..n : Advised(rows[i], rows) \in Steps
    BY <1>2, <1>5, AdvisedRow
  <2>2. rows' \in [1..n -> Steps]
    BY <1>4, <2>1
  <2>3. QED
    BY <2>2
<1>7. ToSet(rows') = {Advised(x, rows) : x \in ToSet(rows)}
  <2>1. ToSet(rows') = {rows'[i] : i \in 1..n}
    BY <1>6 DEF ToSet
  <2>2. ToSet(rows) = {rows[i] : i \in 1..n}
    BY <1>2, <1>3 DEF ToSet
  <2>3. QED
    BY <1>4, <2>1, <2>2
<1>8. Names' /\ Collected' /\ Sized'
  BY <1>1 DEF Names, Collected, Sized, BatchDivides, IInv
<1>9. Rowed'
  BY <1>1, <1>2, <1>6, Stay DEF Rowed
<1>10. Trained'
  BY <1>1, Stay DEF Trained
<1>11. Kept'
  <2>1. CASE ~Broadcast
    BY <2>1, Stay, <1>1 DEF Kept
  <2>2. CASE Broadcast
    <3>1. /\ \A row \in ToSet(rows) : row.last
          /\ \A row \in ToSet(others) : ~row.last
          /\ Ready(ToSet(rows) \cup ToSet(others))
      BY <1>1, <2>2 DEF IInv, Kept
    <3>2. \A x \in ToSet(rows) : x \in FreshSteps
      BY <1>2, Elements
    <3>3. ASSUME NEW row \in ToSet(rows')
          PROVE  /\ row.last
                 /\ Plain(row) \in FreshSteps
                 /\ row.adv = Grpo(row, rows')
      <4>1. PICK x \in ToSet(rows) : row = Advised(x, rows)
        BY <1>7
      <4>2. /\ row.last = x.last /\ Plain(row) = x
            /\ row.adv = Grpo(x, rows)
        BY <1>2, <3>2, <4>1, AdvisedRow
      <4>3. Grpo(row, rows') = Grpo(x, rows)
        BY <1>2, <1>7, <4>1, GrpoStays
      <4>4. QED
        BY <3>1, <3>2, <4>1, <4>2, <4>3
    <3>4. {Plain(row) : row \in ToSet(rows')} = ToSet(rows)
      <4>1. \A x \in ToSet(rows) : Plain(Advised(x, rows)) = x
        BY <1>2, <3>2, AdvisedRow
      <4>2. QED
        BY <1>7, <4>1
    <3>5. Ready({Plain(row) : row \in ToSet(rows')} \cup ToSet(others'))
      BY <1>1, <3>1, <3>4
    <3>6. Waiting'
      BY <1>1, <1>2, <1>6, <3>1, <3>3, <3>5, WaitingNext
    <3>7. QED
      BY <1>1, <2>2, <3>6, Stay DEF Kept
  <2>3. QED
    BY <2>1, <2>2
<1>12. QED
  BY <1>1, <1>8, <1>9, <1>10, <1>11, GoesOn

\* The advantages are handed over, or a lookup fails.
LEMMA BroadcastKeeps == IInv /\ BroadcastAdvantage => IInv'
<1> SUFFICES ASSUME IInv, BroadcastAdvantage
             PROVE  IInv'
  OBVIOUS
<1>1. Settings /\ stage = "broadcast"
  BY DEF BroadcastAdvantage, IInv
<1>2. CASE others = <<>>
  BY <1>2, Ended DEF BroadcastAdvantage
<1>3. CASE /\ others # <<>>
           /\ \E row \in ToSet(others) : Source(row) = {}
  <2>1. End("KeyError")
    BY <1>3 DEF BroadcastAdvantage
  <2>2. /\ stage' = "over" /\ outcome' = "KeyError"
        /\ inputs' = inputs /\ rows' = rows /\ others' = others
    BY <2>1 DEF End
  <2>3. Waiting
    BY <1>1 DEF IInv, Kept
  <2>4. /\ ~Ppo
        /\ \E row \in ToSet(others), x \in ToSet(rows) :
               /\ x.uid = row.uid
               /\ ~row.pad
               /\ row.ep \notin {y.ep : y \in ToSet(rows)}
    BY <1>1, <1>3, <2>3, LookupFails
  <2>5. KeyErrorNeedsASplitTask'
    BY <2>2, <2>4, Stay DEF KeyErrorNeedsASplitTask
  <2>6. Settings' /\ Names'
    BY <2>2, Stay DEF IInv, Names
  <2>7. Rowed'
    BY <2>2, Stay DEF IInv, Rowed
  <2>8. Collected' /\ Kept' /\ Sized' /\ Trained'
    BY <2>2 DEF Collected, Kept, Sized, BatchDivides, Trained
  <2>9. QED
    BY <2>5, <2>6, <2>7, <2>8 DEF IInv
<1>4. CASE /\ others # <<>>
           /\ \A row \in ToSet(others) : Source(row) # {}
  <2>1. /\ rows' = rows \o [i \in DOMAIN others |-> Handed(others[i])]
        /\ others' = <<>> /\ stage' = "reshape"
        /\ inputs' = inputs /\ outcome' = outcome
    BY <1>4 DEF BroadcastAdvantage, Handed
  <2>2. Broadcast /\ Waiting
    BY <1>1 DEF IInv, Kept, Names
  <2>3. rows \in Seq(Steps) /\ others \in Seq(FreshSteps)
    BY <2>2 DEF Waiting
  <2>4. PICK n \in Nat : n = Len(others)
    BY <2>3
  <2>5. PICK handed : handed = [i \in 1..n |-> Handed(others[i])]
    OBVIOUS
  <2>6. rows' = rows \o handed
    <3>1. DOMAIN others = 1..n
      BY <2>3, <2>4
    <3>2. QED
      BY <2>1, <2>5, <3>1
  <2>7. \A i \in 1..n : others[i] \in ToSet(others)
    BY <2>3, <2>4, Elements
  <2>8. handed \in Seq(Steps) /\ Len(handed) = n
    <3>1. \A i \in 1..n : Handed(others[i]) \in Steps
      BY <1>1, <1>4, <2>2, <2>7, HandedRow
    <3>2. handed \in [1..n -> Steps]
      BY <2>5, <3>1
    <3>3. QED
      BY <3>2
  <2>9. ToSet(handed) = {Handed(row) : row \in ToSet(others)}
    <3>1. ToSet(handed) = {handed[i] : i \in 1..n}
      BY <2>8 DEF ToSet
    <3>2. ToSet(others) = {others[i] : i \in 1..n}
      BY <2>3, <2>4 DEF ToSet
    <3>3. QED
      BY <2>5, <3>1, <3>2
  <2>10. /\ rows' \in Seq(Steps)
         /\ ToSet(rows') = ToSet(rows) \cup ToSet(handed)
    BY <2>3, <2>6, <2>8, ConcatElements
  <2>11. /\ Agreed({row \in ToSet(rows') : ~row.pad})
         /\ \A row \in ToSet(rows') :
                row.last => row.adv = Grpo(row, Lasts(rows'))
    BY <1>1, <1>4, <2>2, <2>9, <2>10, HandedOver
  <2>12. Trained'
    <3>1. \A row, batch : (Grpo(row, batch))' = Grpo(row, batch)
      BY <2>1, Stay
    <3>2. \A C : (Agreed(C))' <=> Agreed(C)
      BY <2>1, Stay
    <3>3. (Agreed({row \in ToSet(rows) : ~row.pad}))'
      BY <2>11, <3>2
    <3>4. (\A row \in ToSet(rows) :
               row.last => row.adv = Grpo(row, Lasts(rows)))'
      BY <2>11, <3>1
    <3>5. QED
      BY <3>3, <3>4 DEF Trained
  <2>13. Names' /\ Collected' /\ Kept' /\ Sized'
    <3>1. outcome = "none"
      BY <1>1 DEF IInv, Names
    <3>2. Names'
      BY <2>1, <3>1 DEF Names
    <3>3. QED
      BY <2>1, <3>2 DEF Collected, Kept, Sized, BatchDivides
  <2>14. Rowed'
    BY <2>1, <2>10, Stay, EmptySeq DEF Rowed
  <2>15. QED
    BY <1>1, <2>1, <2>12, <2>13, <2>14, GoesOn
<1>5. QED
  BY <1>2, <1>3, <1>4

\* A row with the mark of its distance.
Reshaped(row) ==
    [row EXCEPT !.near = ~NoTokens(row) /\ Distance(row.uid, row.step)]

\* It is the same step with the same advantage.
LEMMA ReshapedRow ==
    ASSUME NEW row \in Steps
    PROVE  /\ Reshaped(row) \in Steps
           /\ Reshaped(row).pad = row.pad
           /\ Reshaped(row).ep = row.ep
           /\ Reshaped(row).step = row.step
           /\ Reshaped(row).last = row.last
           /\ Reshaped(row).adv = row.adv
           /\ NoTokens(Reshaped(row)) <=> NoTokens(row)
<1>1. (~NoTokens(row) /\ Distance(row.uid, row.step)) \in BOOLEAN
  OBVIOUS
<1>2. PICK flag \in BOOLEAN :
          flag = (~NoTokens(row) /\ Distance(row.uid, row.step))
  BY <1>1
<1>3. PICK r : r = Reshaped(row)
  OBVIOUS
<1>4. r = [row EXCEPT !.near = flag]
  BY <1>2, <1>3 DEF Reshaped
<1>5. row \in Row
  BY DEF Steps
<1>6. /\ r \in Row
      /\ r.uid = row.uid /\ r.ep = row.ep /\ r.step = row.step
      /\ r.last = row.last /\ r.pad = row.pad
      /\ r.adv = row.adv
  BY <1>4, <1>5 DEF Row
<1>7. r \in Steps
  BY <1>6 DEF Steps
<1>8. NoTokens(r) <=> NoTokens(row)
  BY <1>6 DEF NoTokens, Answered
<1>9. QED
  BY <1>3, <1>6, <1>7, <1>8

\* Marks, and the removal of masked trajectories, leave them whole.
LEMMA ReshapeKeeps == IInv /\ Reshape => IInv'
<1> SUFFICES ASSUME IInv, Reshape
             PROVE  IInv'
  OBVIOUS
<1>1. /\ stage = "reshape" /\ stage' = "pad"
      /\ inputs' = inputs /\ others' = others /\ outcome' = outcome
  BY DEF Reshape
<1>2. rows \in Seq(Steps) /\ others \in Seq(FreshSteps)
  BY DEF IInv, Rowed
<1>3. PICK C : C = {row \in ToSet(rows) : ~row.pad}
  OBVIOUS
<1>4. Broadcast => Agreed(C)
  BY <1>1, <1>3 DEF IInv, Trained
<1>5. PICK D : D = {row \in ToSet(rows') : ~row.pad}
  OBVIOUS
<1>6. rows' \in Seq(Steps) /\ (Broadcast => Agreed(D))
  <2>1. CASE Ppo
    <3>1. PICK n \in Nat : n = Len(rows)
      BY <1>2
    <3>2. DOMAIN rows = 1..n
      BY <1>2, <3>1
    <3>3. rows' = [i \in 1..n |-> Reshaped(rows[i])]
      BY <2>1, <3>2 DEF Reshape, Reshaped
    <3>4. \A i \in 1..n : rows[i] \in Steps
      BY <1>2, <3>1
    <3>5. rows' \in Seq(Steps) /\ Len(rows') = n
      <4>1. \A i \in 1..n : Reshaped(rows[i]) \in Steps
        BY <3>4, ReshapedRow
      <4>2. rows' \in [1..n -> Steps]
        BY <3>3, <4>1
      <4>3. QED
        BY <4>2
    <3>6. ToSet(rows') = {Reshaped(x) : x \in ToSet(rows)}
      <4>1. ToSet(rows') = {rows'[i] : i \in 1..n}
        BY <3>5 DEF ToSet
      <4>2. ToSet(rows) = {rows[i] : i \in 1..n}
        BY <1>2, <3>1 DEF ToSet
      <4>3. QED
        BY <3>3, <4>1, <4>2
    <3>7. \A x \in ToSet(rows) : x \in Steps
      BY <1>2, Elements
    <3>8. ASSUME Broadcast
          PROVE  Agreed(D)
      <4>1. \A d \in D : \E x \in C : d = Reshaped(x)
        BY <1>3, <1>5, <3>6, <3>7, ReshapedRow
      <4>2. \A x \in C : Reshaped(x) \in D
        BY <1>3, <1>5, <3>6, <3>7, ReshapedRow
      <4>3. ASSUME NEW d \in D
            PROVE  {x.step : x \in {y \in D : y.ep = d.ep}}
                       = {x.step : x \in {y \in C : y.ep = d.ep}}
        <5>1. ASSUME NEW x \in D, x.ep = d.ep
              PROVE  \E y \in C : y.ep = d.ep /\ y.step = x.step
          BY <1>3, <3>7, <4>1, <5>1, ReshapedRow
        <5>2. ASSUME NEW y \in C, y.ep = d.ep
              PROVE  \E x \in D : x.ep = d.ep /\ x.step = y.step
          BY <1>3, <3>7, <4>2, <5>2, ReshapedRow
        <5>3. QED
          BY <5>1, <5>2
      <4>4. ASSUME NEW d \in D
            PROVE  /\ {x.step : x \in {y \in D : y.ep = d.ep}}
                          = 1..nsteps[d.ep]
                   /\ \E last \in D :
                          /\ last.last /\ last.ep = d.ep
                          /\ last.adv # NaN
                          /\ d.adv = IF ~d.last /\ NoTokens(last) THEN NaN
                                     ELSE last.adv
        <5>1. PICK c \in C : d = Reshaped(c)
          BY <4>1
        <5>2. c.ep = d.ep /\ c.adv = d.adv /\ c.last = d.last
          BY <1>3, <3>7, <5>1, ReshapedRow
        <5>3. /\ {x.step : x \in {y \in C : y.ep = c.ep}} = 1..nsteps[c.ep]
              /\ \E last \in C :
                     /\ last.last /\ last.ep = c.ep
                     /\ last.adv # NaN
                     /\ c.adv = IF ~c.last /\ NoTokens(last) THEN NaN
                                ELSE last.adv
          BY <1>4, <3>8 DEF Agreed
        <5>4. PICK last \in C :
                  /\ last.last /\ last.ep = c.ep
                  /\ last.adv # NaN
                  /\ c.adv = IF ~c.last /\ NoTokens(last) THEN NaN
                             ELSE last.adv
          BY <5>3
        <5>5. PICK x : x = Reshaped(last)
          OBVIOUS
        <5>6. /\ x \in D
              /\ x.last = last.last /\ x.ep = last.ep /\ x.adv = last.adv
              /\ NoTokens(x) <=> NoTokens(last)
          BY <1>3, <3>7, <4>2, <5>5, ReshapedRow
        <5>7. \E y \in D :
                  /\ y.last /\ y.ep = d.ep
                  /\ y.adv # NaN
                  /\ d.adv = IF ~d.last /\ NoTokens(y) THEN NaN
                             ELSE y.adv
          BY <5>2, <5>4, <5>6
        <5>8. QED
          BY <4>3, <5>2, <5>3, <5>7
      <4>5. QED
        BY <4>4 DEF Agreed
    <3>9. QED
      BY <3>5, <3>8
  <2>2. CASE ~Ppo
    <3>1. PICK T : T = {row \in ToSet(rows) : row.ep \notin masked}
      OBVIOUS
    <3>2. rows' = Select(NoPads(rows), T)
      BY <2>2, <3>1 DEF Reshape
    <3>3. NoPads(rows) \in Seq(Steps) /\ ToSet(NoPads(rows)) = C
      BY <1>2, <1>3, Parts
    <3>4. rows' \in Seq(Steps)
      BY <3>2, <3>3, SelectPlaces
    <3>5. ToSet(rows') = C \cap T
      BY <3>2, <3>3, SelectElements
    <3>6. D = {row \in C : row.ep \notin masked}
      BY <1>3, <1>5, <3>1, <3>5
    <3>7. ASSUME Broadcast, NEW d \in D
          PROVE  /\ {x.step : x \in {y \in D : y.ep = d.ep}}
                        = 1..nsteps[d.ep]
                 /\ \E last \in D :
                        /\ last.last /\ last.ep = d.ep
                        /\ last.adv # NaN
                        /\ d.adv = IF ~d.last /\ NoTokens(last) THEN NaN
                                   ELSE last.adv
      <4>1. {y \in D : y.ep = d.ep} = {y \in C : y.ep = d.ep}
        BY <3>6
      <4>2. d \in C /\ \A x \in C : x.ep = d.ep => x \in D
        BY <3>6
      <4>3. QED
        BY <1>4, <3>7, <4>1, <4>2 DEF Agreed
    <3>8. QED
      BY <3>4, <3>7 DEF Agreed
  <2>3. QED
    BY <2>1, <2>2
<1>7. Names' /\ Collected' /\ Kept' /\ Sized'
  <2>1. outcome = "none"
    BY <1>1 DEF IInv, Names
  <2>2. Names'
    BY <1>1, <2>1 DEF Names
  <2>3. QED
    BY <1>1, <2>2 DEF Collected, Kept, Sized, BatchDivides
<1>8. Rowed'
  BY <1>1, <1>2, <1>6, Stay DEF Rowed
<1>9. Trained'
  <2>1. \A B : (Agreed(B))' <=> Agreed(B)
    BY <1>1, Stay
  <2>2. Broadcast' => (Agreed({row \in ToSet(rows) : ~row.pad}))'
    BY <1>1, <1>5, <1>6, <2>1, Stay
  <2>3. QED
    BY <1>1, <2>2 DEF Trained
<1>10. QED
  BY <1>1, <1>7, <1>8, <1>9, GoesOn

\* The last padding leaves the rows that are none.
LEMMA FinalPadKeeps == IInv /\ FinalPad => IInv'
<1> SUFFICES ASSUME IInv, FinalPad
             PROVE  IInv'
  OBVIOUS
<1>1. /\ stage = "pad" /\ stage' = "update" /\ rows' = Padded(rows)
      /\ inputs' = inputs /\ others' = others /\ outcome' = outcome
  BY DEF FinalPad
<1>2. /\ Settings /\ rows \in Seq(Steps) /\ others \in Seq(FreshSteps)
      /\ outcome = "none"
  BY <1>1 DEF IInv, Rowed, Names
<1>3. rows' \in Seq(Steps) /\ IsPadded(rows', rows)
  BY <1>1, <1>2, PaddedRows
<1>4. Names' /\ Collected' /\ Kept'
  BY <1>1, <1>2 DEF Names, Collected, Kept
<1>5. Rowed'
  BY <1>1, <1>2, <1>3, Stay DEF Rowed
<1>6. Sized'
  <2>1. Len(rows') \in Nat /\ Len(rows') % world = 0
    BY <1>3 DEF IsPadded
  <2>2. Len(rows') % actors = 0
    BY <1>2, <2>1, SomeWorld
  <2>3. QED
    BY <1>1, <2>1, <2>2, Stay DEF Sized, BatchDivides
<1>7. Trained'
  <2>1. {row \in ToSet(rows') : ~row.pad} = {row \in ToSet(rows) : ~row.pad}
    BY <1>3 DEF IsPadded
  <2>2. Broadcast => Agreed({row \in ToSet(rows') : ~row.pad})
    BY <1>1, <2>1 DEF IInv, Trained
  <2>3. \A B : (Agreed(B))' <=> Agreed(B)
    BY <1>1, Stay
  <2>4. Broadcast' => (Agreed({row \in ToSet(rows) : ~row.pad}))'
    BY <1>1, <2>2, <2>3, Stay
  <2>5. QED
    BY <1>1, <2>4 DEF Trained
<1>8. QED
  BY <1>1, <1>4, <1>5, <1>6, <1>7, GoesOn

\* The update is the end.
LEMMA UpdateKeeps == IInv /\ Update => IInv'
<1> SUFFICES ASSUME IInv, Update
             PROVE  IInv'
  OBVIOUS
<1>1. CASE rows = <<>>
  <2>1. End("empty")
    BY <1>1 DEF Update
  <2>2. QED
    BY <2>1, Ended
<1>2. CASE rows # <<>>
  <2>1. End("trained")
    BY <1>2 DEF Update
  <2>2. QED
    BY <2>1, Ended
<1>3. QED
  BY <1>1, <1>2

\* The iteration stutters.
LEMMA Stutters == IInv /\ UNCHANGED vars => IInv'
<1> SUFFICES ASSUME IInv, UNCHANGED vars
             PROVE  IInv'
  OBVIOUS
<1>1. /\ inputs' = inputs /\ stage' = stage /\ rows' = rows
      /\ others' = others /\ outcome' = outcome
  BY DEF vars
<1>2. Settings' /\ Names' /\ Rowed'
  BY <1>1, Stay DEF IInv, Names, Rowed
<1>3. Collected' /\ Sized' /\ KeyErrorNeedsASplitTask'
  BY <1>1, Stay DEF IInv, Collected, Sized, BatchDivides,
                    KeyErrorNeedsASplitTask
<1>4. Waiting => Waiting'
  BY <1>1, WaitingNext DEF Waiting
<1>5. Kept'
  BY <1>1, <1>4, Stay DEF IInv, Kept
<1>6. Trained'
  <2>1. \A row, batch : (Grpo(row, batch))' = Grpo(row, batch)
    BY <1>1, Stay
  <2>2. QED
    BY <1>1, <2>1, Stay DEF IInv, Trained
<1>7. QED
  BY <1>2, <1>3, <1>5, <1>6 DEF IInv

\* No step of an iteration leaves the invariant.
LEMMA StepIInv == IInv /\ [Next]_vars => IInv'
BY GenerateKeeps, KeepAllKeeps, RejectKeeps, LogProbKeeps, SplitKeeps,
   AdvantageKeeps, BroadcastKeeps, ReshapeKeeps, FinalPadKeeps, UpdateKeeps,
   Stutters DEF Next

-------------------------------------------------------------------------------
(* Theorems *)

\* Rows and advantages in every iteration are as the invariant says.
THEOREM BatchInvariance == Spec => []IInv
<1>1. IInv /\ [Next]_vars => IInv'
  BY StepIInv
<1>2. QED
  BY InitIInv, <1>1, PTL DEF Spec

\* Types: every row of every batch, padding too, is a step that its trajectory
\* has (agent_ppo_trainer.py:865).
THEOREM BatchTypesHold == Spec => []TypeOK
<1>1. IInv => TypeOK
  <2> SUFFICES ASSUME IInv
               PROVE  TypeOK
    OBVIOUS
  <2>1. rows \in Seq(Steps) /\ others \in Seq(FreshSteps)
    BY DEF IInv, Rowed
  <2>2. Steps \subseteq Row /\ FreshSteps \subseteq Row
    BY DEF Steps, FreshSteps
  <2>3. rows \in Seq(Row)
    BY <2>1, <2>2, Elements, Retyped
  <2>4. others \in Seq(Row)
    BY <2>1, <2>2, Elements, Retyped
  <2>5. QED
    BY <2>3, <2>4 DEF IInv, Settings, Names, TypeOK
<1>2. QED
  BY BatchInvariance, <1>1, PTL

\* Every row stands under the prompt of its trajectory, in whatever order the
\* trajectories arrive (agent_ppo_trainer.py:203,
\* agent_workflow_trainer.py:190).
THEOREM RowsStayOwn == Spec => []RowsAreOwn
<1>1. IInv => RowsAreOwn
  <2> SUFFICES ASSUME IInv
               PROVE  RowsAreOwn
    OBVIOUS
  <2>1. rows \in Seq(Steps) /\ others \in Seq(FreshSteps)
    BY DEF IInv, Rowed
  <2>2. others \in Seq(Steps)
    BY <2>1, Elements, Retyped DEF FreshSteps
  <2>3. rows \o others \in Seq(Steps)
    BY <2>1, <2>2, ConcatElements
  <2>4. \A row \in ToSet(rows \o others) : row \in Steps
    BY <2>3, Elements
  <2>5. QED
    BY <2>4 DEF RowsAreOwn, Steps
<1>2. QED
  BY BatchInvariance, <1>1, PTL

\* In broadcast mode a trajectory is trained as a whole, with the advantage of
\* its last step, or with NaN in the other steps when the response_mask of the
\* last one is empty (agent_ppo_trainer.py:982, 1004;
\* agent_workflow_trainer.py:811).
THEOREM AdvantageIsOne == Spec => []OneAdvantage
<1>1. IInv => OneAdvantage
  <2> SUFFICES ASSUME IInv, stage \in {"reshape", "pad", "update"}, Broadcast,
                      NEW row \in ToSet(NoPads(rows)), NEW own,
                      own = {x \in ToSet(NoPads(rows)) : x.ep = row.ep}
               PROVE  /\ {x.step : x \in own} = 1..nsteps[row.ep]
                      /\ \E last \in own :
                             /\ last.last
                             /\ last.adv # NaN
                             /\ row.adv =
                                    IF ~row.last /\ NoTokens(last) THEN NaN
                                    ELSE last.adv
                             /\ stage = "reshape" =>
                                    last.adv = Grpo(last, Lasts(rows))
    BY DEF OneAdvantage
  <2>1. PICK C : C = {x \in ToSet(rows) : ~x.pad}
    OBVIOUS
  <2>2. ToSet(NoPads(rows)) = C
    BY <2>1, Parts DEF IInv, Rowed
  <2>3. Agreed(C)
    BY <2>1 DEF IInv, Trained
  <2>4. row \in C /\ own = {x \in C : x.ep = row.ep}
    BY <2>2
  <2>5. {x.step : x \in own} = 1..nsteps[row.ep]
    BY <2>3, <2>4 DEF Agreed
  <2>6. PICK last \in C :
            /\ last.last /\ last.ep = row.ep
            /\ last.adv # NaN
            /\ row.adv = IF ~row.last /\ NoTokens(last) THEN NaN
                         ELSE last.adv
    BY <2>3, <2>4 DEF Agreed
  <2>7. stage = "reshape" => last.adv = Grpo(last, Lasts(rows))
    BY <2>1, <2>6 DEF IInv, Trained
  <2>8. last \in own
    BY <2>4, <2>6
  <2>9. QED
    BY <2>5, <2>6, <2>7, <2>8
<1>2. QED
  BY BatchInvariance, <1>1, PTL

\* The KeyError of the broadcast comes only where the workflow trainer parts
\* the trajectories of a task (agent_workflow_trainer.py:272).
THEOREM KeyErrorsExplained == Spec => []KeyErrorNeedsASplitTask
<1>1. IInv => KeyErrorNeedsASplitTask
  BY DEF IInv
<1>2. QED
  BY BatchInvariance, <1>1, PTL

\* Every batch has a length that the actor group's size divides, and but for
\* the ppo trainer's rejection in per_step mode all groups' sizes
\* (agent_ppo_trainer.py:435, agent_workflow_trainer.py:393).
THEOREM BatchesDivide == Spec => []BatchDivides
<1>1. IInv => BatchDivides
  BY DEF IInv, Sized
<1>2. QED
  BY BatchInvariance, <1>1, PTL
===============================================================================
