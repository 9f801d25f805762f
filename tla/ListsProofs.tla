------------------------------ MODULE ListsProofs ------------------------------
(***************************************************************************)
(* Facts about the list operations of the models, for lists of any length: *)
(* Select (a comprehension with a condition) and FlattenSeq (the lists of  *)
(* a list, one behind the other).  Both are recursive functions, so the    *)
(* module begins with induction and primitive recursion over the natural   *)
(* numbers, stated with sets and functions in place of operators.          *)
(***************************************************************************)
EXTENDS Lists, SequencesExt, SequenceTheorems, FunctionTheorems,
        WellFoundedInduction, TLAPS

-------------------------------------------------------------------------------
(* Induction and recursion *)

\* Some well-founded relation contains the order of the natural numbers.
LEMMA NatOrder ==
    \E R : /\ IsWellFoundedOn(R, Nat)
           /\ \A x, y \in Nat : x < y => <<x, y>> \in R
<1> DEFINE R == OpToRel(<, Nat)
<1>1. IsWellFoundedOn(R, Nat)
  BY NatLessThanWellFounded
<1>2. \A x, y \in Nat : x < y => <<x, y>> \in R
  BY Zenon DEF OpToRel
<1> HIDE DEF R
<1>3. QED
  BY <1>1, <1>2

\* A set of natural numbers that is not empty has a least element.
LEMMA LeastNat ==
    ASSUME NEW T, T \subseteq Nat, T # {}
    PROVE  \E x \in T : \A y \in T : x <= y
<1>1. PICK R : /\ IsWellFoundedOn(R, Nat)
               /\ \A x, y \in Nat : x < y => <<x, y>> \in R
  BY NatOrder
<1>2. IsWellFoundedOn(R, Nat)
  BY <1>1
<1>3. \E x \in T : \A y \in T : <<y, x>> \notin R
  BY <1>2, WFMin
<1>4. PICK x \in T : \A y \in T : <<y, x>> \notin R
  BY <1>3
<1>5. ASSUME NEW y \in T
      PROVE  x <= y
  <2>1. x \in Nat /\ y \in Nat
    OBVIOUS
  <2>2. ~ (y < x)
    BY <1>1, <1>4, <2>1
  <2>3. QED
    BY <2>1, <2>2
<1>6. QED
  BY <1>5

\* Induction: a set with 0 and with the successor of each of its numbers has
\* them all.
LEMMA Induction ==
    ASSUME NEW T, 0 \in T, \A n \in Nat : n \in T => n + 1 \in T
    PROVE  Nat \subseteq T
<1> SUFFICES ASSUME Nat \ T # {}
             PROVE  FALSE
  OBVIOUS
<1>1. PICK x \in Nat \ T : \A y \in Nat \ T : x <= y
  BY LeastNat
<1>2. x - 1 \in Nat
  BY <1>1
<1>3. x - 1 \in T
  BY <1>1, <1>2
<1>4. QED
  BY <1>2, <1>3

\* What may be done with a value at each of n steps, and that f does it from b
\* on.
Iterators(n, S) == [1..n -> [S -> S]]
Iterates(f, n, S, b, step) ==
    /\ f \in [0..n -> S]
    /\ f[0] = b
    /\ \A i \in 1..n : f[i] = step[i][f[i - 1]]

\* Doing it is possible.
LEMMA Recursion ==
    ASSUME NEW n \in Nat, NEW S, NEW b \in S, NEW step \in Iterators(n, S)
    PROVE  \E f : Iterates(f, n, S, b, step)
<1> USE DEF Iterators, Iterates
<1> DEFINE Upto(m) == \E f \in [0..m -> S] :
                         /\ f[0] = b
                         /\ \A i \in 1..m : f[i] = step[i][f[i - 1]]
           T == {m \in Nat : m <= n => Upto(m)}
<1>1. 0 \in T
  <2> DEFINE f == [i \in 0..0 |-> b]
  <2>1. f \in [0..0 -> S] /\ f[0] = b /\ \A i \in 1..0 : FALSE
    OBVIOUS
  <2> HIDE DEF f
  <2>2. Upto(0)
    BY <2>1
  <2>3. QED
    BY <2>2
<1>2. ASSUME NEW m \in Nat, m \in T
      PROVE  m + 1 \in T
  <2> SUFFICES ASSUME m + 1 <= n
               PROVE  Upto(m + 1)
    OBVIOUS
  <2>1. PICK f \in [0..m -> S] :
               /\ f[0] = b
               /\ \A i \in 1..m : f[i] = step[i][f[i - 1]]
    BY <1>2
  <2> DEFINE g == [i \in 0..m + 1 |-> IF i <= m THEN f[i]
                                      ELSE step[m + 1][f[m]]]
  <2>2. step[m + 1] \in [S -> S] /\ f[m] \in S
    OBVIOUS
  <2>3. g \in [0..m + 1 -> S]
    BY <2>2
  <2>4. g[0] = b
    BY <2>1
  <2>5. \A i \in 1..m + 1 : g[i] = step[i][g[i - 1]]
    <3>1. ASSUME NEW i \in 1..m
          PROVE  g[i] = step[i][g[i - 1]]
      BY <2>1
    <3>2. g[m + 1] = step[m + 1][g[m]]
      OBVIOUS
    <3>3. 1..m + 1 = 1..m \cup {m + 1}
      OBVIOUS
    <3> HIDE DEF g
    <3>4. QED
      BY <3>1, <3>2, <3>3
  <2> HIDE DEF g
  <2>6. QED
    BY <2>3, <2>4, <2>5
<1> HIDE DEF T
<1>3. Nat \subseteq T
  BY <1>1, <1>2, Induction
<1>4. QED
  BY <1>3 DEF T

-------------------------------------------------------------------------------
(* What is in a list *)

\* What is in a list.
LEMMA Elements ==
    ASSUME NEW S, NEW s \in Seq(S)
    PROVE  /\ ToSet(s) \subseteq S
           /\ \A i \in 1..Len(s) : s[i] \in ToSet(s)
           /\ \A x \in ToSet(s) : \E i \in 1..Len(s) : s[i] = x
           /\ s = <<>> <=> ToSet(s) = {}
<1>1. ToSet(s) = {s[i] : i \in 1..Len(s)}
  BY DEF ToSet
<1>2. \A i \in 1..Len(s) : s[i] \in S
  OBVIOUS
<1>3. s = <<>> <=> 1..Len(s) = {}
  <2>1. CASE s = <<>>
    <3>1. Len(<<>>) = 0 /\ 1..0 = {}
      OBVIOUS
    <3>2. QED
      BY <2>1, <3>1
  <2>2. CASE s # <<>>
    <3>1. Len(s) \in Nat \ {0}
      BY <2>2, EmptySeq
    <3>2. 1 \in 1..Len(s)
      BY <3>1
    <3>3. QED
      BY <2>2, <3>2
  <2>3. QED
    BY <2>1, <2>2
<1>4. QED
  BY <1>1, <1>2, <1>3

\* A list of the elements of a smaller set.
LEMMA Retyped ==
    ASSUME NEW S, NEW s \in Seq(S), NEW T, ToSet(s) \subseteq T
    PROVE  s \in Seq(T)
<1>1. \A i \in 1..Len(s) : s[i] \in T
  BY Elements
<1>2. QED
  BY <1>1

\* A list behind another.
LEMMA ConcatElements ==
    ASSUME NEW S, NEW s \in Seq(S), NEW t \in Seq(S)
    PROVE  /\ s \o t \in Seq(S)
           /\ ToSet(s \o t) = ToSet(s) \cup ToSet(t)
<1>1. \A u : ToSet(u) = Range(u)
  BY DEF ToSet, Range
<1>2. Range(s \o t) = Range(s) \cup Range(t)
  BY RangeConcatenation
<1>3. s \o t \in Seq(S)
  BY ConcatProperties
<1>4. QED
  BY <1>1, <1>2, <1>3

\* No element stands in a list twice.
Once(s) == \A i, j \in 1..Len(s) : s[i] = s[j] => i = j

\* A list with one more element.
LEMMA AppendElements ==
    ASSUME NEW S, NEW s \in Seq(S), NEW e \in S
    PROVE  /\ Append(s, e) \in Seq(S)
           /\ ToSet(Append(s, e)) = ToSet(s) \cup {e}
           /\ Once(s) /\ e \notin ToSet(s) => Once(Append(s, e))
<1>1. PICK n \in Nat : n = Len(s)
  OBVIOUS
<1>2. PICK t \in Seq(S) : t = Append(s, e)
  BY AppendProperties
<1>3. /\ Len(t) = n + 1
      /\ \A i \in 1..n : t[i] = s[i]
      /\ t[n + 1] = e
  BY <1>1, <1>2, AppendProperties
<1>4. ASSUME NEW x \in ToSet(t)
      PROVE  x \in ToSet(s) \cup {e}
  <2>1. PICK i \in 1..n + 1 : t[i] = x
    BY <1>3, <1>4, Elements
  <2>2. CASE i \in 1..n
    BY <1>1, <1>3, <2>1, <2>2, Elements
  <2>3. CASE i = n + 1
    BY <1>3, <2>1, <2>3
  <2>4. QED
    BY <2>1, <2>2, <2>3
<1>5. ASSUME NEW x \in ToSet(s) \cup {e}
      PROVE  x \in ToSet(t)
  <2>1. CASE x \in ToSet(s)
    <3>1. PICK i \in 1..n : s[i] = x
      BY <1>1, <2>1, Elements
    <3>2. i \in 1..Len(t) /\ t[i] = x
      BY <1>3, <3>1
    <3>3. QED
      BY <3>2, Elements
  <2>2. CASE x = e
    <3>1. n + 1 \in 1..Len(t) /\ t[n + 1] = x
      BY <1>3, <2>2
    <3>2. QED
      BY <3>1, Elements
  <2>3. QED
    BY <1>5, <2>1, <2>2
<1>6. ASSUME Once(s), e \notin ToSet(s)
      PROVE  Once(t)
  <2>1. \A i \in 1..n : s[i] # e
    BY <1>1, <1>6, Elements
  <2>2. \A i, j \in 1..n : s[i] = s[j] => i = j
    BY <1>1, <1>6 DEF Once
  <2>3. \A i \in 1..n + 1 : i \in 1..n \/ i = n + 1
    OBVIOUS
  <2>4. ASSUME NEW i \in 1..n + 1, NEW j \in 1..n + 1, t[i] = t[j]
        PROVE  i = j
    BY <1>3, <2>1, <2>2, <2>3, <2>4
  <2>5. QED
    BY <1>3, <2>4 DEF Once
<1>7. QED
  BY <1>2, <1>4, <1>5, <1>6

\* Two lists without a common element make one in which none stands twice.
LEMMA ConcatOnce ==
    ASSUME NEW S, NEW s \in Seq(S), NEW t \in Seq(S), Once(s), Once(t),
           ToSet(s) \cap ToSet(t) = {}
    PROVE  Once(s \o t)
<1>1. PICK m \in Nat : m = Len(s)
  OBVIOUS
<1>2. PICK n \in Nat : n = Len(t)
  OBVIOUS
<1>3. PICK u : u = s \o t
  OBVIOUS
<1>4. /\ Len(u) = m + n
      /\ \A i \in 1..m + n : u[i] = IF i <= m THEN s[i] ELSE t[i - m]
  BY <1>1, <1>2, <1>3, ConcatProperties
<1>5. ASSUME NEW i \in 1..m + n, NEW j \in 1..m + n, u[i] = u[j]
      PROVE  i = j
  <2>1. CASE i <= m /\ j <= m
    BY <1>1, <1>4, <1>5, <2>1 DEF Once
  <2>2. CASE ~(i <= m) /\ ~(j <= m)
    <3>1. i - m \in 1..n /\ j - m \in 1..n
      BY <2>2
    <3>2. t[i - m] = t[j - m]
      BY <1>4, <1>5, <2>2
    <3>3. i - m = j - m
      BY <1>2, <3>1, <3>2 DEF Once
    <3>4. QED
      BY <3>3
  <2>3. CASE i <= m /\ ~(j <= m)
    <3>1. i \in 1..m /\ j - m \in 1..n
      BY <2>3
    <3>2. s[i] \in ToSet(s) /\ t[j - m] \in ToSet(t)
      BY <1>1, <1>2, <3>1, Elements
    <3>3. s[i] = t[j - m]
      BY <1>4, <1>5, <2>3
    <3>4. QED
      BY <3>2, <3>3
  <2>4. CASE ~(i <= m) /\ j <= m
    <3>1. j \in 1..m /\ i - m \in 1..n
      BY <2>4
    <3>2. s[j] \in ToSet(s) /\ t[i - m] \in ToSet(t)
      BY <1>1, <1>2, <3>1, Elements
    <3>3. s[j] = t[i - m]
      BY <1>4, <1>5, <2>4
    <3>4. QED
      BY <3>2, <3>3
  <2>5. QED
    BY <2>1, <2>2, <2>3, <2>4
<1>6. QED
  BY <1>3, <1>4, <1>5 DEF Once

-------------------------------------------------------------------------------
\* f holds what has been selected after each element.
Selects(f, s, S, T) ==
    /\ f \in [0..Len(s) -> Seq(S)]
    /\ f[0] = <<>>
    /\ \A i \in 1..Len(s) :
          f[i] = IF s[i] \in T THEN Append(f[i - 1], s[i]) ELSE f[i - 1]

\* Select follows the equation it is defined by.
LEMMA SelectRecurses ==
    ASSUME NEW S, NEW s \in Seq(S), NEW T
    PROVE  \E f : Selects(f, s, S, T) /\ Select(s, T) = f[Len(s)]
<1> DEFINE n == Len(s)
           body(f, i) == IF i = 0 THEN <<>>
                         ELSE IF s[i] \in T THEN Append(f[i - 1], s[i])
                         ELSE f[i - 1]
           step == [i \in 1..n |-> [x \in Seq(S) |->
                       IF s[i] \in T THEN Append(x, s[i]) ELSE x]]
           sel == CHOOSE f : f = [i \in 0..n |-> body(f, i)]
<1>1. n \in Nat /\ <<>> \in Seq(S) /\ \A i \in 1..n : s[i] \in S
  OBVIOUS
<1>2. step \in [1..n -> [Seq(S) -> Seq(S)]]
  BY <1>1
<1>3. PICK f \in [0..n -> Seq(S)] :
              /\ f[0] = <<>>
              /\ \A i \in 1..n : f[i] = step[i][f[i - 1]]
  <2>1. <<>> \in Seq(S) /\ n \in Nat /\ step \in Iterators(n, Seq(S))
    BY <1>1, <1>2 DEF Iterators
  <2> HIDE DEF step, n
  <2>2. \E f : Iterates(f, n, Seq(S), <<>>, step)
    BY <2>1, Recursion
  <2>3. QED
    BY <2>2 DEF Iterates
<1>4. \A i \in 1..n : f[i - 1] \in Seq(S)
  BY <1>1
<1>5. \A i \in 1..n : f[i] = IF s[i] \in T THEN Append(f[i - 1], s[i])
                             ELSE f[i - 1]
  BY <1>3, <1>4
<1>6. f = [i \in 0..n |-> body(f, i)]
  <2>1. ASSUME NEW i \in 0..n
        PROVE  f[i] = body(f, i)
    <3>1. CASE i = 0
      BY <3>1, <1>3
    <3>2. CASE i # 0
      <4>1. i \in 1..n
        BY <3>2, <1>1
      <4>2. QED
        BY <4>1, <1>5, <3>2
    <3>3. QED
      BY <3>1, <3>2
  <2>2. QED
    BY <2>1
<1>7. sel = [i \in 0..n |-> body(sel, i)]
  <2> HIDE DEF body
  <2>1. QED
    BY <1>6
<1>8. Select(s, T) = sel[n]
  BY DEF Select
<1> DEFINE J == {i \in Nat : i <= n => sel[i] = f[i]}
<1>9. 0 \in J
  <2> HIDE DEF sel
  <2>1. QED
    BY <1>7, <1>3, <1>1
<1>10. ASSUME NEW i \in Nat, i \in J
       PROVE  i + 1 \in J
  <2> SUFFICES ASSUME i + 1 <= n
               PROVE  sel[i + 1] = f[i + 1]
    OBVIOUS
  <2> HIDE DEF sel
  <2>1. sel[i] = f[i] /\ i + 1 \in 1..n /\ i + 1 # 0 /\ (i + 1) - 1 = i
    BY <1>10, <1>1
  <2>2. sel[i + 1] = body(sel, i + 1)
    <3>1. i + 1 \in 0..n
      BY <2>1
    <3> HIDE DEF body
    <3>2. QED
      BY <1>7, <3>1
  <2>3. QED
    BY <2>1, <2>2, <1>5
<1> HIDE DEF J, sel
<1>11. Nat \subseteq J
  BY <1>9, <1>10, Induction
<1>12. sel[n] = f[n]
  BY <1>11, <1>1 DEF J
<1>13. QED
  BY <1>3, <1>5, <1>8, <1>12 DEF Selects

\* Nothing is selected from nothing.
LEMMA SelectEmpty == \A T : Select(<<>>, T) = <<>>
<1>1. <<>> \in Seq({}) /\ Len(<<>>) = 0
  OBVIOUS
<1>2. ASSUME NEW T
      PROVE  Select(<<>>, T) = <<>>
  <2>1. PICK f : /\ Selects(f, <<>>, {}, T)
                 /\ Select(<<>>, T) = f[Len(<<>>)]
    BY <1>1, SelectRecurses
  <2>2. QED
    BY <1>1, <2>1 DEF Selects
<1>3. QED
  BY <1>2

\* h places t in the first m elements of s: these are the ones in T, in order.
Places(h, t, m, s, T) ==
    /\ h \in [1..Len(t) -> 1..m]
    /\ \A i, j \in 1..Len(t) : i < j => h[i] < h[j]
    /\ \A i \in 1..Len(t) : t[i] = s[h[i]]
    /\ \A k \in 1..m : s[k] \in T <=> \E i \in 1..Len(t) : h[i] = k

\* At the start nothing has a place.
LEMMA PlacesNone ==
    ASSUME NEW s, NEW T
    PROVE  \E h : Places(h, <<>>, 0, s, T)
<1> DEFINE h == [i \in 1..0 |-> 0]
<1>1. Len(<<>>) = 0 /\ 1..0 = {}
  OBVIOUS
<1>2. h \in [1..0 -> 1..0]
  OBVIOUS
<1> HIDE DEF h
<1>3. Places(h, <<>>, 0, s, T)
  BY <1>1, <1>2 DEF Places
<1>4. QED
  BY <1>3

\* An element outside T is passed over.
LEMMA PlacesSkip ==
    ASSUME NEW S, NEW t \in Seq(S), NEW m \in Nat, NEW s, NEW T, NEW h,
           Places(h, t, m, s, T), s[m + 1] \notin T
    PROVE  Places(h, t, m + 1, s, T)
<1>1. PICK l : l = Len(t) /\ l \in Nat
  OBVIOUS
<1>2. h \in [1..l -> 1..m] /\ 1..m \subseteq 1..m + 1
  BY <1>1 DEF Places
<1>3. h \in [1..l -> 1..m + 1]
  BY <1>2
<1>4. ASSUME NEW k \in 1..m + 1
      PROVE  s[k] \in T <=> \E i \in 1..l : h[i] = k
  <2>1. CASE k = m + 1
    <3>1. \A i \in 1..l : h[i] \in 1..m
      BY <1>2
    <3>2. QED
      BY <2>1, <3>1
  <2>2. CASE k \in 1..m
    BY <2>2, <1>1 DEF Places
  <2>3. QED
    BY <2>1, <2>2
<1>5. QED
  BY <1>1, <1>3, <1>4 DEF Places

\* An element of T is placed behind the others.
LEMMA PlacesTake ==
    ASSUME NEW S, NEW t \in Seq(S), NEW m \in Nat, NEW s, NEW T, NEW h,
           Places(h, t, m, s, T), s[m + 1] \in T, s[m + 1] \in S
    PROVE  \E k : Places(k, Append(t, s[m + 1]), m + 1, s, T)
<1>1. PICK l : l = Len(t) /\ l \in Nat
  OBVIOUS
<1>2. PICK u : u = Append(t, s[m + 1])
  OBVIOUS
<1>3. /\ Len(u) = l + 1
      /\ \A i \in 1..l : u[i] = t[i]
      /\ u[l + 1] = s[m + 1]
  BY <1>1, <1>2, AppendProperties
<1>4. /\ h \in [1..l -> 1..m]
      /\ \A i, j \in 1..l : i < j => h[i] < h[j]
      /\ \A i \in 1..l : t[i] = s[h[i]]
      /\ \A x \in 1..m : s[x] \in T <=> \E i \in 1..l : h[i] = x
  BY <1>1 DEF Places
<1> DEFINE k == [i \in 1..l + 1 |-> IF i = l + 1 THEN m + 1 ELSE h[i]]
<1>5. 1..l + 1 = 1..l \cup {l + 1} /\ l + 1 \notin 1..l
  BY <1>1
<1>6. \A i \in 1..l : k[i] = h[i] /\ h[i] \in 1..m
  BY <1>4, <1>5
<1>7. k[l + 1] = m + 1
  BY <1>5
<1>8. k \in [1..l + 1 -> 1..m + 1]
  <2>1. ASSUME NEW i \in 1..l + 1
        PROVE  (IF i = l + 1 THEN m + 1 ELSE h[i]) \in 1..m + 1
    <3>1. CASE i = l + 1
      BY <3>1
    <3>2. CASE i # l + 1
      <4>1. h[i] \in 1..m
        BY <3>2, <1>5, <1>6
      <4>2. QED
        BY <4>1, <3>2
    <3>3. QED
      BY <3>1, <3>2
  <2>2. QED
    BY <2>1
<1> HIDE DEF k
<1>9. ASSUME NEW i \in 1..l + 1, NEW j \in 1..l + 1, i < j
      PROVE  k[i] < k[j]
  <2>1. i \in 1..l
    BY <1>1, <1>9
  <2>2. CASE j \in 1..l
    BY <1>4, <1>6, <1>9, <2>1, <2>2
  <2>3. CASE j = l + 1
    BY <1>6, <1>7, <2>1, <2>3
  <2>4. QED
    BY <1>5, <2>2, <2>3
<1>10. ASSUME NEW i \in 1..l + 1
       PROVE  u[i] = s[k[i]]
  <2>1. CASE i \in 1..l
    BY <1>3, <1>4, <1>6, <2>1
  <2>2. CASE i = l + 1
    BY <1>3, <1>7, <2>2
  <2>3. QED
    BY <1>5, <2>1, <2>2
<1>11. ASSUME NEW x \in 1..m + 1
       PROVE  s[x] \in T <=> \E i \in 1..l + 1 : k[i] = x
  <2>1. CASE x = m + 1
    BY <1>5, <1>7, <2>1
  <2>2. CASE x \in 1..m
    <3>1. s[x] \in T <=> \E i \in 1..l : k[i] = x
      BY <2>2, <1>4, <1>6
    <3>2. k[l + 1] # x
      BY <2>2, <1>7
    <3>3. QED
      BY <3>1, <3>2, <1>5
  <2>3. QED
    BY <2>1, <2>2
<1>12. Places(k, u, m + 1, s, T)
  <2>1. Len(u) = l + 1
    BY <1>3
  <2>2. QED
    BY <2>1, <1>8, <1>9, <1>10, <1>11 DEF Places
<1>13. QED
  BY <1>2, <1>12

\* What is selected are the elements in T, in their order.
LEMMA SelectPlaces ==
    ASSUME NEW S, NEW s \in Seq(S), NEW T
    PROVE  /\ Select(s, T) \in Seq(S)
           /\ \E h : Places(h, Select(s, T), Len(s), s, T)
<1>1. PICK f : Selects(f, s, S, T) /\ Select(s, T) = f[Len(s)]
  BY SelectRecurses
<1>2. PICK n : n = Len(s) /\ n \in Nat
  OBVIOUS
<1>3. /\ f \in [0..n -> Seq(S)]
      /\ f[0] = <<>>
      /\ \A i \in 1..n :
            f[i] = IF s[i] \in T THEN Append(f[i - 1], s[i]) ELSE f[i - 1]
  BY <1>1, <1>2 DEF Selects
<1> DEFINE Good(m) == \E h : Places(h, f[m], m, s, T)
           J == {m \in Nat : m <= n => Good(m)}
<1>4. 0 \in J
  BY <1>3, PlacesNone
<1>5. ASSUME NEW m \in Nat, m \in J
      PROVE  m + 1 \in J
  <2> SUFFICES ASSUME m + 1 <= n
               PROVE  Good(m + 1)
    OBVIOUS
  <2>1. PICK h : Places(h, f[m], m, s, T)
    BY <1>2, <1>5
  <2>2. /\ f[m] \in Seq(S)
        /\ m + 1 \in 1..n
        /\ (m + 1) - 1 = m
        /\ s[m + 1] \in S
    BY <1>2, <1>3
  <2>3. f[m + 1] = IF s[m + 1] \in T THEN Append(f[m], s[m + 1]) ELSE f[m]
    BY <1>3, <2>2
  <2>4. CASE s[m + 1] \in T
    BY <2>1, <2>2, <2>3, <2>4, PlacesTake
  <2>5. CASE s[m + 1] \notin T
    BY <2>1, <2>2, <2>3, <2>5, PlacesSkip
  <2>6. QED
    BY <2>4, <2>5
<1> HIDE DEF J
<1>6. Nat \subseteq J
  BY <1>4, <1>5, Induction
<1>7. \E h : Places(h, f[n], n, s, T)
  BY <1>2, <1>6 DEF J
<1>8. f[n] \in Seq(S)
  BY <1>2, <1>3
<1>9. QED
  BY <1>1, <1>2, <1>7, <1>8
\* They are elements of the list and of T.
LEMMA SelectType ==
    ASSUME NEW S, NEW s \in Seq(S), NEW T
    PROVE  Select(s, T) \in Seq(S \cap T)
<1>1. PICK t : t = Select(s, T) /\ t \in Seq(S)
  BY SelectPlaces
<1>2. PICK h : Places(h, t, Len(s), s, T)
  BY <1>1, SelectPlaces
<1>3. ASSUME NEW i \in 1..Len(t)
      PROVE  t[i] \in S \cap T
  <2>1. h[i] \in 1..Len(s) /\ t[i] = s[h[i]]
    BY <1>2 DEF Places
  <2>2. s[h[i]] \in T
    BY <1>2, <2>1 DEF Places
  <2>3. QED
    BY <1>1, <2>1, <2>2
<1>4. QED
  BY <1>1, <1>3

\* No element of T is missing.
LEMMA SelectElements ==
    ASSUME NEW S, NEW s \in Seq(S), NEW T
    PROVE  ToSet(Select(s, T)) = ToSet(s) \cap T
<1>1. PICK t : t = Select(s, T) /\ t \in Seq(S \cap T)
  BY SelectType
<1>2. PICK h : Places(h, t, Len(s), s, T)
  BY <1>1, SelectPlaces
<1>3. ASSUME NEW x \in ToSet(t)
      PROVE  x \in ToSet(s) \cap T
  <2>1. PICK i \in 1..Len(t) : x = t[i]
    BY <1>1 DEF ToSet
  <2>2. h[i] \in 1..Len(s) /\ x = s[h[i]] /\ x \in T
    BY <1>1, <1>2, <2>1 DEF Places
  <2>3. QED
    BY <2>2 DEF ToSet
<1>4. ASSUME NEW x \in ToSet(s), x \in T
      PROVE  x \in ToSet(t)
  <2>1. PICK k \in 1..Len(s) : x = s[k]
    BY DEF ToSet
  <2>2. PICK i \in 1..Len(t) : h[i] = k
    BY <1>2, <1>4, <2>1 DEF Places
  <2>3. t[i] = x
    BY <1>2, <2>1, <2>2 DEF Places
  <2>4. QED
    BY <1>1, <2>3 DEF ToSet
<1>5. QED
  BY <1>1, <1>3, <1>4

\* What is selected has no element twice if the list has none twice.
LEMMA SelectOnce ==
    ASSUME NEW S, NEW s \in Seq(S), NEW T, Once(s)
    PROVE  Once(Select(s, T))
<1>1. PICK t : t = Select(s, T) /\ t \in Seq(S)
  BY SelectPlaces
<1>2. PICK h : Places(h, t, Len(s), s, T)
  BY <1>1, SelectPlaces
<1>3. ASSUME NEW i \in 1..Len(t), NEW j \in 1..Len(t), t[i] = t[j]
      PROVE  i = j
  <2>1. /\ h[i] \in 1..Len(s) /\ t[i] = s[h[i]]
        /\ h[j] \in 1..Len(s) /\ t[j] = s[h[j]]
    BY <1>2 DEF Places
  <2>2. h[i] = h[j]
    BY <1>3, <2>1 DEF Once
  <2>3. i < j => h[i] < h[j]
    BY <1>2 DEF Places
  <2>4. j < i => h[j] < h[i]
    BY <1>2 DEF Places
  <2>5. i \in Nat /\ j \in Nat /\ ~(h[i] < h[j]) /\ ~(h[j] < h[i])
    BY <2>1, <2>2
  <2>6. QED
    BY <2>3, <2>4, <2>5
<1>4. QED
  BY <1>1, <1>3 DEF Once

\* What is selected in full stays the same.
LEMMA SelectAll ==
    ASSUME NEW S, NEW s \in Seq(S), NEW T, ToSet(s) \subseteq T
    PROVE  Select(s, T) = s
<1>1. PICK n \in Nat : n = Len(s)
  OBVIOUS
<1>2. PICK f : Selects(f, s, S, T) /\ Select(s, T) = f[n]
  BY <1>1, SelectRecurses
<1>3. \A i \in 1..n : s[i] \in T
  BY <1>1, Elements
<1>4. /\ f[0] = <<>>
      /\ \A i \in 1..n : f[i] = Append(f[i - 1], s[i])
  BY <1>1, <1>2, <1>3 DEF Selects
<1> DEFINE Good(m) == /\ f[m] \in Seq(S)
                      /\ Len(f[m]) = m
                      /\ \A i \in 1..m : f[m][i] = s[i]
           J == {m \in Nat : m <= n => Good(m)}
<1>5. 0 \in J
  <2>1. <<>> \in Seq(S) /\ Len(<<>>) = 0 /\ 1..0 = {}
    OBVIOUS
  <2>2. Good(0)
    BY <1>4, <2>1
  <2>3. QED
    BY <2>2
<1>6. ASSUME NEW m \in Nat, m \in J
      PROVE  m + 1 \in J
  <2> SUFFICES ASSUME m + 1 <= n
               PROVE  Good(m + 1)
    OBVIOUS
  <2>1. Good(m) /\ m + 1 \in 1..n /\ (m + 1) - 1 = m
    BY <1>6
  <2>2. PICK u : u = f[m] /\ u \in Seq(S) /\ Len(u) = m
    BY <2>1
  <2>3. f[m + 1] = Append(u, s[m + 1]) /\ s[m + 1] \in S
    BY <1>1, <1>4, <2>1, <2>2
  <2>4. PICK v : v = f[m + 1]
    OBVIOUS
  <2>5. /\ v \in Seq(S) /\ Len(v) = m + 1
        /\ \A i \in 1..m : v[i] = u[i]
        /\ v[m + 1] = s[m + 1]
    BY <2>2, <2>3, <2>4, AppendProperties
  <2>6. \A i \in 1..m + 1 : v[i] = s[i]
    BY <2>1, <2>2, <2>5
  <2>7. QED
    BY <2>4, <2>5, <2>6
<1>7. n \in J
  <2> HIDE DEF J
  <2>1. Nat \subseteq J
    BY <1>5, <1>6, Induction
  <2>2. QED
    BY <2>1
<1>8. Good(n)
  BY <1>7
<1>9. QED
  BY <1>1, <1>2, <1>8

-------------------------------------------------------------------------------
\* f holds what has been joined after each list.
Joins(f, ss, S) ==
    /\ f \in [0..Len(ss) -> Seq(S)]
    /\ f[0] = <<>>
    /\ \A i \in 1..Len(ss) : f[i] = f[i - 1] \o ss[i]

\* FlattenSeq follows the equation it is defined by.
LEMMA FlattenRecurses ==
    ASSUME NEW S, NEW ss \in Seq(Seq(S))
    PROVE  \E f : Joins(f, ss, S) /\ FlattenSeq(ss) = f[Len(ss)]
<1> DEFINE n == Len(ss)
           body(f, i) == IF i = 1 THEN ss[i] ELSE f[i - 1] \o ss[i]
           step == [i \in 1..n |-> [x \in Seq(S) |-> x \o ss[i]]]
           flat == CHOOSE f : f = [i \in 1..n |-> body(f, i)]
<1>1. n \in Nat /\ <<>> \in Seq(S) /\ \A i \in 1..n : ss[i] \in Seq(S)
  OBVIOUS
<1>2. step \in [1..n -> [Seq(S) -> Seq(S)]]
  <2>1. ASSUME NEW i \in 1..n, NEW x \in Seq(S)
        PROVE  x \o ss[i] \in Seq(S)
    BY <1>1, ConcatProperties
  <2>2. QED
    BY <2>1
<1>3. PICK f \in [0..n -> Seq(S)] :
              /\ f[0] = <<>>
              /\ \A i \in 1..n : f[i] = step[i][f[i - 1]]
  <2>1. <<>> \in Seq(S) /\ n \in Nat /\ step \in Iterators(n, Seq(S))
    BY <1>1, <1>2 DEF Iterators
  <2> HIDE DEF step, n
  <2>2. \E f : Iterates(f, n, Seq(S), <<>>, step)
    BY <2>1, Recursion
  <2>3. QED
    BY <2>2 DEF Iterates
<1>4. \A i \in 1..n : f[i - 1] \in Seq(S)
  <2>1. \A i \in 1..n : i - 1 \in 0..n
    BY <1>1
  <2> HIDE DEF n, step
  <2>2. QED
    BY <2>1
<1>5. \A i \in 1..n : f[i] = f[i - 1] \o ss[i]
  BY <1>3, <1>4
<1>6. Joins(f, ss, S)
  BY <1>3, <1>5 DEF Joins
<1>7. CASE n = 0
  <2>1. FlattenSeq(ss) = <<>>
    BY <1>7 DEF FlattenSeq
  <2>2. QED
    BY <2>1, <1>3, <1>6, <1>7
<1>8. CASE n # 0
  <2> DEFINE g == [i \in 1..n |-> f[i]]
  <2>1. g = [i \in 1..n |-> body(g, i)]
    <3>1. ASSUME NEW i \in 1..n
          PROVE  f[i] = body(g, i)
      <4>1. CASE i = 1
        <5>1. f[1] = <<>> \o ss[1]
          <6>1. 1 \in 1..n /\ 1 - 1 = 0
            BY <4>1
          <6> HIDE DEF n, step, body
          <6>2. f[1] = f[0] \o ss[1]
            BY <6>1, <1>5
          <6>3. QED
            BY <6>2, <1>3
        <5>2. ss[1] \in Seq(S)
          BY <1>1, <4>1
        <5>3. QED
          BY <4>1, <5>1, <5>2
      <4>2. CASE i # 1
        <5>1. i - 1 \in 1..n
          BY <4>2, <1>1
        <5>2. QED
          BY <5>1, <4>2, <1>5
      <4>3. QED
        BY <4>1, <4>2
    <3>2. QED
      BY <3>1
  <2>2. flat = [i \in 1..n |-> body(flat, i)]
    <3> HIDE DEF body, g
    <3>1. QED
      BY <2>1
  <2>3. FlattenSeq(ss) = flat[n]
    BY <1>8 DEF FlattenSeq
  <2> DEFINE J == {i \in Nat : i + 1 <= n => flat[i + 1] = g[i + 1]}
  <2>4. 0 \in J
    <3> SUFFICES ASSUME 1 <= n
                 PROVE  flat[1] = g[1]
      OBVIOUS
    <3>1. 1 \in 1..n
      BY <1>1
    <3> HIDE DEF flat, g
    <3>2. QED
      BY <3>1, <2>1, <2>2
  <2>5. ASSUME NEW i \in Nat, i \in J
        PROVE  i + 1 \in J
    <3> SUFFICES ASSUME i + 2 <= n
                 PROVE  flat[i + 2] = g[i + 2]
      OBVIOUS
    <3> HIDE DEF flat, g
    <3>1. /\ flat[i + 1] = g[i + 1]
          /\ i + 2 \in 1..n
          /\ i + 2 # 1
          /\ (i + 2) - 1 = i + 1
      BY <2>5, <1>1
    <3>2. flat[i + 2] = body(flat, i + 2) /\ g[i + 2] = body(g, i + 2)
      <4> HIDE DEF body
      <4>1. QED
        BY <3>1, <2>1, <2>2
    <3>3. QED
      BY <3>1, <3>2
  <2> HIDE DEF J, flat, g
  <2>6. Nat \subseteq J
    BY <2>4, <2>5, Induction
  <2>7. n - 1 \in Nat /\ (n - 1) + 1 = n
    BY <1>1, <1>8
  <2>8. flat[n] = g[n]
    <3>1. n - 1 \in J /\ n <= n
      BY <1>1, <2>6, <2>7
    <3> HIDE DEF n
    <3>2. QED
      BY <3>1, <2>7 DEF J
  <2>9. g[n] = f[n]
    BY <1>1, <1>8 DEF g
  <2>10. QED
    BY <1>6, <2>3, <2>8, <2>9
<1>9. QED
  BY <1>7, <1>8
\* Lists of elements of S are joined to one.
LEMMA FlattenType ==
    ASSUME NEW S, NEW ss \in Seq(Seq(S))
    PROVE  FlattenSeq(ss) \in Seq(S)
<1>1. PICK f : Joins(f, ss, S) /\ FlattenSeq(ss) = f[Len(ss)]
  BY FlattenRecurses
<1>2. Len(ss) \in 0..Len(ss)
  BY LenProperties
<1>3. QED
  BY <1>1, <1>2 DEF Joins

\* Two lists agree up to n.
Alike(ss, tt, n) ==
    /\ {Len(ss), Len(tt)} \subseteq Nat
    /\ n <= Len(ss) /\ n <= Len(tt)
    /\ \A i \in 1..n : ss[i] = tt[i]

\* The sequence of a join is determined by the ones it joins.
LEMMA JoinsUnique ==
    ASSUME NEW S, NEW ss, NEW tt, NEW f, NEW g, NEW n \in Nat,
           Joins(f, ss, S), Joins(g, tt, S), Alike(ss, tt, n)
    PROVE  f[n] = g[n]
<1> USE DEF Alike
<1> DEFINE J == {i \in Nat : i <= n => f[i] = g[i]}
<1>1. 0 \in J
  BY DEF Joins
<1>2. ASSUME NEW i \in Nat, i \in J
      PROVE  i + 1 \in J
  <2> SUFFICES ASSUME i + 1 <= n
               PROVE  f[i + 1] = g[i + 1]
    OBVIOUS
  <2>1. /\ f[i] = g[i]
        /\ i + 1 \in 1..Len(ss) /\ i + 1 \in 1..Len(tt) /\ i + 1 \in 1..n
        /\ (i + 1) - 1 = i
    BY <1>2
  <2>2. f[i + 1] = f[i] \o ss[i + 1] /\ g[i + 1] = g[i] \o tt[i + 1]
    BY <2>1 DEF Joins
  <2>3. QED
    BY <2>1, <2>2
<1> HIDE DEF J
<1>3. Nat \subseteq J
  BY <1>1, <1>2, Induction
<1>4. QED
  BY <1>3 DEF J

\* No lists are joined to an empty one.
LEMMA FlattenEmpty == FlattenSeq(<<>>) = <<>>
<1>1. Len(<<>>) = 0
  OBVIOUS
<1>2. QED
  BY <1>1 DEF FlattenSeq

\* A list behind the others comes last.
LEMMA FlattenAppend ==
    ASSUME NEW S, NEW ss \in Seq(Seq(S)), NEW s \in Seq(S)
    PROVE  FlattenSeq(Append(ss, s)) = FlattenSeq(ss) \o s
<1>1. PICK n : n = Len(ss) /\ n \in Nat
  OBVIOUS
<1>2. PICK tt : tt = Append(ss, s)
  OBVIOUS
<1>3. /\ tt \in Seq(Seq(S))
      /\ Len(tt) = n + 1
      /\ \A i \in 1..n : tt[i] = ss[i]
      /\ tt[n + 1] = s
  BY <1>1, <1>2, AppendProperties
<1>4. PICK f : Joins(f, ss, S) /\ FlattenSeq(ss) = f[n]
  BY <1>1, FlattenRecurses
<1>5. PICK g : Joins(g, tt, S) /\ FlattenSeq(tt) = g[n + 1]
  BY <1>3, FlattenRecurses
<1>6. f[n] = g[n]
  <2>1. n <= Len(ss) /\ n <= Len(tt) /\ Len(ss) \in Nat /\ Len(tt) \in Nat
    BY <1>1, <1>3
  <2>2. \A i \in 1..n : ss[i] = tt[i]
    BY <1>3
  <2>3. Joins(f, ss, S) /\ Joins(g, tt, S)
    BY <1>4, <1>5
  <2>4. Alike(ss, tt, n)
    BY <2>1, <2>2 DEF Alike
  <2>5. QED
    BY <2>3, <2>4, <1>1, JoinsUnique
<1>7. n + 1 \in 1..Len(tt) /\ (n + 1) - 1 = n
  BY <1>1, <1>3
<1>8. g[n + 1] = g[n] \o tt[n + 1]
  BY <1>5, <1>7 DEF Joins
<1>9. QED
  BY <1>2, <1>3, <1>4, <1>5, <1>6, <1>8

\* Every element comes from one of the lists.
LEMMA FlattenElements ==
    ASSUME NEW S, NEW ss \in Seq(Seq(S))
    PROVE  ToSet(FlattenSeq(ss)) = UNION {ToSet(ss[i]) : i \in 1..Len(ss)}
<1>1. PICK n : n = Len(ss) /\ n \in Nat
  OBVIOUS
<1>2. PICK f : Joins(f, ss, S) /\ FlattenSeq(ss) = f[n]
  BY <1>1, FlattenRecurses
<1>3. /\ f \in [0..n -> Seq(S)]
      /\ f[0] = <<>>
      /\ \A i \in 1..n : f[i] = f[i - 1] \o ss[i]
  BY <1>1, <1>2 DEF Joins
<1> DEFINE Good(m) == ToSet(f[m]) = UNION {ToSet(ss[i]) : i \in 1..m}
           J == {m \in Nat : m <= n => Good(m)}
<1>4. 0 \in J
  <2>1. ToSet(<<>>) = {} /\ 1..0 = {}
    BY DEF ToSet
  <2>2. QED
    BY <2>1, <1>3
<1>5. ASSUME NEW m \in Nat, m \in J
      PROVE  m + 1 \in J
  <2> SUFFICES ASSUME m + 1 <= n
               PROVE  Good(m + 1)
    OBVIOUS
  <2>1. /\ Good(m)
        /\ f[m] \in Seq(S)
        /\ m + 1 \in 1..n
        /\ (m + 1) - 1 = m
    BY <1>1, <1>3, <1>5
  <2>2. ss[m + 1] \in Seq(S)
    BY <1>1, <2>1
  <2>3. f[m + 1] = f[m] \o ss[m + 1]
    BY <1>3, <2>1
  <2>4. ToSet(f[m + 1]) = ToSet(f[m]) \cup ToSet(ss[m + 1])
    <3>1. Range(f[m] \o ss[m + 1]) = Range(f[m]) \cup Range(ss[m + 1])
      BY <2>1, <2>2, RangeConcatenation
    <3>2. \A s : ToSet(s) = Range(s)
      BY DEF ToSet, Range
    <3>3. QED
      BY <2>3, <3>1, <3>2
  <2>5. 1..m + 1 = 1..m \cup {m + 1}
    OBVIOUS
  <2>6. QED
    BY <2>1, <2>4, <2>5
<1> HIDE DEF J
<1>6. Nat \subseteq J
  BY <1>4, <1>5, Induction
<1>7. Good(n)
  <2>1. n \in J /\ n <= n
    BY <1>1, <1>6
  <2> HIDE DEF Good
  <2>2. QED
    BY <2>1 DEF J
<1>8. QED
  BY <1>1, <1>2, <1>7

\* The values of k do not decrease along 1..n and not along s, which takes each
\* of 1..n once.
SortedBoth(n, k, s) ==
    /\ \A i \in 1..n : k[i] \in Nat /\ s[i] \in 1..n
    /\ \A i, j \in 1..n : i <= j => k[i] <= k[j]
    /\ \A i, j \in 1..n : i <= j => k[s[i]] <= k[s[j]]
    /\ \A i, j \in 1..n : s[i] = s[j] => i = j

\* Then s changes no value: the i that have at most the value at s[i], or at
\* least it, would not have room otherwise.
LEMMA SortedAlike ==
    ASSUME NEW n \in Nat, NEW k, NEW s, SortedBoth(n, k, s)
    PROVE  \A i \in 1..n : k[s[i]] = k[i]
<1> USE DEF SortedBoth
<1>1. ASSUME NEW i \in Nat \ {0},
             NEW f \in [1..i -> 1..i - 1],
             \A a, b \in 1..i : f[a] = f[b] => a = b
      PROVE  FALSE
  <2>1. f \in Injection(1..i, 1..i - 1)
    BY <1>1 DEF Injection, IsInjective
  <2>2. ExistsInjection(1..i, 1..i - 1) /\ i \in Nat /\ i - 1 \in Nat
    BY <2>1 DEF ExistsInjection
  <2>3. i <= i - 1
    BY <2>2, Fun_NatInjLeq
  <2>4. QED
    BY <2>3
<1>2. ASSUME NEW i \in 1..n, k[s[i]] < k[i]
      PROVE  FALSE
  <2>1. ASSUME NEW a \in 1..i
        PROVE  s[a] \in 1..i - 1
    <3>1. a \in 1..n /\ a <= i
      OBVIOUS
    <3>2. k[s[a]] <= k[s[i]]
      BY <3>1
    <3>3. s[a] \in 1..n /\ s[i] \in 1..n
      BY <3>1
    <3>4. k[s[a]] < k[i]
      BY <1>2, <3>2, <3>3
    <3>5. ~(i <= s[a])
      BY <3>3, <3>4
    <3>6. QED
      BY <3>3, <3>5
  <2>2. PICK f : f = [a \in 1..i |-> s[a]]
    OBVIOUS
  <2>3. f \in [1..i -> 1..i - 1]
    BY <2>1, <2>2
  <2>4. \A a, b \in 1..i : f[a] = f[b] => a = b
    <3>1. \A a \in 1..i : a \in 1..n
      OBVIOUS
    <3>2. QED
      BY <2>2, <3>1
  <2>5. i \in Nat \ {0}
    OBVIOUS
  <2>6. QED
    BY <1>1, <2>3, <2>4, <2>5
<1>3. ASSUME NEW i \in 1..n, k[i] < k[s[i]]
      PROVE  FALSE
  <2>1. PICK r \in Nat \ {0} : r = n - i + 1
    OBVIOUS
  <2>2. ASSUME NEW b \in 1..r
        PROVE  b + i - 1 \in 1..n /\ s[b + i - 1] - i \in 1..r - 1
    <3>1. PICK a \in 1..n : a = b + i - 1
      BY <2>1
    <3>2. i <= a
      BY <3>1
    <3>3. k[s[i]] <= k[s[a]]
      BY <3>2
    <3>4. s[a] \in 1..n /\ s[i] \in 1..n
      OBVIOUS
    <3>5. k[i] < k[s[a]]
      BY <1>3, <3>3, <3>4
    <3>6. ~(s[a] <= i)
      BY <3>4, <3>5
    <3>7. QED
      BY <2>1, <3>1, <3>4, <3>6
  <2>3. PICK f : f = [b \in 1..r |-> s[b + i - 1] - i]
    OBVIOUS
  <2>4. f \in [1..r -> 1..r - 1]
    BY <2>2, <2>3
  <2>5. ASSUME NEW a \in 1..r, NEW b \in 1..r, f[a] = f[b]
        PROVE  a = b
    <3>1. s[a + i - 1] - i = s[b + i - 1] - i
      BY <2>3, <2>5
    <3>2. PICK x, y \in 1..n : x = a + i - 1 /\ y = b + i - 1
      BY <2>2
    <3>3. s[x] = s[y]
      <4>1. s[x] \in 1..n /\ s[y] \in 1..n /\ s[x] - i = s[y] - i
        BY <3>1, <3>2
      <4>2. QED
        BY <4>1
    <3>4. x = y
      BY <3>3
    <3>5. QED
      BY <3>2, <3>4
  <2>6. QED
    BY <1>1, <2>4, <2>5
<1>4. ASSUME NEW i \in 1..n
      PROVE  k[s[i]] = k[i]
  <2>1. k[s[i]] \in Nat /\ k[i] \in Nat
    OBVIOUS
  <2>2. QED
    BY <1>2, <1>3, <2>1
<1>5. QED
  BY <1>4

\* A set of natural numbers that has a bound has a greatest one.
LEMMA GreatestNat ==
    ASSUME NEW n \in Nat, NEW T, T \subseteq 0..n, T # {}
    PROVE  \E x \in T : \A y \in T : y <= x
<1>1. PICK U : U = {n - x : x \in T}
  OBVIOUS
<1>2. U \subseteq Nat /\ U # {}
  <2>1. \A x \in T : n - x \in Nat
    OBVIOUS
  <2>2. QED
    BY <1>1, <2>1
<1>3. PICK u \in U : \A v \in U : u <= v
  BY <1>2, LeastNat
<1>4. PICK x \in T : u = n - x
  BY <1>1
<1>5. ASSUME NEW y \in T
      PROVE  y <= x
  <2>1. n - y \in U /\ x \in 0..n /\ y \in 0..n
    BY <1>1
  <2>2. n - x <= n - y
    BY <1>3, <1>4, <2>1
  <2>3. QED
    BY <2>1, <2>2
<1>6. QED
  BY <1>5

\* A list from its end has the same elements.
LEMMA ReverseElements ==
    ASSUME NEW S, NEW s \in Seq(S)
    PROVE  /\ Reverse(s) \in Seq(S)
           /\ ToSet(Reverse(s)) = ToSet(s)
           /\ Once(s) => Once(Reverse(s))
<1>1. PICK n : n = Len(s) /\ n \in Nat
  OBVIOUS
<1>2. PICK t : t = Reverse(s)
  OBVIOUS
<1>3. t = [i \in 1..n |-> s[(n - i) + 1]]
  BY <1>1, <1>2 DEF Reverse
<1>4. ASSUME NEW i \in 1..n
      PROVE  (n - i) + 1 \in 1..n /\ (n - ((n - i) + 1)) + 1 = i
  BY <1>1
<1>5. t \in Seq(S) /\ Len(t) = n
  BY <1>1, <1>3, <1>4
<1>6. ASSUME NEW x \in ToSet(t)
      PROVE  x \in ToSet(s)
  <2>1. PICK i \in 1..n : t[i] = x
    BY <1>5, <1>6, Elements
  <2>2. x = s[(n - i) + 1]
    BY <1>3, <2>1
  <2>3. QED
    BY <1>1, <1>4, <2>2, Elements
<1>7. ASSUME NEW x \in ToSet(s)
      PROVE  x \in ToSet(t)
  <2>1. PICK i \in 1..n : s[i] = x
    BY <1>1, <1>7, Elements
  <2>2. PICK j \in 1..n : (n - j) + 1 = i
    BY <1>4
  <2>3. t[j] = x
    BY <1>3, <2>1, <2>2
  <2>4. QED
    BY <1>5, <2>3, Elements
<1>8. ASSUME Once(s)
      PROVE  Once(t)
  <2>1. ASSUME NEW i \in 1..n, NEW j \in 1..n, t[i] = t[j]
        PROVE  i = j
    <3>1. s[(n - i) + 1] = s[(n - j) + 1]
      BY <1>3, <2>1
    <3>2. (n - i) + 1 = (n - j) + 1
      BY <1>1, <1>4, <1>8, <3>1 DEF Once
    <3>3. QED
      BY <1>1, <3>2
  <2>2. QED
    BY <1>5, <2>1 DEF Once
<1>9. QED
  BY <1>2, <1>5, <1>6, <1>7, <1>8

\* Lists in none of which an element stands twice, and of which no two have
\* an element in common, make one in which none stands twice.
LEMMA FlattenOnce ==
    ASSUME NEW S, NEW ss \in Seq(Seq(S)),
           \A i \in 1..Len(ss) : Once(ss[i]),
           \A i, j \in 1..Len(ss) :
               i # j => ToSet(ss[i]) \cap ToSet(ss[j]) = {}
    PROVE  Once(FlattenSeq(ss))
<1>1. PICK n : n = Len(ss) /\ n \in Nat
  OBVIOUS
<1>2. PICK f : Joins(f, ss, S) /\ FlattenSeq(ss) = f[n]
  BY <1>1, FlattenRecurses
<1>3. /\ f \in [0..n -> Seq(S)]
      /\ f[0] = <<>>
      /\ \A i \in 1..n : f[i] = f[i - 1] \o ss[i]
  BY <1>1, <1>2 DEF Joins
<1> DEFINE Good(m) ==
               /\ Once(f[m])
               /\ \A x \in ToSet(f[m]) : \E i \in 1..m : x \in ToSet(ss[i])
           J == {m \in Nat : m <= n => Good(m)}
<1>4. 0 \in J
  <2>1. ToSet(<<>>) = {} /\ 1..0 = {}
    BY DEF ToSet
  <2>2. Once(<<>>)
    <3>1. Len(<<>>) = 0
      OBVIOUS
    <3>2. QED
      BY <3>1 DEF Once
  <2>3. QED
    BY <2>1, <2>2, <1>3
<1>5. ASSUME NEW m \in Nat, m \in J
      PROVE  m + 1 \in J
  <2> SUFFICES ASSUME m + 1 <= n
               PROVE  Good(m + 1)
    OBVIOUS
  <2>1. /\ Good(m)
        /\ f[m] \in Seq(S)
        /\ m + 1 \in 1..n
        /\ (m + 1) - 1 = m
    <3>1. m \in 0..n /\ m + 1 \in 1..n /\ (m + 1) - 1 = m
      BY <1>1
    <3>2. f[m] \in Seq(S)
      BY <1>3, <3>1
    <3>3. m <= n
      BY <1>1
    <3> HIDE DEF Good
    <3>4. Good(m)
      BY <1>5, <3>3
    <3>5. QED
      BY <3>1, <3>2, <3>4
  <2>2. ss[m + 1] \in Seq(S) /\ Once(ss[m + 1])
    BY <1>1, <2>1
  <2>3. f[m + 1] = f[m] \o ss[m + 1]
    BY <1>3, <2>1
  <2>4. ToSet(f[m + 1]) = ToSet(f[m]) \cup ToSet(ss[m + 1])
    BY <2>1, <2>2, <2>3, ConcatElements
  <2>5. \A i \in 1..m : i \in 1..n /\ i # m + 1
    BY <1>1
  <2>6. ToSet(f[m]) \cap ToSet(ss[m + 1]) = {}
    <3>1. ASSUME NEW x, x \in ToSet(f[m]), x \in ToSet(ss[m + 1])
          PROVE  FALSE
      <4>1. PICK i \in 1..m : x \in ToSet(ss[i])
        BY <2>1, <3>1
      <4>2. ToSet(ss[i]) \cap ToSet(ss[m + 1]) = {}
        BY <1>1, <2>1, <2>5
      <4>3. QED
        BY <3>1, <4>1, <4>2
    <3>2. QED
      BY <3>1
  <2>7. Once(f[m + 1])
    BY <2>1, <2>2, <2>3, <2>6, ConcatOnce
  <2>8. ASSUME NEW x \in ToSet(f[m + 1])
        PROVE  \E i \in 1..m + 1 : x \in ToSet(ss[i])
    <3>1. CASE x \in ToSet(f[m])
      BY <2>1, <3>1
    <3>2. CASE x \in ToSet(ss[m + 1])
      BY <2>1, <3>2
    <3>3. QED
      BY <2>4, <3>1, <3>2
  <2>9. QED
    BY <2>7, <2>8
<1> HIDE DEF J
<1>6. Nat \subseteq J
  BY <1>4, <1>5, Induction
<1>7. Good(n)
  <2>1. n \in J /\ n <= n
    BY <1>1, <1>6
  <2> HIDE DEF Good
  <2>2. QED
    BY <2>1 DEF J
<1>8. QED
  BY <1>1, <1>2, <1>7

\* A list in which each of 1..n stands once has n elements.
LEMMA OnceLength ==
    ASSUME NEW n \in Nat, NEW s \in Seq(1..n), Once(s), ToSet(s) = 1..n
    PROVE  Len(s) = n
<1>1. PICK k \in Nat : k = Len(s)
  OBVIOUS
<1>2. s \in [1..k -> 1..n]
  BY <1>1
<1>3. \A a, b \in 1..k : s[a] = s[b] => a = b
  BY <1>1 DEF Once
<1>4. \A t \in 1..n : \E a \in 1..k : s[a] = t
  BY <1>1, Elements
<1>5. s \in Injection(1..k, 1..n) /\ s \in Surjection(1..k, 1..n)
  BY <1>2, <1>3, <1>4 DEF Injection, IsInjective, Surjection
<1>6. ExistsBijection(1..k, 1..n)
  BY <1>5 DEF Bijection, ExistsBijection
<1>7. ExistsBijection(1..n, 1..n)
  BY Fun_ExistsBijReflexive
<1>8. QED
  BY <1>1, <1>6, <1>7, Fun_NatBijSame

\* The values of key do not decrease along s.
Sorted(s, key) == \A i, j \in 1..Len(s) : i <= j => key[s[i]] <= key[s[j]]

\* What is selected from a sorted list is sorted.
LEMMA SelectSorted ==
    ASSUME NEW S, NEW s \in Seq(S), NEW T, NEW key, Sorted(s, key)
    PROVE  Sorted(Select(s, T), key)
<1>1. PICK t : t = Select(s, T) /\ t \in Seq(S)
  BY SelectPlaces
<1>2. PICK h : Places(h, t, Len(s), s, T)
  BY <1>1, SelectPlaces
<1>3. PICK m, n \in Nat : m = Len(s) /\ n = Len(t)
  BY <1>1
<1>4. /\ \A i \in 1..n : h[i] \in 1..m /\ t[i] = s[h[i]]
      /\ \A i, j \in 1..n : i < j => h[i] < h[j]
  BY <1>2, <1>3 DEF Places
<1>5. ASSUME NEW i \in 1..n, NEW j \in 1..n, i <= j
      PROVE  key[t[i]] <= key[t[j]]
  <2>1. h[i] <= h[j]
    <3>1. CASE i = j
      BY <1>4, <3>1
    <3>2. CASE i # j
      BY <1>4, <1>5, <3>2
    <3>3. QED
      BY <3>1, <3>2
  <2>2. key[s[h[i]]] <= key[s[h[j]]]
    BY <1>3, <1>4, <2>1 DEF Sorted
  <2>3. QED
    BY <1>4, <2>2
<1>6. QED
  BY <1>1, <1>3, <1>5 DEF Sorted

\* The values in a list are at most those in the lists behind it.
Ascending(ss, key) ==
    \A i, j \in 1..Len(ss) : i <= j =>
        \A x \in ToSet(ss[i]), y \in ToSet(ss[j]) : key[x] <= key[y]

\* Two sorted lists make a sorted one, if the second goes on where the first
\* ends.
LEMMA ConcatSorted ==
    ASSUME NEW S, NEW s \in Seq(S), NEW t \in Seq(S), NEW key,
           Sorted(s, key), Sorted(t, key),
           \A x \in ToSet(s), y \in ToSet(t) : key[x] <= key[y]
    PROVE  Sorted(s \o t, key)
<1>1. PICK m \in Nat : m = Len(s)
  OBVIOUS
<1>2. PICK n \in Nat : n = Len(t)
  OBVIOUS
<1>3. PICK u : u = s \o t
  OBVIOUS
<1>4. /\ Len(u) = m + n
      /\ \A i \in 1..m + n : u[i] = IF i <= m THEN s[i] ELSE t[i - m]
  BY <1>1, <1>2, <1>3, ConcatProperties
<1>5. ASSUME NEW i \in 1..m + n, NEW j \in 1..m + n, i <= j
      PROVE  key[u[i]] <= key[u[j]]
  <2>1. CASE j <= m
    <3>1. i \in 1..m /\ j \in 1..m /\ u[i] = s[i] /\ u[j] = s[j]
      BY <1>4, <1>5, <2>1
    <3>2. QED
      BY <1>1, <1>5, <3>1 DEF Sorted
  <2>2. CASE i > m
    <3>1. PICK a, b \in 1..n : a = i - m /\ b = j - m
      BY <1>5, <2>2
    <3>2. u[i] = t[a] /\ u[j] = t[b] /\ a <= b
      BY <1>4, <1>5, <2>2, <3>1
    <3>3. QED
      BY <1>2, <3>2 DEF Sorted
  <2>3. CASE i <= m /\ j > m
    <3>1. i \in 1..m /\ u[i] = s[i]
      BY <1>4, <2>3
    <3>2. PICK b \in 1..n : b = j - m
      BY <2>3
    <3>3. u[j] = t[b]
      BY <1>4, <2>3, <3>2
    <3>4. s[i] \in ToSet(s) /\ t[b] \in ToSet(t)
      BY <1>1, <1>2, <3>1, Elements
    <3>5. QED
      BY <3>1, <3>3, <3>4
  <2>4. QED
    BY <2>1, <2>2, <2>3
<1>6. QED
  BY <1>3, <1>4, <1>5 DEF Sorted

\* Lists that ascend make a sorted one.
LEMMA FlattenSorted ==
    ASSUME NEW S, NEW ss \in Seq(Seq(S)), NEW key, Ascending(ss, key)
    PROVE  Sorted(FlattenSeq(ss), key)
<1>1. PICK n : n = Len(ss) /\ n \in Nat
  OBVIOUS
<1>2. PICK f : Joins(f, ss, S) /\ FlattenSeq(ss) = f[n]
  BY <1>1, FlattenRecurses
<1>3. /\ f \in [0..n -> Seq(S)]
      /\ f[0] = <<>>
      /\ \A i \in 1..n : f[i] = f[i - 1] \o ss[i]
  BY <1>1, <1>2 DEF Joins
<1> DEFINE Good(m) ==
               /\ Sorted(f[m], key)
               /\ \A x \in ToSet(f[m]) : \E i \in 1..m : x \in ToSet(ss[i])
           J == {m \in Nat : m <= n => Good(m)}
<1>4. 0 \in J
  <2>1. ToSet(<<>>) = {} /\ 1..0 = {}
    BY DEF ToSet
  <2>2. Sorted(<<>>, key)
    <3>1. Len(<<>>) = 0
      OBVIOUS
    <3>2. QED
      BY <3>1 DEF Sorted
  <2>3. QED
    BY <2>1, <2>2, <1>3
<1>5. ASSUME NEW m \in Nat, m \in J
      PROVE  m + 1 \in J
  <2> SUFFICES ASSUME m + 1 <= n
               PROVE  Good(m + 1)
    OBVIOUS
  <2>1. /\ Good(m)
        /\ f[m] \in Seq(S)
        /\ m + 1 \in 1..n
        /\ (m + 1) - 1 = m
    <3>1. m \in 0..n /\ m + 1 \in 1..n /\ (m + 1) - 1 = m
      BY <1>1
    <3>2. f[m] \in Seq(S)
      BY <1>3, <3>1
    <3>3. m <= n
      BY <1>1
    <3> HIDE DEF Good
    <3>4. Good(m)
      BY <1>5, <3>3
    <3>5. QED
      BY <3>1, <3>2, <3>4
  <2>2. ss[m + 1] \in Seq(S)
    BY <1>1, <2>1
  <2>3. f[m + 1] = f[m] \o ss[m + 1]
    BY <1>3, <2>1
  <2>4. ToSet(f[m + 1]) = ToSet(f[m]) \cup ToSet(ss[m + 1])
    BY <2>1, <2>2, <2>3, ConcatElements
  <2>5. \A i \in 1..m : i \in 1..n /\ i <= m + 1
    BY <1>1
  <2>6. ASSUME NEW x \in ToSet(f[m]), NEW y \in ToSet(ss[m + 1])
        PROVE  key[x] <= key[y]
    <3>1. PICK i \in 1..m : x \in ToSet(ss[i])
      BY <2>1
    <3>2. QED
      BY <1>1, <2>1, <2>5, <2>6, <3>1 DEF Ascending
  <2>7. Sorted(ss[m + 1], key)
    <3>1. PICK t : t = ss[m + 1] /\ t \in Seq(S)
      BY <2>2
    <3>2. m + 1 \in 1..Len(ss) /\ m + 1 <= m + 1
      BY <1>1, <2>1
    <3>3. \A x, y \in ToSet(t) : key[x] <= key[y]
      BY <3>1, <3>2 DEF Ascending
    <3>4. \A s \in Seq(S) : \A i \in 1..Len(s) : s[i] \in ToSet(s)
      BY Elements
    <3>5. QED
      BY <3>1, <3>3, <3>4 DEF Sorted
  <2>8. Sorted(f[m + 1], key)
    BY <2>1, <2>2, <2>3, <2>6, <2>7, ConcatSorted
  <2>9. ASSUME NEW x \in ToSet(f[m + 1])
        PROVE  \E i \in 1..m + 1 : x \in ToSet(ss[i])
    <3>1. CASE x \in ToSet(f[m])
      BY <2>1, <3>1
    <3>2. CASE x \in ToSet(ss[m + 1])
      BY <2>1, <3>2
    <3>3. QED
      BY <2>4, <3>1, <3>2
  <2>10. QED
    BY <2>8, <2>9
<1> HIDE DEF J
<1>6. Nat \subseteq J
  BY <1>4, <1>5, Induction
<1>7. Good(n)
  <2>1. n \in J /\ n <= n
    BY <1>1, <1>6
  <2> HIDE DEF Good
  <2>2. QED
    BY <2>1 DEF J
<1>8. QED
  BY <1>1, <1>2, <1>7
================================================================================
