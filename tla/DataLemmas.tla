---------------------------- MODULE DataLemmas ----------------------------
(***************************************************************************)
(* Induction on a measure, and the existence of functions defined by       *)
(* recursion.  The induction theorems of the library have an operator as a *)
(* parameter; here a property is the set of the numbers that have it.  The *)
(* sets 0 .. n are finite, and the strict inclusion of finite sets is well *)
(* founded: that every set of numbers has a least one follows.             *)
(* Loops are the recursions whose last step does nothing, with the rule of *)
(* invariants; then what FlattenSeq does to an appended sequence, and the  *)
(* sums of sequences.                                                      *)
(***************************************************************************)
EXTENDS SequencesExt, FiniteSetTheorems, SequenceTheorems, TLAPS

\* A nonempty set of numbers has a least one.
LEMMA LeastNat ==
    ASSUME NEW T, T \subseteq Nat, T # {}
    PROVE  \E n \in T : \A m \in T : n <= m
<1>. DEFINE U == {0 .. n : n \in T}
            R == StrictSubsetOrdering(Nat)
<1>1. \A n \in T : IsFiniteSet(0 .. n) /\ 0 .. n \in SUBSET Nat
  BY FS_Interval
<1>2. U \subseteq FiniteSubsetsOf(Nat)
  BY <1>1 DEF FiniteSubsetsOf
<1>3. U # {}
  OBVIOUS
<1>4. IsWellFoundedOn(R, FiniteSubsetsOf(Nat))
  BY FS_StrictSubsetOrderingWellFounded
<1>5. \E x \in U : \A y \in U : ~ (<<y, x>> \in R)
  <2>. HIDE DEF U, R
  <2>. QED
    BY <1>2, <1>3, <1>4, WFMin
<1>6. PICK n \in T : \A y \in U : <<y, 0 .. n>> \notin R
  BY <1>5
<1>7. ASSUME NEW m \in T, m < n PROVE FALSE
  <2>1. 0 .. m \subseteq 0 .. n /\ 0 .. m # 0 .. n
    <3>1. n \in 0 .. n /\ n \notin 0 .. m
      BY <1>7
    <3>. QED
      BY <1>7, <3>1
  <2>2. 0 .. m \in SUBSET Nat /\ 0 .. n \in SUBSET Nat /\ 0 .. m \in U
    BY <1>1
  <2>3. <<0 .. m, 0 .. n>> \in R
    <3>1. PICK a \in SUBSET Nat, b \in SUBSET Nat : a = 0 .. m /\ b = 0 .. n
      BY <2>2
    <3>2. <<a, b>> \in {ss \in (SUBSET Nat) \X (SUBSET Nat) : ss[1] \subseteq ss[2] /\ ss[1] # ss[2]}
      BY <2>1, <3>1
    <3>. QED
      BY <3>1, <3>2 DEF StrictSubsetOrdering
  <2>. QED
    BY <1>6, <2>2, <2>3
<1>. QED
  BY <1>6, <1>7

\* Induction from 0 to a bound.
LEMMA InductionTo ==
    ASSUME NEW n \in Nat, NEW P, 0 \in P, \A k \in 0 .. n - 1 : k \in P => k + 1 \in P
    PROVE  n \in P
<1>. DEFINE T == {k \in 0 .. n : k \notin P}
<1>1. SUFFICES ASSUME n \notin P PROVE FALSE
  OBVIOUS
<1>2. PICK k \in T : \A m \in T : k <= m
  <2>1. T \subseteq Nat /\ T # {}
    BY <1>1
  <2>. QED
    BY <2>1, LeastNat
<1>3. k - 1 \in 0 .. n - 1 /\ k - 1 \notin T
  BY <1>2
<1>. QED
  BY <1>2, <1>3

\* A recursion along a bounded measure: what is computed is known at Stop, and elsewhere step
\* computes it from the value at an argument of smaller measure.
Recursion(S, R, n, measure, Stop, out, next, step) ==
    /\ n \in Nat /\ measure \in [S -> 0 .. n]
    /\ Stop \in SUBSET S /\ out \in [S -> R]
    /\ next \in [S -> S] /\ step \in [S -> [R -> R]]
    /\ \A x \in S \ Stop : measure[next[x]] < measure[x]

Solution(S, Stop, out, next, step, f) ==
    \A x \in S : f[x] = IF x \in Stop THEN out[x] ELSE step[x][f[next[x]]]

\* Such a function exists.
LEMMA BoundedRecursion ==
    ASSUME NEW S, NEW R, NEW n, NEW measure, NEW Stop, NEW out, NEW next, NEW step,
           Recursion(S, R, n, measure, Stop, out, next, step)
    PROVE  \E f \in [S -> R] : Solution(S, Stop, out, next, step, f)
<1>. USE DEF Recursion, Solution
<1>. DEFINE Solves(f, k) ==
              \A x \in S : measure[x] <= k =>
                  f[x] = IF x \in Stop THEN out[x] ELSE step[x][f[next[x]]]
            P == {k \in 0 .. n : \E f \in [S -> R] : Solves(f, k)}
<1>1. \A x \in S : measure[x] \in 0 .. n /\ next[x] \in S /\ out[x] \in R /\ step[x] \in [R -> R]
  OBVIOUS
<1>2. 0 \in P
  <2>1. \A x \in S : measure[x] <= 0 => x \in Stop
    BY <1>1
  <2>2. Solves(out, 0)
    BY <2>1
  <2>. QED
    BY <2>2
<1>3. ASSUME NEW k \in 0 .. n - 1, k \in P PROVE k + 1 \in P
  <2>1. PICK f \in [S -> R] : Solves(f, k)
    BY <1>3
  <2>. DEFINE g == [x \in S |-> IF x \in Stop THEN out[x] ELSE step[x][f[next[x]]]]
  <2>2. g \in [S -> R]
    BY <1>1
  <2>3. \A x \in S : measure[x] <= k => g[x] = f[x]
    BY <2>1
  <2>4. \A x \in S \ Stop : measure[x] <= k + 1 => g[next[x]] = f[next[x]]
    BY <1>1, <2>3
  <2>5. Solves(g, k + 1)
    BY <2>4
  <2>6. \E h \in [S -> R] : Solves(h, k + 1)
    <3>. HIDE DEF Solves, g
    <3>. QED
      BY <2>2, <2>5
  <2>7. k + 1 \in 0 .. n
    OBVIOUS
  <2>. QED
    BY <2>6, <2>7
<1>4. n \in P
  <2>. HIDE DEF P
  <2>. QED
    BY <1>2, <1>3, InductionTo
<1>. QED
  BY <1>1, <1>4

\* Two solutions agree.
LEMMA OneSolution ==
    ASSUME NEW S, NEW R, NEW n, NEW measure, NEW Stop, NEW out, NEW next, NEW step,
           Recursion(S, R, n, measure, Stop, out, next, step),
           NEW f, NEW g,
           Solution(S, Stop, out, next, step, f), Solution(S, Stop, out, next, step, g)
    PROVE  \A x \in S : f[x] = g[x]
<1>. USE DEF Recursion, Solution
<1>. DEFINE T == {measure[x] : x \in {y \in S : f[y] # g[y]}}
<1>1. SUFFICES ASSUME NEW z \in S, f[z] # g[z] PROVE FALSE
  OBVIOUS
<1>2. T \subseteq Nat /\ T # {}
  BY <1>1
<1>3. PICK k \in T : \A m \in T : k <= m
  <2>. HIDE DEF T, Recursion, Solution
  <2>. QED
    BY <1>2, LeastNat
<1>4. PICK x \in S : f[x] # g[x] /\ measure[x] = k
  BY <1>3
<1>5. x \notin Stop /\ next[x] \in S /\ measure[next[x]] < measure[x]
  BY <1>4
<1>6. f[next[x]] = g[next[x]]
  <2>1. PICK j \in Nat : j = measure[next[x]] /\ j < k
    BY <1>4, <1>5
  <2>2. j \notin T
    <3>. HIDE DEF T
    <3>. QED
      BY <1>2, <1>3, <2>1
  <2>. QED
    BY <1>5, <2>1, <2>2
<1>. QED
  BY <1>4, <1>5, <1>6

\* The same along a measure without a bound.
MeasuredRecursion(S, R, measure, Stop, out, next, step) ==
    /\ measure \in [S -> Nat]
    /\ Stop \in SUBSET S /\ out \in [S -> R]
    /\ next \in [S -> S] /\ step \in [S -> [R -> R]]
    /\ \A x \in S \ Stop : measure[next[x]] < measure[x]

LEMMA RecursionExists ==
    ASSUME NEW S, NEW R, NEW measure, NEW Stop, NEW out, NEW next, NEW step,
           MeasuredRecursion(S, R, measure, Stop, out, next, step)
    PROVE  \E f \in [S -> R] : Solution(S, Stop, out, next, step, f)
<1>. DEFINE Part(n) == {x \in S : measure[x] <= n}
            Next(n) == [x \in Part(n) |-> IF x \in Stop THEN x ELSE next[x]]
            Measure(n) == [x \in Part(n) |-> measure[x]]
            Out(n) == [x \in Part(n) |-> out[x]]
            Step(n) == [x \in Part(n) |-> step[x]]
            Solves(n, f) == Solution(Part(n), Stop \cap Part(n), Out(n), Next(n), Step(n), f)
            F(n) == CHOOSE f \in [Part(n) -> R] : Solves(n, f)
            g == [x \in S |-> F(measure[x])[x]]
<1>1. /\ \A x \in S : measure[x] \in Nat /\ out[x] \in R /\ next[x] \in S /\ step[x] \in [R -> R]
      /\ \A x \in S \ Stop : measure[next[x]] < measure[x]
      /\ Stop \subseteq S
  BY DEF MeasuredRecursion
<1>2. ASSUME NEW n \in Nat
      PROVE  Recursion(Part(n), R, n, Measure(n), Stop \cap Part(n), Out(n), Next(n), Step(n))
  <2>1. Measure(n) \in [Part(n) -> 0 .. n] /\ Out(n) \in [Part(n) -> R] /\ Step(n) \in [Part(n) -> [R -> R]]
    BY <1>1
  <2>2. /\ Next(n) \in [Part(n) -> Part(n)]
        /\ \A x \in Part(n) \ (Stop \cap Part(n)) : Measure(n)[Next(n)[x]] < Measure(n)[x]
    <3>1. \A x \in Part(n) \ Stop : next[x] \in Part(n) /\ measure[next[x]] < measure[x]
      BY <1>1
    <3>. QED
      BY <3>1
  <2>. HIDE DEF Measure, Next, Out, Step, Part
  <2>. QED
    BY <2>1, <2>2 DEF Recursion
<1>3. ASSUME NEW n \in Nat PROVE F(n) \in [Part(n) -> R] /\ Solves(n, F(n))
  <2>1. \E f \in [Part(n) -> R] : Solves(n, f)
    <3>. HIDE DEF Measure, Next, Out, Step, Part
    <3>. QED
      BY <1>2, BoundedRecursion
  <2>. HIDE DEF Solves, Part
  <2>. QED
    BY <2>1
<1>4. ASSUME NEW n \in Nat, NEW m \in 0 .. n PROVE \A x \in Part(m) : F(n)[x] = F(m)[x]
  <2>1. Solves(m, F(n))
    <3>1. Part(m) \subseteq Part(n)
      BY <1>1
    <3>0. Solves(n, F(n))
      BY <1>3
    <3>. HIDE DEF F
    <3>2. ASSUME NEW x \in Part(m)
          PROVE  F(n)[x] = IF x \in Stop \cap Part(m) THEN Out(m)[x] ELSE Step(m)[x][F(n)[Next(m)[x]]]
      <4>1. x \in Part(n) /\ Out(m)[x] = Out(n)[x] /\ Next(m)[x] = Next(n)[x] /\ Step(m)[x] = Step(n)[x]
        BY <3>1
      <4>2. F(n)[x] = IF x \in Stop \cap Part(n) THEN Out(n)[x] ELSE Step(n)[x][F(n)[Next(n)[x]]]
        <5>. HIDE DEF Measure, Next, Out, Step, Part
        <5>. QED
          BY <3>0, <4>1 DEF Solution
      <4>3. x \in Stop \cap Part(n) <=> x \in Stop \cap Part(m)
        BY <4>1
      <4>. HIDE DEF Measure, Next, Out, Step, Part
      <4>. QED
        BY <4>1, <4>2, <4>3
    <3>. HIDE DEF Measure, Next, Out, Step, Part
    <3>. QED
      BY <3>2 DEF Solution
  <2>2. m \in Nat
    OBVIOUS
  <2>3. PICK a, b : a = F(n) /\ b = F(m) /\ Solves(m, a) /\ Solves(m, b)
    <3>. HIDE DEF F, Solves
    <3>. QED
      BY <1>3, <2>1, <2>2
  <2>4. \A x \in Part(m) : a[x] = b[x]
    <3>. HIDE DEF F, Measure, Next, Out, Step, Part
    <3>. QED
      BY <1>2, <2>2, <2>3, OneSolution
  <2>. HIDE DEF F, Part
  <2>. QED
    BY <2>3, <2>4
<1>5. ASSUME NEW x \in S
      PROVE  g[x] \in R /\ g[x] = IF x \in Stop THEN out[x] ELSE step[x][g[next[x]]]
  <2>1. PICK n \in Nat : n = measure[x] /\ x \in Part(n)
    BY <1>1
  <2>2. g[x] = F(n)[x] /\ F(n)[x] \in R
    <3>1. g[x] = F(n)[x]
      <4>. HIDE DEF F
      <4>. QED
        BY <2>1
    <3>. HIDE DEF F, Part
    <3>. QED
      BY <1>3, <2>1, <3>1
  <2>3. F(n)[x] = IF x \in Stop \cap Part(n) THEN Out(n)[x] ELSE Step(n)[x][F(n)[Next(n)[x]]]
    <3>1. Solves(n, F(n))
      BY <1>3
    <3>. HIDE DEF F, Measure, Next, Out, Step, Part
    <3>. QED
      BY <2>1, <3>1 DEF Solution
  <2>4. CASE x \in Stop
    <3>. HIDE DEF F
    <3>. QED
      BY <2>1, <2>2, <2>3, <2>4
  <2>5. CASE x \notin Stop
    <3>1. PICK m \in 0 .. n : m = measure[next[x]] /\ next[x] \in Part(m) /\ next[x] \in S
      BY <1>1, <2>1, <2>5
    <3>2. F(n)[next[x]] = F(m)[next[x]]
      <4>. HIDE DEF F, Part
      <4>. QED
        BY <1>4, <3>1
    <3>3. g[next[x]] = F(m)[next[x]]
      <4>. HIDE DEF F
      <4>. QED
        BY <3>1
    <3>4. F(n)[x] = step[x][F(n)[next[x]]]
      <4>. HIDE DEF F
      <4>. QED
        BY <2>1, <2>3, <2>5
    <3>. HIDE DEF F, g
    <3>. QED
      BY <2>2, <2>5, <3>2, <3>3, <3>4
  <2>. HIDE DEF F, g
  <2>. QED
    BY <2>2, <2>4, <2>5
<1>. HIDE DEF F
<1>6. g \in [S -> R]
  BY <1>5
<1>7. Solution(S, Stop, out, next, step, g)
  <2>. HIDE DEF g
  <2>. QED
    BY <1>5 DEF Solution
<1>. HIDE DEF g
<1>. QED
  BY <1>6, <1>7

-----------------------------------------------------------------------------
(* Loops: a recursion that ends in the value at the last argument.             *)

\* A loop goes from x to next[x] until it is in Stop, where its value is out[x].
Looping(S, R, measure, Stop, out, next) ==
    /\ measure \in [S -> Nat]
    /\ Stop \in SUBSET S /\ out \in [S -> R]
    /\ next \in [S -> S]
    /\ \A x \in S \ Stop : measure[next[x]] < measure[x]

Looped(S, Stop, out, next, f) ==
    \A x \in S : f[x] = IF x \in Stop THEN out[x] ELSE f[next[x]]

LEMMA LoopExists ==
    ASSUME NEW S, NEW R, NEW measure, NEW Stop, NEW out, NEW next,
           Looping(S, R, measure, Stop, out, next)
    PROVE  \E f \in [S -> R] : Looped(S, Stop, out, next, f)
<1>. DEFINE step == [x \in S |-> [r \in R |-> r]]
<1>1. MeasuredRecursion(S, R, measure, Stop, out, next, step)
  BY DEF Looping, MeasuredRecursion
<1>2. PICK f \in [S -> R] : Solution(S, Stop, out, next, step, f)
  <2>. HIDE DEF step
  <2>. QED
    BY <1>1, RecursionExists
<1>3. ASSUME NEW x \in S PROVE f[x] = IF x \in Stop THEN out[x] ELSE f[next[x]]
  <2>1. next[x] \in S /\ f[next[x]] \in R
    BY DEF Looping
  <2>2. f[x] = IF x \in Stop THEN out[x] ELSE step[x][f[next[x]]]
    <3>. HIDE DEF step
    <3>. QED
      BY <1>2 DEF Solution
  <2>. QED
    BY <2>1, <2>2
<1>. QED
  BY <1>3 DEF Looped

\* What holds at the start and is kept by every turn holds at the end.
LEMMA LoopInvariant ==
    ASSUME NEW S, NEW R, NEW measure, NEW Stop, NEW out, NEW next,
           Looping(S, R, measure, Stop, out, next),
           NEW f, Looped(S, Stop, out, next, f),
           NEW P, P \subseteq S, \A x \in P \ Stop : next[x] \in P,
           NEW start \in P
    PROVE  \E x \in P \cap Stop : f[start] = out[x]
<1>. USE DEF Looping, Looped
<1>. DEFINE Q == {x \in P : \E y \in P \cap Stop : f[x] = out[y]}
            T == {measure[x] : x \in P \ Q}
<1>1. SUFFICES ASSUME start \notin Q PROVE FALSE
  OBVIOUS
<1>2. T \subseteq Nat /\ T # {}
  BY <1>1
<1>3. PICK k \in T : \A m \in T : k <= m
  <2>. HIDE DEF T
  <2>. QED
    BY <1>2, LeastNat
<1>4. PICK x \in P \ Q : measure[x] = k
  BY <1>3
<1>5. x \notin Stop
  BY <1>4
<1>6. next[x] \in P /\ measure[next[x]] < measure[x] /\ f[x] = f[next[x]]
  BY <1>4, <1>5
<1>7. next[x] \in Q
  <2>1. PICK j \in Nat : j = measure[next[x]] /\ j < k
    BY <1>4, <1>6
  <2>2. j \notin T
    <3>. HIDE DEF T
    <3>. QED
      BY <1>2, <1>3, <2>1
  <2>. QED
    BY <1>6, <2>1, <2>2
<1>. QED
  BY <1>4, <1>6, <1>7

-----------------------------------------------------------------------------
(* FlattenSeq, which the community modules define by recursion.                *)

\* What FlattenSeq chooses.
LEMMA FlattenFunction ==
    ASSUME NEW S, NEW ss \in Seq(Seq(S)), ss # <<>>
    PROVE  \E f \in [1 .. Len(ss) -> Seq(S)] :
              /\ f[1] = ss[1]
              /\ \A i \in 2 .. Len(ss) : f[i] = f[i - 1] \o ss[i]
              /\ FlattenSeq(ss) = f[Len(ss)]
<1>. DEFINE Cat(x, y) == x \o y
<1>1. PICK n \in Nat, T \in {Seq(S)} : /\ n = Len(ss) /\ n >= 1 /\ T = Seq(S)
                          /\ \A i \in 1 .. n : ss[i] \in T
                          /\ \A x, y \in T : Cat(x, y) \in T
  <2>1. Len(ss) \in Nat /\ Len(ss) >= 1 /\ \A i \in 1 .. Len(ss) : ss[i] \in Seq(S)
    BY EmptySeq, LenProperties, ElementOfSeq
  <2>2. \A x, y \in Seq(S) : x \o y \in Seq(S)
    BY ConcatProperties
  <2>. QED
    BY <2>1, <2>2
<1>. DEFINE Value(f, i) == IF i = 1 THEN ss[i] ELSE Cat(f[i - 1], ss[i])
            Solves(f) == f = [i \in 1 .. n |-> Value(f, i)]
            out == [i \in 1 .. n |-> ss[i]]
            next == [i \in 1 .. n |-> IF i = 1 THEN 1 ELSE i - 1]
            step == [i \in 1 .. n |-> [r \in T |-> Cat(r, ss[i])]]
            measure == [i \in 1 .. n |-> i]
            Stop == {1}
            D == 1 .. n
<1>2. FlattenSeq(ss) = (CHOOSE f : Solves(f))[n]
  BY <1>1 DEF FlattenSeq
<1>. HIDE DEF Cat
<1>3. \E f \in [1 .. n -> T] : Solves(f)
  <2>1. Recursion(D, T, n, measure, Stop, out, next, step)
    BY <1>1 DEF Recursion
  <2>2. PICK f \in [D -> T] : Solution(D, Stop, out, next, step, f)
    <3>. HIDE DEF out, next, step, measure, Stop, D
    <3>. QED
      BY <2>1, BoundedRecursion
  <2>3. ASSUME NEW i \in 1 .. n PROVE f[i] = Value(f, i)
    <3>1. i \in D /\ (i # 1 => next[i] = i - 1 /\ i - 1 \in D)
      OBVIOUS
    <3>2. i # 1 => step[i][f[i - 1]] = Cat(f[i - 1], ss[i])
      BY <3>1
    <3>. QED
      BY <2>2, <3>1, <3>2 DEF Solution
  <2>. QED
    BY <2>3
<1>4. PICK f : Solves(f) /\ FlattenSeq(ss) = f[n]
  BY <1>2, <1>3
<1>5. \A i \in 1 .. n : f[i] = Value(f, i)
  BY <1>4
<1>6. f[1] = ss[1] /\ \A i \in 2 .. n : f[i] = Cat(f[i - 1], ss[i])
  BY <1>1, <1>5
<1>7. ASSUME NEW m \in 1 .. n PROVE f[m] \in T
  <2>. DEFINE P == {k \in 0 .. n - 1 : f[k + 1] \in T}
  <2>1. 0 \in P
    BY <1>1, <1>6
  <2>2. ASSUME NEW k \in 0 .. (m - 1) - 1, k \in P PROVE k + 1 \in P
    <3>1. k + 2 \in 2 .. n /\ (k + 2) - 1 = k + 1
      OBVIOUS
    <3>2. f[k + 2] = Cat(f[k + 1], ss[k + 2]) /\ f[k + 1] \in T /\ ss[k + 2] \in T
      BY <1>1, <1>6, <2>2, <3>1
    <3>. QED
      BY <1>1, <3>1, <3>2
  <2>3. m - 1 \in P
    <3>. HIDE DEF P
    <3>1. m - 1 \in Nat
      OBVIOUS
    <3>. QED
      BY <2>1, <2>2, <3>1, InductionTo
  <2>. QED
    BY <2>3
<1>8. f \in [1 .. n -> T]
  BY <1>4, <1>7
<1>. QED
  BY <1>1, <1>4, <1>6, <1>8 DEF Cat

LEMMA FlattenEmpty == FlattenSeq(<<>>) = <<>>
BY DEF FlattenSeq

\* A part more.
LEMMA FlattenAppend ==
    ASSUME NEW S, NEW ss \in Seq(Seq(S)), NEW x \in Seq(S)
    PROVE  /\ FlattenSeq(ss) \in Seq(S)
           /\ FlattenSeq(Append(ss, x)) = FlattenSeq(ss) \o x
<1>. DEFINE tt == Append(ss, x)
            Cat(a, b) == a \o b
<1>1. PICK n \in Nat : n = Len(ss) /\ Len(tt) = n + 1 /\ tt \in Seq(Seq(S)) /\ tt # <<>>
                       /\ (\A i \in 1 .. n : tt[i] = ss[i]) /\ tt[n + 1] = x
  BY AppendProperties, LenProperties
<1>2. PICK g \in [1 .. n + 1 -> Seq(S)] :
          /\ g[1] = tt[1]
          /\ \A i \in 2 .. n + 1 : g[i] = Cat(g[i - 1], tt[i])
          /\ FlattenSeq(tt) = g[n + 1]
  <2>1. PICK m, d : m = Len(tt) /\ d = tt /\ m = n + 1 /\ d \in Seq(Seq(S)) /\ d # <<>>
    BY <1>1
  <2>2. \E g \in [1 .. Len(d) -> Seq(S)] :
            /\ g[1] = d[1]
            /\ \A i \in 2 .. Len(d) : g[i] = g[i - 1] \o d[i]
            /\ FlattenSeq(d) = g[Len(d)]
    BY <2>1, FlattenFunction
  <2>3. Len(d) = n + 1 /\ d = tt
    BY <2>1
  <2>. HIDE DEF tt
  <2>. QED
    BY <2>2, <2>3
<1>3. CASE ss = <<>>
  <2>1. n = 0
    BY <1>1, <1>3, EmptySeq
  <2>2. FlattenSeq(tt) = x
    <3>. HIDE DEF tt, Cat
    <3>. QED
      BY <1>1, <1>2, <2>1
  <2>3. FlattenSeq(ss) = <<>> /\ <<>> \in Seq(S)
    BY <1>3, FlattenEmpty, EmptySeq
  <2>. QED
    BY <2>2, <2>3, ConcatEmptySeq
<1>4. CASE ss # <<>>
  <2>1. PICK f \in [1 .. n -> Seq(S)] :
            /\ f[1] = ss[1]
            /\ \A i \in 2 .. n : f[i] = Cat(f[i - 1], ss[i])
            /\ FlattenSeq(ss) = f[n]
    BY <1>1, <1>4, FlattenFunction
  <2>2. n >= 1
    BY <1>1, <1>4, EmptySeq
  <2>. DEFINE P == {k \in 0 .. n - 1 : f[k + 1] = g[k + 1]}
  <2>. HIDE DEF tt, Cat
  <2>3. 0 \in P
    BY <1>1, <1>2, <2>1, <2>2
  <2>4. ASSUME NEW k \in 0 .. (n - 1) - 1, k \in P PROVE k + 1 \in P
    <3>1. k + 2 \in 2 .. n /\ k + 2 \in 2 .. n + 1 /\ (k + 2) - 1 = k + 1 /\ k + 2 \in 1 .. n
      OBVIOUS
    <3>2. f[k + 2] = Cat(f[k + 1], ss[k + 2]) /\ g[k + 2] = Cat(g[k + 1], tt[k + 2])
      BY <1>2, <2>1, <3>1
    <3>. QED
      BY <1>1, <2>4, <3>1, <3>2
  <2>5. n - 1 \in P
    <3>. HIDE DEF P
    <3>. QED
      BY <2>2, <2>3, <2>4, InductionTo
  <2>6. f[n] = g[n] /\ f[n] \in Seq(S)
    BY <2>2, <2>5
  <2>7. g[n + 1] = Cat(g[n], x)
    <3>1. n + 1 \in 2 .. n + 1 /\ (n + 1) - 1 = n
      BY <2>2
    <3>2. g[n + 1] = Cat(g[(n + 1) - 1], tt[n + 1])
      BY <1>2, <3>1
    <3>. QED
      BY <1>1, <3>1, <3>2
  <2>. QED
    BY <1>2, <2>1, <2>6, <2>7 DEF tt, Cat
<1>. QED
  BY <1>3, <1>4

\* Two runs of parts.
LEMMA FlattenConcat ==
    ASSUME NEW S, NEW ss \in Seq(Seq(S)), NEW tt \in Seq(Seq(S))
    PROVE  FlattenSeq(ss \o tt) = FlattenSeq(ss) \o FlattenSeq(tt)
<1>. DEFINE first(k) == SubSeq(tt, 1, k)
            P == {k \in 0 .. Len(tt) :
                    FlattenSeq(ss \o first(k)) = FlattenSeq(ss) \o FlattenSeq(first(k))}
<1>1. Len(tt) \in Nat /\ \A i \in 1 .. Len(tt) : tt[i] \in Seq(S)
  BY LenProperties, ElementOfSeq
<1>2. \A k \in 0 .. Len(tt) : first(k) \in Seq(Seq(S))
  BY <1>1, SubSeqProperties
<1>3. 0 \in P
  <2>1. first(0) = <<>> /\ ss \o <<>> = ss
    BY SubSeqEmpty, ConcatEmptySeq
  <2>2. FlattenSeq(ss) \in Seq(S) /\ FlattenSeq(<<>>) = <<>>
    BY FlattenAppend, FlattenEmpty, EmptySeq
  <2>3. FlattenSeq(ss) \o <<>> = FlattenSeq(ss)
    BY <2>2, ConcatEmptySeq
  <2>4. FlattenSeq(ss \o first(0)) = FlattenSeq(ss) \o FlattenSeq(first(0))
    <3>. HIDE DEF first
    <3>. QED
      BY <2>1, <2>2, <2>3
  <2>. QED
    BY <1>1, <2>4
<1>4. ASSUME NEW k \in 0 .. Len(tt) - 1, k \in P PROVE k + 1 \in P
  <2>1. PICK a, b, x, T : /\ T = Seq(S) /\ x \in T /\ x = tt[k + 1]
                          /\ ss \in Seq(T) /\ a \in Seq(T) /\ a = first(k) /\ b = ss \o a
    <3>1. k + 1 \in 1 .. Len(tt) /\ k \in 0 .. Len(tt)
      BY <1>1
    <3>. HIDE DEF first
    <3>. QED
      BY <1>1, <1>2, <3>1
  <2>2. first(k + 1) = Append(a, x)
    <3>1. k + 1 \in 1 .. Len(tt) /\ 1 \in 1 .. Len(tt) /\ k + 1 \in 1 .. Len(tt) /\ (k + 1) - 1 = k
      BY <1>1
    <3>2. SubSeq(tt, 1, k + 1) = SubSeq(tt, 1, k) \o <<tt[k + 1]>>
      BY <3>1, SubSeqRecursiveSecond
    <3>. QED
      BY <2>1, <3>2, AppendIsConcat
  <2>3. ss \o Append(a, x) = Append(b, x) /\ b \in Seq(T)
    <3>1. b \in Seq(T) /\ <<x>> \in Seq(T)
      BY <2>1, ConcatProperties
    <3>2. Append(a, x) = a \o <<x>> /\ Append(b, x) = b \o <<x>>
      BY <2>1, <3>1, AppendIsConcat
    <3>3. PICK u, v, w \in Seq(T) : u = ss /\ v = a /\ w = <<x>>
      BY <2>1, <3>1
    <3>4. u \o (v \o w) = (u \o v) \o w
      BY ConcatAssociative, SMTT(60)
    <3>. QED
      BY <2>1, <3>1, <3>2, <3>3, <3>4
  <2>4. FlattenSeq(Append(b, x)) = FlattenSeq(b) \o x /\ FlattenSeq(Append(a, x)) = FlattenSeq(a) \o x
    BY <2>1, <2>3, FlattenAppend
  <2>5. FlattenSeq(ss) \in T /\ FlattenSeq(a) \in T
    BY <2>1, FlattenAppend
  <2>6. FlattenSeq(b) = FlattenSeq(ss) \o FlattenSeq(a)
    <3>. HIDE DEF first
    <3>. QED
      BY <1>4, <2>1
  <2>7. FlattenSeq(b) \o x = FlattenSeq(ss) \o (FlattenSeq(a) \o x)
    <3>1. PICK c, d \in Seq(S) : c = FlattenSeq(ss) /\ d = FlattenSeq(a)
      BY <2>1, <2>5
    <3>2. x \in Seq(S)
      BY <2>1
    <3>3. (c \o d) \o x = c \o (d \o x)
      BY <3>2, ConcatAssociative, SMTT(60)
    <3>. QED
      BY <2>6, <3>1, <3>3
  <2>8. k + 1 \in 0 .. Len(tt)
    BY <1>1
  <2>. QED
    BY <2>2, <2>3, <2>4, <2>7, <2>8
<1>5. Len(tt) \in P
  <2>. HIDE DEF P
  <2>. QED
    BY <1>1, <1>3, <1>4, InductionTo
<1>. QED
  BY <1>1, <1>5, SubSeqFull

\* A single part.
LEMMA FlattenOne ==
    ASSUME NEW S, NEW x \in Seq(S)
    PROVE  FlattenSeq(<<x>>) = x
<1>1. <<>> \in Seq(Seq(S)) /\ <<>> \o x = x
  BY EmptySeq, ConcatEmptySeq
<1>2. FlattenSeq(Append(<<>>, x)) = FlattenSeq(<<>>) \o x
  BY <1>1, FlattenAppend
<1>3. Append(<<>>, x) = <<x>>
  OBVIOUS
<1>. QED
  BY <1>1, <1>2, <1>3, FlattenEmpty
-----------------------------------------------------------------------------
(* Sums of what w gives to the places 1 .. n                                   *)

Summed(n, w, f) == f = [k \in 0 .. n |-> IF k = 0 THEN 0 ELSE f[k - 1] + w[k]]

LEMMA SumExists ==
    ASSUME NEW n \in Nat, NEW w \in [1 .. n -> Nat]
    PROVE  \E f \in [0 .. n -> Nat] : Summed(n, w, f)
<1>. DEFINE S == 0 .. n
            id == [k \in S |-> k]
            out == [k \in S |-> 0]
            next == [k \in S |-> IF k = 0 THEN 0 ELSE k - 1]
            step == [k \in S |-> [r \in Nat |-> IF k = 0 THEN 0 ELSE r + w[k]]]
<1>1. \A k \in S : k # 0 => k \in 1 .. n /\ k - 1 \in S
  OBVIOUS
<1>2. \A k \in S : step[k] \in [Nat -> Nat]
  BY <1>1
<1>3. Recursion(S, Nat, n, id, {0}, out, next, step)
  <2>1. next \in [S -> S] /\ \A k \in S \ {0} : id[next[k]] < id[k]
    BY <1>1
  <2>2. step \in [S -> [Nat -> Nat]]
    BY <1>2
  <2>3. id \in [S -> 0 .. n] /\ {0} \in SUBSET S /\ out \in [S -> Nat]
    OBVIOUS
  <2>. HIDE DEF S, id, out, next, step
  <2>. QED
    BY <2>1, <2>2, <2>3 DEF Recursion
<1>4. PICK f \in [S -> Nat] : Solution(S, {0}, out, next, step, f)
  <2>. HIDE DEF S, id, out, next, step
  <2>. QED
    BY <1>3, BoundedRecursion
<1>5. ASSUME NEW k \in S PROVE f[k] = IF k = 0 THEN 0 ELSE f[k - 1] + w[k]
  <2>1. f[k] = IF k \in {0} THEN out[k] ELSE step[k][f[next[k]]]
    BY <1>4 DEF Solution
  <2>2. CASE k = 0
    BY <2>1, <2>2
  <2>3. CASE k # 0
    <3>1. next[k] = k - 1 /\ k - 1 \in S /\ f[k - 1] \in Nat
      BY <1>1, <2>3
    <3>. QED
      BY <2>1, <2>3, <3>1
  <2>. QED
    BY <2>2, <2>3
<1>. QED
  BY <1>5 DEF Summed

\* Sums agree where what they add agrees.
LEMMA SumsAgree ==
    ASSUME NEW m \in Nat, NEW n \in Nat, m <= n, NEW v, NEW w, NEW f, NEW g,
           Summed(m, v, f), Summed(n, w, g), \A k \in 1 .. m : v[k] = w[k]
    PROVE  f[m] = g[m]
<1>. DEFINE P == {k \in 0 .. m : f[k] = g[k]}
<1>1. /\ \A k \in 0 .. m : f[k] = IF k = 0 THEN 0 ELSE f[k - 1] + v[k]
      /\ \A k \in 0 .. n : g[k] = IF k = 0 THEN 0 ELSE g[k - 1] + w[k]
  BY DEF Summed
<1>2. 0 \in P
  BY <1>1
<1>3. ASSUME NEW k \in 0 .. m - 1, k \in P PROVE k + 1 \in P
  <2>1. k + 1 \in 0 .. m /\ k + 1 \in 0 .. n /\ k + 1 # 0 /\ (k + 1) - 1 = k /\ k + 1 \in 1 .. m
    OBVIOUS
  <2>2. f[k + 1] = f[k] + v[k + 1] /\ g[k + 1] = g[k] + w[k + 1]
    BY <1>1, <2>1
  <2>. QED
    BY <1>3, <2>1, <2>2
<1>4. m \in P
  <2>. HIDE DEF P
  <2>. QED
    BY <1>2, <1>3, InductionTo
<1>. QED
  BY <1>4

=============================================================================
