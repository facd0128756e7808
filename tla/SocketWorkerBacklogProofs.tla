---------------------- MODULE SocketWorkerBacklogProofs ----------------------
(* The backlog of a pool: what the recursive definitions over its queue compute, and *)
(* that the queue, its byte count and its timer stay in step.                        *)
EXTENDS SocketWorkerProofs, FiniteSetTheorems

-----------------------------------------------------------------------------
(* Induction over the natural numbers, for sets of numbers. *)

\* A set of natural numbers that is not empty has a least element.
LEMMA LeastNumber ==
  ASSUME NEW T, T \subseteq Nat, T # {}
  PROVE  \E x \in T : \A y \in T : x <= y
<1> DEFINE R == OpToRel(<, Nat)
<1>1. IsWellFoundedOn(R, Nat)
  BY NatLessThanWellFounded
<1> HIDE DEF R
<1>2. PICK x \in T : \A y \in T : ~(<<y, x>> \in R)
  BY <1>1, WFMin
<1>3. \A y \in T : ~(y < x)
  BY <1>2 DEF R, OpToRel
<1> QED BY <1>3

\* Induction over the natural numbers, the predicate being a set.
LEMMA Induction ==
  \A S : 0 \in S /\ (\A n \in Nat : n \in S => n + 1 \in S) => \A n \in Nat : n \in S
<1> SUFFICES ASSUME NEW S, 0 \in S, \A n \in Nat : n \in S => n + 1 \in S
             PROVE  \A n \in Nat : n \in S
  OBVIOUS
<1> DEFINE T == {n \in Nat : n \notin S}
<1> SUFFICES ASSUME T # {} PROVE FALSE
  OBVIOUS
<1>1. PICK x \in T : \A y \in T : x <= y
  BY LeastNumber
<1>2. x - 1 \in Nat /\ x - 1 \notin T
  BY <1>1
<1> QED BY <1>1, <1>2

\* The elements of a finite set can be numbered.
LEMMA Numbering ==
  \A S : IsFiniteSet(S) =>
    /\ Cardinality(S) \in Nat
    /\ \E f \in [1..Cardinality(S) -> S] : \A a, b \in DOMAIN f : f[a] = f[b] => a = b
<1> SUFFICES ASSUME NEW S, IsFiniteSet(S)
             PROVE  /\ Cardinality(S) \in Nat
                    /\ \E f \in [1..Cardinality(S) -> S] :
                         \A a, b \in DOMAIN f : f[a] = f[b] => a = b
  OBVIOUS
<1> QED BY FS_CardinalityType DEF ExistsBijection, Bijection, Injection, IsInjective

LEMMA SingletonNumbered == \A x : IsFiniteSet({x}) /\ Cardinality({x}) = 1
BY FS_Singleton

LEMMA SubsetIsFinite == \A S, T : IsFiniteSet(S) /\ T \subseteq S => IsFiniteSet(T)
BY FS_Subset

LEMMA ImageIsFinite == \A S, f : IsFiniteSet(S) => IsFiniteSet({f[s] : s \in S})
<1> SUFFICES ASSUME NEW S, NEW f, IsFiniteSet(S) PROVE IsFiniteSet({f[s] : s \in S})
  OBVIOUS
<1> DEFINE g == [s \in S |-> f[s]]
<1>1. g \in Surjection(S, {f[s] : s \in S})
  BY DEF Surjection
<1> QED BY <1>1, FS_Surjection

\* Functions on 0..n that follow a step function.
Steps(n, X) == [X \X (1..n) -> X]
Follows(f, n, start, step) ==
  /\ DOMAIN f = 0..n
  /\ f[0] = start
  /\ \A i \in 1..n : f[i] = step[<<f[i - 1], i>>]

\* A step function has a function on 0..n that follows it.
LEMMA RecursionExists ==
  ASSUME NEW n \in Nat, NEW X, NEW start \in X, NEW step \in Steps(n, X)
  PROVE  \E f \in [0..n -> X] : Follows(f, n, start, step)
<1> DEFINE S == {m \in Nat : m <= n => \E f \in [0..m -> X] : Follows(f, m, start, step)}
<1>1. 0 \in S
  <2> DEFINE f == [i \in 0..0 |-> start]
  <2>1. f \in [0..0 -> X] /\ Follows(f, 0, start, step)
    BY DEF Follows
  <2> QED BY <2>1
<1>2. ASSUME NEW m \in Nat, m \in S PROVE m + 1 \in S
  <2> SUFFICES ASSUME m + 1 <= n
               PROVE  \E f \in [0..(m + 1) -> X] : Follows(f, m + 1, start, step)
    OBVIOUS
  <2>1. PICK f \in [0..m -> X] : Follows(f, m, start, step)
    BY <1>2
  <2> DEFINE g == [i \in 0..(m + 1) |-> IF i = m + 1 THEN step[<<f[m], m + 1>>] ELSE f[i]]
  <2>2. f[m] \in X /\ m + 1 \in 1..n
    OBVIOUS
  <2>3. step[<<f[m], m + 1>>] \in X
    BY <2>2 DEF Steps
  <2>4. g \in [0..(m + 1) -> X]
    BY <2>3
  <2>5. g[0] = start
    BY <2>1 DEF Follows
  <2>6. ASSUME NEW i \in 1..(m + 1) PROVE g[i] = step[<<g[i - 1], i>>]
    <3>1. i - 1 \in 0..m /\ g[i - 1] = f[i - 1]
      OBVIOUS
    <3>2. CASE i = m + 1
      <4>1. i - 1 = m /\ g[i] = step[<<f[m], i>>]
        BY <3>2
      <4> QED BY <3>1, <4>1
    <3>3. CASE i # m + 1
      <4>1. i \in 1..m /\ g[i] = f[i]
        BY <3>3
      <4>2. f[i] = step[<<f[i - 1], i>>]
        BY <2>1, <4>1 DEF Follows
      <4> QED BY <3>1, <4>1, <4>2
    <3> QED BY <3>2, <3>3
  <2> HIDE DEF g
  <2> QED BY <2>4, <2>5, <2>6 DEF Follows
<1> HIDE DEF S
<1>3. n \in S
  BY <1>1, <1>2, Induction
<1> QED BY <1>3 DEF S

\* The values on 0..n of a function that some equation determines step by step.
LEMMA RecursionUnique ==
  ASSUME NEW n \in Nat, NEW f, NEW g, f[0] = g[0],
         \A m \in Nat : m + 1 <= n /\ f[m] = g[m] => f[m + 1] = g[m + 1]
  PROVE  f[n] = g[n]
<1> DEFINE S == {m \in Nat : m <= n => f[m] = g[m]}
<1>1. 0 \in S
  OBVIOUS
<1>2. \A m \in Nat : m \in S => m + 1 \in S
  OBVIOUS
<1> HIDE DEF S
<1>3. n \in S
  BY <1>1, <1>2, Induction
<1> QED BY <1>3 DEF S

-----------------------------------------------------------------------------
(* What the loops over a queue compute. *)

\* SumBytes adds the frames up from the front.
SumsOf(q, f) == /\ f \in [0..Len(q) -> Nat]
                /\ f[0] = 0
                /\ \A i \in 1..Len(q) : f[i] = f[i - 1] + q[i].bytes

LEMMA FrameAt ==
  ASSUME NEW q \in Seq(Frame), NEW i \in 1..Len(q)
  PROVE  q[i] \in Frame /\ q[i].bytes \in Nat
<1>1. q[i] \in Frame
  OBVIOUS
<1> QED BY <1>1 DEF Frame

\* SumBytes by its partial sums.
LEMMA SumsExist ==
  ASSUME NEW q \in Seq(Frame)
  PROVE  \E f : SumsOf(q, f) /\ SumBytes(q) = f[Len(q)]
<1> DEFINE n == Len(q)
           step == [x \in Nat \X (1..n) |-> x[1] + q[x[2]].bytes]
           Body(f) == [i \in 0..n |-> IF i = 0 THEN 0 ELSE f[i - 1] + q[i].bytes]
           sum == CHOOSE f : f = Body(f)
<1>1. n \in Nat /\ 0 \in Nat /\ step \in Steps(n, Nat)
  BY FrameAt DEF Steps
<1>2. PICK f \in [0..n -> Nat] : Follows(f, n, 0, step)
  <2> HIDE DEF step, n
  <2> QED BY <1>1, RecursionExists
<1>3. \A i \in 1..n : f[i] = f[i - 1] + q[i].bytes
  <2> TAKE i \in 1..n
  <2>0. i - 1 \in 0..n
    BY <1>1
  <2>1. f[i - 1] \in Nat
    BY <2>0
  <2>2. <<f[i - 1], i>> \in Nat \X (1..n)
    BY <2>1
  <2> QED BY <1>2, <2>2 DEF Follows
<1>4. f[0] = 0 /\ f = Body(f)
  BY <1>2, <1>3 DEF Follows
<1>5. sum = Body(sum)
  <2> HIDE DEF Body
  <2> QED BY <1>4
<1>6. SumBytes(q) = sum[n]
  BY DEF SumBytes
<1> HIDE DEF sum
<1>7. sum[n] = f[n]
  <2>1. sum[0] = f[0]
    BY <1>1, <1>4, <1>5
  <2>2. ASSUME NEW m \in Nat, m + 1 <= n, sum[m] = f[m] PROVE sum[m + 1] = f[m + 1]
    <3>1. m + 1 \in 1..n /\ (m + 1) - 1 = m
      BY <2>2
    <3>2. sum[m + 1] = sum[m] + q[m + 1].bytes
      BY <1>5, <3>1
    <3>3. f[m + 1] = f[m] + q[m + 1].bytes
      BY <1>3, <3>1
    <3> QED BY <2>2, <3>2, <3>3
  <2>3. n \in Nat
    BY <1>1
  <2> HIDE DEF n, Body, step
  <2> QED BY <2>1, <2>2, <2>3, RecursionUnique
<1> QED BY <1>3, <1>4, <1>6, <1>7 DEF SumsOf

\* removeQueuedStreamData keeps what is not discarded, in order, ...
KeptOf(q, s, f) ==
  /\ f \in [0..Len(q) -> Seq(Frame)]
  /\ f[0] = <<>>
  /\ \A i \in 1..Len(q) :
       f[i] = IF Discarded(q[i], s) THEN f[i - 1] ELSE Append(f[i - 1], q[i])

\* WithoutStream by its partial results.
LEMMA KeptExist ==
  ASSUME NEW q \in Seq(Frame), NEW s
  PROVE  \E f : KeptOf(q, s, f) /\ WithoutStream(q, s) = f[Len(q)]
<1> DEFINE n == Len(q)
           X == Seq(Frame)
           After(kept, i) == IF Discarded(q[i], s) THEN kept ELSE Append(kept, q[i])
           step == [x \in X \X (1..n) |-> After(x[1], x[2])]
           Body(f) == [i \in 0..n |-> IF i = 0 THEN <<>> ELSE After(f[i - 1], i)]
           kept == CHOOSE f : f = Body(f)
<1>1. n \in Nat /\ <<>> \in X
  OBVIOUS
<1>2. step \in Steps(n, X)
  <2> SUFFICES ASSUME NEW x \in X, NEW i \in 1..n PROVE After(x, i) \in X
    BY DEF Steps
  <2> QED BY FrameAt
<1>3. PICK f \in [0..n -> X] : Follows(f, n, <<>>, step)
  <2> HIDE DEF step, n, X
  <2> QED BY <1>1, <1>2, RecursionExists
<1>4. \A i \in 1..n : f[i] = After(f[i - 1], i)
  <2> TAKE i \in 1..n
  <2>0. i - 1 \in 0..n
    BY <1>1
  <2>1. f[i - 1] \in X
    BY <2>0
  <2>2. <<f[i - 1], i>> \in X \X (1..n)
    BY <2>1
  <2>3. step[<<f[i - 1], i>>] = After(f[i - 1], i)
    <3> HIDE DEF After, X, n
    <3> QED BY <2>2
  <2> QED BY <1>3, <2>3 DEF Follows
<1>5. f[0] = <<>> /\ f = Body(f)
  <2> HIDE DEF After, X, n, step
  <2> QED BY <1>3, <1>4 DEF Follows
<1>6. kept = Body(kept)
  <2> HIDE DEF Body
  <2> QED BY <1>5
<1>7. WithoutStream(q, s) = kept[n]
  BY DEF WithoutStream
<1> HIDE DEF kept
<1>8. kept[n] = f[n]
  <2>1. kept[0] = f[0]
    BY <1>1, <1>5, <1>6
  <2>2. ASSUME NEW m \in Nat, m + 1 <= n, kept[m] = f[m] PROVE kept[m + 1] = f[m + 1]
    <3>1. m + 1 \in 1..n /\ (m + 1) - 1 = m
      BY <2>2
    <3>2. kept[m + 1] = After(kept[m], m + 1)
      <4> HIDE DEF After, X, step
      <4> QED BY <1>6, <3>1
    <3>3. f[m + 1] = After(f[m], m + 1)
      BY <1>4, <3>1
    <3> QED BY <2>2, <3>2, <3>3
  <2>3. n \in Nat
    BY <1>1
  <2> HIDE DEF n, Body, step, After, X
  <2> QED BY <2>1, <2>2, <2>3, RecursionUnique
<1> QED BY <1>4, <1>5, <1>7, <1>8 DEF KeptOf

\* ... and counts the bytes of what is.
RemovedOf(q, s, f) ==
  /\ f \in [0..Len(q) -> Nat]
  /\ f[0] = 0
  /\ \A i \in 1..Len(q) :
       f[i] = f[i - 1] + IF Discarded(q[i], s) THEN q[i].bytes ELSE 0

\* DiscardedBytes by its partial sums.
LEMMA RemovedExist ==
  ASSUME NEW q \in Seq(Frame), NEW s
  PROVE  \E f : RemovedOf(q, s, f) /\ DiscardedBytes(q, s) = f[Len(q)]
<1> DEFINE n == Len(q)
           Size(i) == IF Discarded(q[i], s) THEN q[i].bytes ELSE 0
           step == [x \in Nat \X (1..n) |-> x[1] + Size(x[2])]
           Body(f) == [i \in 0..n |-> IF i = 0 THEN 0 ELSE f[i - 1] +
                                        IF Discarded(q[i], s) THEN q[i].bytes ELSE 0]
           removed == CHOOSE f : f = Body(f)
<1>1. n \in Nat /\ 0 \in Nat /\ step \in Steps(n, Nat)
  BY FrameAt DEF Steps
<1>2. PICK f \in [0..n -> Nat] : Follows(f, n, 0, step)
  <2> HIDE DEF step, n
  <2> QED BY <1>1, RecursionExists
<1>3. \A i \in 1..n : f[i] = f[i - 1] + Size(i)
  <2> TAKE i \in 1..n
  <2>0. i - 1 \in 0..n
    BY <1>1
  <2>1. f[i - 1] \in Nat
    BY <2>0
  <2>2. <<f[i - 1], i>> \in Nat \X (1..n)
    BY <2>1
  <2>3. step[<<f[i - 1], i>>] = f[i - 1] + Size(i)
    <3> HIDE DEF Size, n
    <3> QED BY <2>2
  <2> QED BY <1>2, <2>3 DEF Follows
<1>4. f[0] = 0 /\ f = Body(f)
  BY <1>2, <1>3 DEF Follows
<1>5. removed = Body(removed)
  <2> HIDE DEF Body
  <2> QED BY <1>4
<1>6. DiscardedBytes(q, s) = removed[n]
  BY DEF DiscardedBytes
<1> HIDE DEF removed
<1>7. removed[n] = f[n]
  <2>1. removed[0] = f[0]
    BY <1>1, <1>4, <1>5
  <2>2. ASSUME NEW m \in Nat, m + 1 <= n, removed[m] = f[m] PROVE removed[m + 1] = f[m + 1]
    <3>1. m + 1 \in 1..n /\ (m + 1) - 1 = m
      BY <2>2
    <3>2. removed[m + 1] = removed[m] + Size(m + 1)
      BY <1>5, <3>1
    <3>3. f[m + 1] = f[m] + Size(m + 1)
      BY <1>3, <3>1
    <3> QED BY <2>2, <3>2, <3>3
  <2>3. n \in Nat
    BY <1>1
  <2> HIDE DEF n, Body, step, Size
  <2> QED BY <2>1, <2>2, <2>3, RecursionUnique
<1> QED BY <1>3, <1>4, <1>6, <1>7 DEF RemovedOf

\* SumBytes is what partial sums end in.
LEMMA SumIs ==
  ASSUME NEW q \in Seq(Frame), NEW f, SumsOf(q, f)
  PROVE  SumBytes(q) = f[Len(q)]
<1>1. PICK g : SumsOf(q, g) /\ SumBytes(q) = g[Len(q)]
  BY SumsExist
<1>2. Len(q) \in Nat /\ g[0] = f[0]
  BY <1>1 DEF SumsOf
<1>3. ASSUME NEW m \in Nat, m + 1 <= Len(q), g[m] = f[m] PROVE g[m + 1] = f[m + 1]
  <2>1. m + 1 \in 1..Len(q) /\ (m + 1) - 1 = m
    BY <1>2, <1>3
  <2> QED BY <1>1, <1>3, <2>1 DEF SumsOf
<1>4. g[Len(q)] = f[Len(q)]
  BY <1>2, <1>3, RecursionUnique
<1> QED BY <1>1, <1>4

LEMMA SumOfNothing == SumBytes(<<>>) = 0
<1>1. <<>> \in Seq(Frame) /\ Len(<<>>) = 0
  OBVIOUS
<1>2. PICK f : SumsOf(<<>>, f) /\ SumBytes(<<>>) = f[Len(<<>>)]
  BY <1>1, SumsExist
<1> QED BY <1>1, <1>2 DEF SumsOf

LEMMA SumType ==
  ASSUME NEW q \in Seq(Frame)
  PROVE  SumBytes(q) \in Nat
<1>1. PICK f : SumsOf(q, f) /\ SumBytes(q) = f[Len(q)]
  BY SumsExist
<1> QED BY <1>1 DEF SumsOf

\* A frame more is its bytes more.
LEMMA SumOfAppend ==
  ASSUME NEW q \in Seq(Frame), NEW frame \in Frame
  PROVE  SumBytes(Append(q, frame)) = SumBytes(q) + frame.bytes
<1> DEFINE n == Len(q)
           r == Append(q, frame)
<1>1. PICK f : SumsOf(q, f) /\ SumBytes(q) = f[n]
  BY SumsExist
<1>2. frame.bytes \in Nat
  BY DEF Frame
<1>3. /\ r \in Seq(Frame) /\ Len(r) = n + 1 /\ n \in Nat
      /\ \A i \in 1..n : r[i] = q[i]
      /\ r[n + 1] = frame
  OBVIOUS
<1> DEFINE g == [i \in 0..(n + 1) |-> IF i = n + 1 THEN f[n] + frame.bytes ELSE f[i]]
<1>4. f \in [0..n -> Nat] /\ f[0] = 0
  BY <1>1 DEF SumsOf
<1>5. g \in [0..(n + 1) -> Nat] /\ g[0] = 0
  <2> HIDE DEF n
  <2> QED BY <1>2, <1>3, <1>4
<1>6. ASSUME NEW i \in 1..(n + 1) PROVE g[i] = g[i - 1] + r[i].bytes
  <2>1. CASE i = n + 1
    BY <1>3, <2>1
  <2>2. CASE i # n + 1
    <3>1. i \in 1..n /\ g[i] = f[i] /\ g[i - 1] = f[i - 1]
      BY <1>3, <2>2
    <3> QED BY <1>1, <1>3, <3>1 DEF SumsOf
  <2> QED BY <2>1, <2>2
<1>7. g[n + 1] = f[n] + frame.bytes
  BY <1>3
<1>8. SumsOf(r, g)
  <2> HIDE DEF g, r, n
  <2> QED BY <1>3, <1>5, <1>6 DEF SumsOf
<1> HIDE DEF g, r
<1> QED BY <1>1, <1>3, <1>7, <1>8, SumIs DEF r

\* What leaves the queue at its front and what stays.
LEMMA SumOfParts ==
  ASSUME NEW q \in Seq(Frame), NEW n \in 0..Len(q)
  PROVE  SumBytes(SubSeq(q, 1, n)) + SumBytes(SubSeq(q, n + 1, Len(q))) = SumBytes(q)
<1> DEFINE front == SubSeq(q, 1, n)
           rest == SubSeq(q, n + 1, Len(q))
<1>1. PICK f : SumsOf(q, f) /\ SumBytes(q) = f[Len(q)]
  BY SumsExist
<1>2. /\ front \in Seq(Frame) /\ Len(front) = n
      /\ \A i \in 1..n : front[i] = q[i]
  OBVIOUS
<1>3. /\ rest \in Seq(Frame) /\ Len(rest) = Len(q) - n
      /\ \A i \in 1..(Len(q) - n) : rest[i] = q[n + i]
  OBVIOUS
<1> HIDE DEF front, rest
<1>4. PICK g : SumsOf(front, g) /\ SumBytes(front) = g[n]
  BY <1>2, SumsExist
<1>5. PICK h : SumsOf(rest, h) /\ SumBytes(rest) = h[Len(q) - n]
  BY <1>3, SumsExist
<1>6. /\ \A i \in 1..n : g[i] = g[i - 1] + q[i].bytes
      /\ \A i \in 1..(Len(q) - n) : h[i] = h[i - 1] + q[n + i].bytes
      /\ \A i \in 1..Len(q) : f[i] = f[i - 1] + q[i].bytes
      /\ f[0] = 0 /\ g[0] = 0 /\ h[0] = 0
      /\ \A i \in 0..Len(q) : f[i] \in Nat
      /\ \A i \in 0..(Len(q) - n) : h[i] \in Nat
  <2>1. \A i \in 1..n : g[i] = g[i - 1] + q[i].bytes
    BY <1>2, <1>4 DEF SumsOf
  <2>2. \A i \in 1..(Len(q) - n) : h[i] = h[i - 1] + q[n + i].bytes
    BY <1>3, <1>5 DEF SumsOf
  <2>3. \A i \in 0..(Len(q) - n) : h[i] \in Nat
    BY <1>3, <1>5 DEF SumsOf
  <2> QED BY <1>1, <1>4, <1>5, <2>1, <2>2, <2>3 DEF SumsOf
<1>7. g[n] = f[n]
  <2>1. ASSUME NEW m \in Nat, m + 1 <= n, g[m] = f[m] PROVE g[m + 1] = f[m + 1]
    <3>1. m + 1 \in 1..n /\ m + 1 \in 1..Len(q) /\ (m + 1) - 1 = m
      BY <2>1
    <3> QED BY <1>6, <2>1, <3>1
  <2>2. n \in Nat /\ g[0] = f[0]
    BY <1>6
  <2> QED BY <2>1, <2>2, RecursionUnique
<1>8. h[Len(q) - n] + f[n] = f[Len(q)]
  <2> DEFINE S == {m \in Nat : m <= Len(q) - n => h[m] + f[n] = f[n + m]}
  <2>1. 0 \in S
    BY <1>6
  <2>2. ASSUME NEW m \in Nat, m \in S PROVE m + 1 \in S
    <3> SUFFICES ASSUME m + 1 <= Len(q) - n PROVE h[m + 1] + f[n] = f[n + (m + 1)]
      OBVIOUS
    <3>1. /\ n + (m + 1) \in 1..Len(q) /\ (n + (m + 1)) - 1 = n + m
          /\ m + 1 \in 1..(Len(q) - n) /\ (m + 1) - 1 = m
          /\ m \in 0..(Len(q) - n) /\ n \in 0..Len(q) /\ n + m \in 0..Len(q)
          /\ h[m] + f[n] = f[n + m]
      BY <2>2
    <3>2. /\ f[n + (m + 1)] = f[n + m] + q[n + (m + 1)].bytes
          /\ h[m + 1] = h[m] + q[n + (m + 1)].bytes
      BY <1>6, <3>1
    <3>3. /\ f[n] \in Nat /\ h[m] \in Nat /\ f[n + m] \in Nat
          /\ q[n + (m + 1)].bytes \in Nat
      BY <1>6, <3>1, FrameAt
    <3> QED BY <3>1, <3>2, <3>3
  <2> HIDE DEF S
  <2>3. Len(q) - n \in S
    BY <2>1, <2>2, Induction
  <2> QED BY <2>3 DEF S
<1>9. f[n] \in Nat /\ h[Len(q) - n] \in Nat
  BY <1>6
<1> QED BY <1>1, <1>4, <1>5, <1>7, <1>8, <1>9 DEF front, rest

\* removeQueuedStreamData takes the bytes off the count that it takes off the queue,
\* and nothing but frames of the stream.
LEMMA RemovedFrames ==
  ASSUME NEW q \in Seq(Frame), NEW s
  PROVE  LET w == WithoutStream(q, s)
         IN  /\ w \in Seq(Frame)
             /\ Len(w) <= Len(q)
             /\ \A i \in DOMAIN w : ~Discarded(w[i], s) /\ \E j \in DOMAIN q : w[i] = q[j]
             /\ DiscardedBytes(q, s) \in Nat
             /\ SumBytes(w) + DiscardedBytes(q, s) = SumBytes(q)
<1> DEFINE n == Len(q)
<1>1. PICK f : SumsOf(q, f) /\ SumBytes(q) = f[n]
  BY SumsExist
<1>2. PICK k : KeptOf(q, s, k) /\ WithoutStream(q, s) = k[n]
  BY KeptExist
<1>3. PICK r : RemovedOf(q, s, r) /\ DiscardedBytes(q, s) = r[n]
  BY RemovedExist
<1> DEFINE Partly(w, m) ==
             /\ Len(w) <= m
             /\ \A i \in DOMAIN w : ~Discarded(w[i], s) /\ \E j \in 1..n : w[i] = q[j]
             /\ SumBytes(w) + r[m] = f[m]
           S == {m \in Nat : m <= n => Partly(k[m], m)}
<1>4. /\ n \in Nat
      /\ \A m \in 0..n : f[m] \in Nat /\ k[m] \in Seq(Frame) /\ r[m] \in Nat
      /\ f[0] = 0 /\ k[0] = <<>> /\ r[0] = 0
  <2>1. f \in [0..n -> Nat] /\ f[0] = 0
    BY <1>1 DEF SumsOf
  <2>2. k \in [0..n -> Seq(Frame)] /\ k[0] = <<>>
    BY <1>2 DEF KeptOf
  <2>3. r \in [0..n -> Nat] /\ r[0] = 0
    BY <1>3 DEF RemovedOf
  <2> QED BY <2>1, <2>2, <2>3
<1>5. 0 \in S
  <2>1. Partly(<<>>, 0)
    BY <1>4, SumOfNothing
  <2> QED BY <1>4, <2>1
<1>6. ASSUME NEW m \in Nat, m \in S PROVE m + 1 \in S
  <2> SUFFICES ASSUME m + 1 <= n PROVE Partly(k[m + 1], m + 1)
    OBVIOUS
  <2> DEFINE frame == q[m + 1]
  <2>1. /\ m + 1 \in 1..n /\ (m + 1) - 1 = m /\ m \in 0..n
        /\ Partly(k[m], m)
    BY <1>4, <1>6
  <2>2. frame \in Frame /\ frame.bytes \in Nat
    BY <2>1, FrameAt
  <2>3. /\ f[m + 1] = f[m] + frame.bytes
        /\ k[m + 1] = IF Discarded(frame, s) THEN k[m] ELSE Append(k[m], frame)
        /\ r[m + 1] = r[m] + IF Discarded(frame, s) THEN frame.bytes ELSE 0
    BY <1>1, <1>2, <1>3, <2>1 DEF SumsOf, KeptOf, RemovedOf
  <2>4. /\ f[m] \in Nat /\ r[m] \in Nat /\ k[m] \in Seq(Frame)
        /\ SumBytes(k[m]) \in Nat
    BY <1>4, <2>1, SumType
  <2>5. CASE Discarded(frame, s)
    <3>1. k[m + 1] = k[m] /\ SumBytes(k[m]) + r[m + 1] = f[m + 1] /\ Len(k[m]) <= m + 1
      BY <2>1, <2>2, <2>3, <2>4, <2>5
    <3> QED BY <2>1, <3>1
  <2>6. CASE ~Discarded(frame, s)
    <3> DEFINE w == Append(k[m], frame)
    <3>1. k[m + 1] = w /\ r[m + 1] = r[m]
      BY <2>2, <2>3, <2>4, <2>6
    <3>2. SumBytes(w) = SumBytes(k[m]) + frame.bytes
      BY <2>2, <2>4, SumOfAppend
    <3>3. /\ Len(w) = Len(k[m]) + 1
          /\ \A i \in DOMAIN w : w[i] = frame \/ \E j \in DOMAIN k[m] : w[i] = k[m][j]
      BY <2>2, <2>4
    <3> HIDE DEF w, frame, n
    <3>4. \A i \in DOMAIN w : ~Discarded(w[i], s) /\ \E j \in 1..n : w[i] = q[j]
      BY <2>1, <2>6, <3>3 DEF frame
    <3>5. SumBytes(w) + r[m + 1] = f[m + 1] /\ Len(w) <= m + 1
      BY <2>1, <2>2, <2>3, <2>4, <3>1, <3>2, <3>3
    <3> QED BY <3>1, <3>4, <3>5
  <2> QED BY <2>5, <2>6
<1>7. n \in S
  <2> HIDE DEF S
  <2> QED BY <1>4, <1>5, <1>6, Induction
<1>8. Partly(k[n], n) /\ k[n] \in Seq(Frame) /\ r[n] \in Nat
  BY <1>4, <1>7
<1> QED BY <1>1, <1>2, <1>3, <1>8

-----------------------------------------------------------------------------
(* The account of a queue. *)

\* Queue q, whose size is kept as bytes, of a pool with the streams S.
Sound(q, bytes, S) ==
  /\ q \in Seq(Frame)
  /\ bytes = SumBytes(q)
  /\ bytes <= MaxPendingBytes
  /\ Len(q) <= MaxPendingFrames
  /\ \A i \in DOMAIN q : RetainAfterDetach(q[i]) \/ q[i].stream \in S

Accounts ==
  /\ queue \in [Pools -> Seq(Frame)]
  /\ queuedBytes \in [Pools -> Nat]
  /\ \A p \in Pools : Sound(queue[p], queuedBytes[p], members[p])

LEMMA SoundTypes ==
  ASSUME NEW q, NEW bytes, NEW S, Sound(q, bytes, S)
  PROVE  q \in Seq(Frame) /\ bytes \in Nat
BY SumType DEF Sound

LEMMA EmptySound ==
  ASSUME SocketWorkerAssumption, NEW S
  PROVE  Sound(<<>>, 0, S)
BY SumOfNothing DEF SocketWorkerAssumption, Sound

\* The streams of the pool may become more.
LEMMA SoundForMore ==
  ASSUME NEW q, NEW bytes, NEW S, NEW T, Sound(q, bytes, S), S \subseteq T
  PROVE  Sound(q, bytes, T)
BY DEF Sound

LEMMA AppendSound ==
  ASSUME SocketWorkerAssumption, NEW q, NEW bytes, NEW S, NEW f \in Frame,
         Sound(q, bytes, S), HasRoom(q, bytes, f), RetainAfterDetach(f) \/ f.stream \in S
  PROVE  Sound(Append(q, f), bytes + f.bytes, S)
<1>1. q \in Seq(Frame) /\ bytes = SumBytes(q) /\ f.bytes \in Nat
  BY DEF Sound, Frame
<1>2. SumBytes(Append(q, f)) = bytes + f.bytes
  BY <1>1, SumOfAppend
<1>3. Len(Append(q, f)) <= MaxPendingFrames /\ bytes + f.bytes <= MaxPendingBytes
  BY <1>1 DEF HasRoom, SocketWorkerAssumption
<1>4. /\ Append(q, f) \in Seq(Frame)
      /\ \A i \in DOMAIN Append(q, f) :
           \/ Append(q, f)[i] = f
           \/ i \in DOMAIN q /\ Append(q, f)[i] = q[i]
  BY <1>1
<1> QED BY <1>2, <1>3, <1>4 DEF Sound

\* flushQueue takes frames off the front.
LEMMA RestSound ==
  ASSUME SocketWorkerAssumption, NEW q, NEW bytes, NEW S, Sound(q, bytes, S),
         NEW n \in 0..Len(q)
  PROVE  Sound(SubSeq(q, n + 1, Len(q)), bytes - SumBytes(SubSeq(q, 1, n)), S)
<1> DEFINE rest == SubSeq(q, n + 1, Len(q))
           front == SubSeq(q, 1, n)
<1>1. q \in Seq(Frame) /\ bytes = SumBytes(q)
  BY DEF Sound
<1>2. /\ rest \in Seq(Frame) /\ Len(rest) = Len(q) - n
      /\ \A i \in DOMAIN rest : n + i \in DOMAIN q /\ rest[i] = q[n + i]
  <2>1. rest \in Seq(Frame) /\ Len(rest) = Len(q) - n
    BY <1>1, SMTT(30)
  <2>2. \A i \in 1..(Len(q) - n) : n + i \in 1..Len(q) /\ rest[i] = q[n + i]
    BY <1>1, SMTT(30)
  <2>3. DOMAIN rest = 1..(Len(q) - n) /\ DOMAIN q = 1..Len(q)
    BY <1>1, <2>1
  <2> QED BY <2>1, <2>2, <2>3
<1>3. front \in Seq(Frame)
  BY <1>1
<1>4. SumBytes(front) + SumBytes(rest) = bytes
  BY <1>1, SumOfParts
<1> HIDE DEF rest, front
<1>5. SumBytes(front) \in Nat /\ SumBytes(rest) \in Nat /\ bytes \in Nat
  BY <1>1, <1>2, <1>3, SumType
<1>6. bytes - SumBytes(front) = SumBytes(rest) /\ SumBytes(rest) <= MaxPendingBytes
  BY <1>4, <1>5 DEF Sound, SocketWorkerAssumption
<1>7. Len(rest) <= MaxPendingFrames
  BY <1>1, <1>2 DEF Sound, SocketWorkerAssumption
<1>8. \A i \in DOMAIN rest : RetainAfterDetach(rest[i]) \/ rest[i].stream \in S
  BY <1>2 DEF Sound
<1>9. Sound(rest, bytes - SumBytes(front), S)
  BY <1>2, <1>6, <1>7, <1>8 DEF Sound
<1> QED BY <1>9 DEF rest, front

\* removeQueuedStreamData leaves no data of the stream that is detached.
LEMMA RemovedSound ==
  ASSUME SocketWorkerAssumption, NEW q, NEW bytes, NEW S, Sound(q, bytes, S), NEW s
  PROVE  Sound(WithoutStream(q, s), bytes - DiscardedBytes(q, s), S \ {s})
<1> DEFINE w == WithoutStream(q, s)
           gone == DiscardedBytes(q, s)
<1>1. q \in Seq(Frame) /\ bytes = SumBytes(q)
  BY DEF Sound
<1>2. /\ w \in Seq(Frame) /\ Len(w) <= Len(q) /\ gone \in Nat
      /\ \A i \in DOMAIN w : ~Discarded(w[i], s) /\ \E j \in DOMAIN q : w[i] = q[j]
      /\ SumBytes(w) + gone = bytes
  BY <1>1, RemovedFrames
<1> HIDE DEF w, gone
<1>3. SumBytes(w) \in Nat /\ bytes \in Nat
  BY <1>1, <1>2, SumType
<1>4. bytes - gone = SumBytes(w) /\ SumBytes(w) <= MaxPendingBytes
  BY <1>2, <1>3 DEF Sound, SocketWorkerAssumption
<1>5. Len(w) <= MaxPendingFrames
  BY <1>1, <1>2 DEF Sound, SocketWorkerAssumption
<1>6. \A i \in DOMAIN w : RetainAfterDetach(w[i]) \/ w[i].stream \in S \ {s}
  BY <1>2 DEF Sound, Discarded
<1>7. Sound(w, bytes - gone, S \ {s})
  BY <1>2, <1>4, <1>5, <1>6 DEF Sound
<1> QED BY <1>7 DEF w, gone

\* A step that touches the queue or the streams of pool p only.
LEMMA OneQueue ==
  ASSUME SocketWorkerAssumption, Accounts, members \in [Pools -> SUBSET StreamIds],
         NEW p \in Pools, NEW q, NEW bytes, NEW S, Sound(q, bytes, S),
         queue' = [queue EXCEPT ![p] = q],
         queuedBytes' = [queuedBytes EXCEPT ![p] = bytes],
         members' = [members EXCEPT ![p] = S]
  PROVE  Accounts'
<1>1. q \in Seq(Frame) /\ bytes \in Nat
  BY SoundTypes
<1>2. queue' \in [Pools -> Seq(Frame)] /\ queuedBytes' \in [Pools -> Nat]
  BY <1>1 DEF Accounts
<1>3. ASSUME NEW o \in Pools PROVE Sound(queue'[o], queuedBytes'[o], members'[o])
  <2>1. CASE o = p
    BY <2>1 DEF Accounts
  <2>2. CASE o # p
    <3>1. queue'[o] = queue[o] /\ queuedBytes'[o] = queuedBytes[o] /\ members'[o] = members[o]
      BY <2>2 DEF Accounts
    <3> QED BY <3>1 DEF Accounts
  <2> QED BY <2>1, <2>2
<1> QED BY <1>2, <1>3 DEF Accounts

LEMMA SameAccounts ==
  ASSUME Accounts, UNCHANGED <<queue, queuedBytes, members>>
  PROVE  Accounts'
BY DEF Accounts

LEMMA FrameTypes ==
  ASSUME SocketWorkerAssumption, NEW s \in StreamIds
  PROVE  /\ \A kind \in {"open", "close"} : ControlFrame(s, kind) \in Frame
         /\ \A n \in DataBytes : DataFrame(s, n) \in Frame
<1>1. ControlBytes \in Nat /\ DataBytes \subseteq Nat
  BY DEF SocketWorkerAssumption
<1> QED BY <1>1 DEF ControlFrame, DataFrame, Frame

LEMMA SendFrameAccounts ==
  ASSUME SocketWorkerAssumption, Accounts, members \in [Pools -> SUBSET StreamIds],
         NEW p \in Pools, NEW q, NEW bytes, NEW S, Sound(q, bytes, S),
         NEW f \in Frame, RetainAfterDetach(f) \/ f.stream \in S,
         SendFrame(p, q, bytes, f), members' = [members EXCEPT ![p] = S]
  PROVE  Accounts'
<1>1. CASE /\ queue' = [queue EXCEPT ![p] = q]
           /\ queuedBytes' = [queuedBytes EXCEPT ![p] = bytes]
  BY <1>1, OneQueue
<1>2. CASE /\ HasRoom(q, bytes, f)
           /\ queue' = [queue EXCEPT ![p] = Append(q, f)]
           /\ queuedBytes' = [queuedBytes EXCEPT ![p] = bytes + f.bytes]
  <2>1. Sound(Append(q, f), bytes + f.bytes, S)
    BY <1>2, AppendSound
  <2> QED BY <1>2, <2>1, OneQueue
<1> QED BY <1>1, <1>2 DEF SendFrame

LEMMA FlushQueueAccounts ==
  ASSUME SocketWorkerAssumption, Accounts, members \in [Pools -> SUBSET StreamIds],
         NEW p \in Pools, NEW owned, NEW armed, FlushQueue(p, owned, armed), UNCHANGED members
  PROVE  Accounts'
<1>1. PICK n \in 0..Len(queue[p]) :
        /\ queue' = [queue EXCEPT ![p] = SubSeq(queue[p], n + 1, Len(queue[p]))]
        /\ queuedBytes' = [queuedBytes EXCEPT ![p] = @ - SumBytes(SubSeq(queue[p], 1, n))]
  BY DEF FlushQueue
<1> DEFINE bytes == queuedBytes[p] - SumBytes(SubSeq(queue[p], 1, n))
           rest == SubSeq(queue[p], n + 1, Len(queue[p]))
<1>2. Sound(queue[p], queuedBytes[p], members[p])
  BY DEF Accounts
<1>3. Sound(rest, bytes, members[p])
  BY <1>2, RestSound
<1>4. /\ queue' = [queue EXCEPT ![p] = rest]
      /\ queuedBytes' = [queuedBytes EXCEPT ![p] = bytes]
      /\ members' = [members EXCEPT ![p] = members[p]]
  BY <1>1 DEF Accounts
<1> HIDE DEF rest, bytes
<1> QED BY <1>3, <1>4, OneQueue

LEMMA DetachAccounts ==
  ASSUME SocketWorkerAssumption, TypeOK, Accounts, NEW s \in StreamIds,
         boundTo[s] \in Pools, NEW told, NEW messages, Detach(s, told, messages)
  PROVE  Accounts'
<1> DEFINE p == boundTo[s]
           q == WithoutStream(queue[p], s)
           bytes == queuedBytes[p] - DiscardedBytes(queue[p], s)
           S == members[p] \ {s}
           bye == ControlFrame(s, "close")
<1>1. Sound(queue[p], queuedBytes[p], members[p])
  BY DEF Accounts
<1>2. Sound(q, bytes, S)
  BY <1>1, RemovedSound
<1>3. members \in [Pools -> SUBSET StreamIds] /\ members' = [members EXCEPT ![p] = S]
  BY DEF TypeOK, Detach
<1>4. \/ SendFrame(p, q, bytes, bye)
      \/ /\ queue' = [queue EXCEPT ![p] = q]
         /\ queuedBytes' = [queuedBytes EXCEPT ![p] = bytes]
  BY DEF Detach
<1>5. bye \in Frame /\ RetainAfterDetach(bye)
  BY FrameTypes DEF RetainAfterDetach, ControlFrame
<1> HIDE DEF q, bytes, S, bye, p
<1>6. p \in Pools
  BY DEF p
<1> QED BY <1>2, <1>3, <1>4, <1>5, <1>6, OneQueue, SendFrameAccounts

LEMMA ClosePoolAccounts ==
  ASSUME SocketWorkerAssumption, TypeOK, Accounts, NEW p \in Pools, NEW messages,
         ClosePool(p, messages)
  PROVE  Accounts'
<1>1. /\ queue' = [queue EXCEPT ![p] = <<>>]
      /\ queuedBytes' = [queuedBytes EXCEPT ![p] = 0]
      /\ members' = [members EXCEPT ![p] = {}]
      /\ members \in [Pools -> SUBSET StreamIds]
  BY DEF ClosePool, Retire, TypeOK
<1> QED BY <1>1, EmptySound, OneQueue

LEMMA ProtocolViolationAccounts ==
  ASSUME SocketWorkerAssumption, TypeOK, Accounts, NEW p \in Pools, ProtocolViolation(p)
  PROVE  Accounts'
BY ClosePoolAccounts, SameAccounts DEF ProtocolViolation, backlog

LEMMA OpenStreamAccounts ==
  ASSUME SocketWorkerAssumption, TypeOK, Accounts,
         NEW c \in Ports, NEW s \in StreamIds, NEW i \in Identities, OpenStream(c, s, i)
  PROVE  Accounts'
<1>0. members \in [Pools -> SUBSET StreamIds]
  BY DEF TypeOK
<1>1. CASE \/ OpenRefused(c, s, i) \/ OpenAgain(c, s, i)
           \/ OpenWithoutPool(c, s, i) \/ OpenInFullPool(c, s, i)
  BY <1>1, SameAccounts
  DEF OpenRefused, OnlyPost, state, backlog, OpenAgain, OpenWithoutPool, OpenInFullPool
<1>2. ASSUME NEW p \in Pools, NEW k \in Sockets, OpenInNewPool(c, s, i, p, k)
      PROVE  Accounts'
  <2> DEFINE S == members[p] \cup {s}
  <2>1. /\ queue' = [queue EXCEPT ![p] = <<>>]
        /\ queuedBytes' = [queuedBytes EXCEPT ![p] = 0]
        /\ members' = [members EXCEPT ![p] = S]
    BY <1>0, <1>2 DEF OpenInNewPool, Register
  <2> HIDE DEF S
  <2> QED BY <1>0, <2>1, EmptySound, OneQueue
<1>3. ASSUME NEW p \in Pools, JoinPool(c, s, i, p)
      PROVE  /\ members' = [members EXCEPT ![p] = members[p] \cup {s}]
             /\ Sound(queue[p], queuedBytes[p], members[p] \cup {s})
             /\ UNCHANGED backlog => Accounts'
  <2> DEFINE S == members[p] \cup {s}
  <2>1. members' = [members EXCEPT ![p] = S]
    BY <1>0, <1>3 DEF JoinPool, Register
  <2>2. Sound(queue[p], queuedBytes[p], members[p]) /\ members[p] \subseteq S
    BY DEF Accounts
  <2>3. Sound(queue[p], queuedBytes[p], S)
    BY <2>2, SoundForMore
  <2>4. ASSUME UNCHANGED backlog PROVE Accounts'
    <3>1. /\ queue' = [queue EXCEPT ![p] = queue[p]]
          /\ queuedBytes' = [queuedBytes EXCEPT ![p] = queuedBytes[p]]
      BY <2>4 DEF backlog, Accounts
    <3> HIDE DEF S
    <3> QED BY <1>0, <2>1, <2>3, <3>1, OneQueue
  <2> QED BY <2>1, <2>3, <2>4
<1>4. ASSUME NEW p \in Pools, \/ \E k \in Sockets : OpenAndConnect(c, s, i, p, k)
                              \/ OpenWhileConnecting(c, s, i, p)
      PROVE  Accounts'
  BY <1>3, <1>4 DEF OpenAndConnect, OpenWhileConnecting
<1>5. ASSUME NEW p \in Pools, OpenOnOpenSocket(c, s, i, p)
      PROVE  Accounts'
  <2> DEFINE f == ControlFrame(s, "open")
             S == members[p] \cup {s}
  <2>1. CASE UNCHANGED backlog
    BY <1>3, <1>5, <2>1 DEF OpenOnOpenSocket
  <2>2. CASE SendFrame(p, queue[p], queuedBytes[p], f)
    <3>1. f \in Frame /\ f.stream \in S
      BY FrameTypes DEF ControlFrame
    <3>2. members' = [members EXCEPT ![p] = S] /\ Sound(queue[p], queuedBytes[p], S)
      BY <1>3, <1>5 DEF OpenOnOpenSocket
    <3> HIDE DEF S, f
    <3> QED BY <1>0, <2>2, <3>1, <3>2, SendFrameAccounts
  <2> QED BY <1>5, <2>1, <2>2 DEF OpenOnOpenSocket
<1> QED
  BY <1>1, <1>2, <1>4, <1>5 DEF OpenStream

\* Every step of the worker keeps its queues sound.
LEMMA AccountsStep ==
  ASSUME SocketWorkerAssumption, Inv, Accounts, Next
  PROVE  Accounts'
<1>0. /\ TypeOK /\ RegistryAgrees /\ SocketsOwned
      /\ members \in [Pools -> SUBSET StreamIds]
  BY DEF Inv, TypeOK
<1>1. ASSUME NEW c \in Ports, NEW s \in StreamIds, NEW n \in DataBytes, Send(c, s, n)
      PROVE  Accounts'
  <2> DEFINE p == boundTo[s]
             f == DataFrame(s, n)
  <2>1. CASE UNCHANGED backlog
    BY <1>1, <2>1, SameAccounts DEF Send, backlog
  <2>2. CASE SendFrame(p, queue[p], queuedBytes[p], f)
    <3>1. p \in Pools /\ s \in members[p]
      BY <1>0, <1>1, BoundHasPool DEF Send, Owns, RegistryAgrees
    <3>2. f \in Frame /\ f.stream \in members[p]
      BY <3>1, FrameTypes DEF DataFrame
    <3>3. /\ members' = [members EXCEPT ![p] = members[p]]
          /\ Sound(queue[p], queuedBytes[p], members[p])
      BY <1>0, <1>1, <3>1 DEF Send, Accounts
    <3> HIDE DEF p, f
    <3> QED BY <1>0, <2>2, <3>1, <3>2, <3>3, SendFrameAccounts
  <2> QED BY <1>1, <2>1, <2>2 DEF Send
<1>2. ASSUME NEW c \in Ports, NEW s \in StreamIds,
             NotOwned(c, s) \/ Heartbeat(c, s) \/ CloseThrows(c, s)
      PROVE  Accounts'
  BY <1>2, SameAccounts DEF NotOwned, OnlyPost, state, Heartbeat, CloseThrows, backlog
<1>3. ASSUME NEW c \in Ports, NEW s \in StreamIds, CloseStream(c, s)
      PROVE  Accounts'
  BY <1>0, <1>3, BoundHasPool, DetachAccounts DEF CloseStream, Owns
<1>4. ASSUME NEW s \in StreamIds, Evict(s)
      PROVE  Accounts'
  <2>1. s \in Bound
    BY <1>0, <1>4 DEF Evict, RegistryAgrees
  <2> QED BY <1>0, <1>4, <2>1, BoundHasPool, DetachAccounts DEF Evict
<1>5. CASE \/ \E s \in StreamIds : LeaseExpires(s)
           \/ LeaseSweep \/ (\E c \in Ports : CleanupPort(c))
  BY <1>5, SameAccounts DEF LeaseExpires, LeaseSweep, CleanupPort, BeginEviction, backlog
<1>6. ASSUME NEW p \in Pools, IdleTimeout(p)
      PROVE  Accounts'
  <2>1. CASE UNCHANGED backlog
    BY <1>6, <2>1, SameAccounts DEF IdleTimeout, backlog
  <2>2. CASE Retire(p)
    <3>1. /\ queue' = [queue EXCEPT ![p] = <<>>]
          /\ queuedBytes' = [queuedBytes EXCEPT ![p] = 0]
          /\ members' = [members EXCEPT ![p] = members[p]]
      BY <1>0, <1>6, <2>2 DEF Retire, IdleTimeout
    <3> QED BY <1>0, <3>1, EmptySound, OneQueue
  <2> QED BY <1>6, <2>1, <2>2 DEF IdleTimeout
<1>7. ASSUME NEW p \in Pools, ReconnectTimeout(p)
      PROVE  Accounts'
  BY <1>7, SameAccounts DEF ReconnectTimeout, backlog
<1>8. ASSUME NEW p \in Pools, FlushTimeout(p)
      PROVE  Accounts'
  BY <1>0, <1>8, SameAccounts, FlushQueueAccounts DEF FlushTimeout
<1>9. ASSUME NEW p \in Pools, NEW k \in Sockets, SocketOpens(p, k)
      PROVE  Accounts'
  BY <1>0, <1>9, FlushQueueAccounts DEF SocketOpens
<1>10. ASSUME NEW p \in Pools, NEW k \in Sockets, NegotiationFails(p, k)
       PROVE  Accounts'
  BY <1>0, <1>10, ProtocolViolationAccounts DEF NegotiationFails
<1>11. ASSUME NEW k \in Sockets, ServerBreaksProtocol(k)
       PROVE  Accounts'
  BY <1>0, <1>11, CreatorIsPool, ProtocolViolationAccounts DEF ServerBreaksProtocol, Incoming
<1>12. ASSUME NEW k \in Sockets, NEW s \in StreamIds, ServerClosesStream(k, s)
       PROVE  Accounts'
  <2>1. creator[k] \in Pools /\ s \in members[creator[k]]
    BY <1>0, <1>12, CreatorIsPool DEF ServerClosesStream, Incoming
  <2>2. boundTo[s] \in Pools
    BY <1>0, <2>1, MemberBound
  <2> QED BY <1>0, <1>12, <2>2, DetachAccounts DEF ServerClosesStream
<1>13. ASSUME NEW k \in Sockets,
              \/ OrphanOpens(k) \/ (\E to \in SUBSET StreamIds : ServerMessage(k, to))
              \/ ServerStartsClose(k) \/ Drain(k)
       PROVE  Accounts'
  BY <1>13, SameAccounts
  DEF OrphanOpens, ServerMessage, OnlyPost, state, ServerStartsClose, Drain, backlog
<1>14. ASSUME NEW k \in Sockets, NEW code, NEW errored, SocketCloses(k, code, errored)
       PROVE  Accounts'
  <2>1. creator[k] \in Pools
    BY <1>0, <1>14, CreatorIsPool DEF SocketCloses
  <2> QED BY <1>0, <1>14, <2>1, SameAccounts, ClosePoolAccounts DEF SocketCloses, backlog
<1>15. PageRequest => Accounts'
  BY <1>0, <1>1, <1>2, <1>3, OpenStreamAccounts DEF PageRequest
<1>16. Housekeeping => Accounts'
  BY <1>4, <1>5, <1>6, <1>7, <1>8 DEF Housekeeping
<1>17. SocketEvent => Accounts'
  BY <1>9, <1>10, <1>11, <1>12, <1>13, <1>14 DEF SocketEvent
<1> QED
  BY <1>15, <1>16, <1>17 DEF Next

-----------------------------------------------------------------------------
(* The flush timer. *)

\* BacklogScheduled is not inductive: it must not happen that the socket of a pool
\* that is closing opens, for onopen then returns without a flush.
ClosingSocketsClose ==
  \A p \in closing : socket[p] # None => readyState[socket[p]] = "CLOSING"

Scheduled == BacklogScheduled /\ ClosingSocketsClose

\* A step that opens no socket but that of pool p, and touches no other queue.
LEMMA OneTimer ==
  ASSUME BacklogScheduled, NEW p \in Pools,
         IsOpen(p)' /\ queue'[p] # <<>> => p \in flushTimer',
         \A o \in Pools \ {p} : /\ (IsOpen(o)' => IsOpen(o))
                               /\ queue'[o] = queue[o]
                               /\ (o \in flushTimer => o \in flushTimer')
  PROVE  BacklogScheduled'
<1>1. ASSUME NEW o \in Pools, IsOpen(o)', queue'[o] # <<>> PROVE o \in flushTimer'
  <2>1. CASE o = p
    BY <1>1, <2>1
  <2>2. CASE o # p
    BY <1>1, <2>2 DEF BacklogScheduled
  <2> QED BY <2>1, <2>2
<1> QED BY <1>1 DEF BacklogScheduled

LEMMA SameTimers ==
  ASSUME BacklogScheduled, UNCHANGED <<queue, flushTimer>>,
         \A p \in Pools : IsOpen(p)' => IsOpen(p)
  PROVE  BacklogScheduled'
BY DEF BacklogScheduled

LEMMA SameOpen ==
  ASSUME UNCHANGED <<socket, readyState>>
  PROVE  \A p : IsOpen(p)' <=> IsOpen(p)
BY DEF IsOpen

LEMMA AppendedNotEmpty ==
  ASSUME NEW q \in Seq(Frame), NEW f \in Frame
  PROVE  Append(q, f) # <<>>
BY SMTT(30)

LEMMA SendFrameTimer ==
  ASSUME BacklogScheduled, queue \in [Pools -> Seq(Frame)],
         NEW p \in Pools, NEW q \in Seq(Frame), NEW bytes, NEW f \in Frame,
         q # <<>> => queue[p] # <<>>,
         SendFrame(p, q, bytes, f), UNCHANGED <<socket, readyState>>
  PROVE  BacklogScheduled'
<1>1. \A o \in Pools : IsOpen(o)' <=> IsOpen(o)
  BY SameOpen
<1>2. CASE queue' = [queue EXCEPT ![p] = q] /\ UNCHANGED flushTimer
  BY <1>1, <1>2, OneTimer DEF BacklogScheduled
<1>3. CASE /\ queue' = [queue EXCEPT ![p] = Append(q, f)]
           /\ flushTimer' = IF IsOpen(p) THEN ScheduleFlush(p, Append(q, f), flushTimer)
                                         ELSE flushTimer
  BY <1>1, <1>3, OneTimer, AppendedNotEmpty DEF ScheduleFlush
<1> QED BY <1>2, <1>3 DEF SendFrame

\* The queue is never left without a timer by flushQueue itself.
LEMMA FlushQueueTimer ==
  ASSUME BacklogScheduled, queue \in [Pools -> Seq(Frame)], NEW p \in Pools, NEW owned,
         NEW armed \in {flushTimer, flushTimer \ {p}}, FlushQueue(p, owned, armed),
         \A o \in Pools \ {p} : IsOpen(o)' => IsOpen(o)
  PROVE  BacklogScheduled'
<1>1. PICK n \in 0..Len(queue[p]) :
        /\ queue' = [queue EXCEPT ![p] = SubSeq(queue[p], n + 1, Len(queue[p]))]
        /\ flushTimer' = ScheduleFlush(p, SubSeq(queue[p], n + 1, Len(queue[p])), armed)
  BY DEF FlushQueue
<1> QED BY <1>1, OneTimer DEF ScheduleFlush

LEMMA DetachTimer ==
  ASSUME SocketWorkerAssumption, BacklogScheduled, Accounts, NEW s \in StreamIds,
         boundTo[s] \in Pools, NEW told, NEW messages, Detach(s, told, messages)
  PROVE  BacklogScheduled'
<1> DEFINE p == boundTo[s]
           q == WithoutStream(queue[p], s)
           bytes == queuedBytes[p] - DiscardedBytes(queue[p], s)
           bye == ControlFrame(s, "close")
<1>1. queue \in [Pools -> Seq(Frame)] /\ queue[p] \in Seq(Frame)
  BY DEF Accounts
<1>2. q \in Seq(Frame) /\ Len(q) <= Len(queue[p])
  BY <1>1, RemovedFrames
<1>3. q # <<>> => queue[p] # <<>>
  <2> HIDE DEF q
  <2> QED BY <1>1, <1>2
<1>4. UNCHANGED <<socket, readyState>>
  BY DEF Detach, physical
<1>5. \/ SendFrame(p, q, bytes, bye)
      \/ queue' = [queue EXCEPT ![p] = q] /\ UNCHANGED flushTimer
  BY DEF Detach
<1>6. bye \in Frame /\ p \in Pools
  BY FrameTypes
<1> HIDE DEF p, q, bytes, bye
<1>7. CASE SendFrame(p, q, bytes, bye)
  BY <1>1, <1>2, <1>3, <1>4, <1>6, <1>7, SendFrameTimer
<1>8. CASE queue' = [queue EXCEPT ![p] = q] /\ UNCHANGED flushTimer
  BY <1>1, <1>3, <1>4, <1>6, <1>8, SameOpen, OneTimer DEF BacklogScheduled
<1> QED BY <1>5, <1>7, <1>8

LEMMA ClosePoolTimer ==
  ASSUME BacklogScheduled, Accounts, NEW p \in Pools, NEW messages, ClosePool(p, messages),
         \A o \in Pools : IsOpen(o)' => IsOpen(o)
  PROVE  BacklogScheduled'
<1>1. queue' = [queue EXCEPT ![p] = <<>>] /\ flushTimer' = flushTimer \ {p}
  BY DEF ClosePool, Retire
<1> QED BY <1>1, OneTimer DEF Accounts

LEMMA ProtocolViolationTimer ==
  ASSUME SocketWorkerAssumption, TypeOK, BacklogScheduled, Accounts, NEW p \in Pools,
         ProtocolViolation(p)
  PROVE  BacklogScheduled'
<1>1. CASE /\ readyState' = [readyState EXCEPT ![socket[p]] = "CLOSING"]
           /\ UNCHANGED <<socket, backlog>>
  <2>1. \A o \in Pools : IsOpen(o)' => IsOpen(o)
    BY <1>1 DEF IsOpen, TypeOK
  <2> QED BY <1>1, <2>1, SameTimers DEF backlog
<1>2. CASE ClosePool(p, PostPool(p, "error")) /\ UNCHANGED <<socket, physical>>
  BY <1>2, SameOpen, ClosePoolTimer DEF physical
<1> QED BY <1>1, <1>2 DEF ProtocolViolation

\* A socket that is still CONNECTING opens no queue.
LEMMA ConnectTimer ==
  ASSUME TypeOK, NEW p \in Pools, NEW k \in Sockets, Connect(p, k)
  PROVE  /\ ~IsOpen(p)'
         /\ \A o \in Pools \ {p} : IsOpen(o)' => IsOpen(o)
BY DEF Connect, IsOpen, TypeOK

LEMMA OpenStreamTimer ==
  ASSUME SocketWorkerAssumption, TypeOK, BacklogScheduled, Accounts,
         NEW c \in Ports, NEW s \in StreamIds, NEW i \in Identities, OpenStream(c, s, i)
  PROVE  BacklogScheduled'
<1>0. queue \in [Pools -> Seq(Frame)]
  BY DEF Accounts
<1>1. CASE \/ OpenRefused(c, s, i) \/ OpenAgain(c, s, i)
           \/ OpenWithoutPool(c, s, i) \/ OpenInFullPool(c, s, i)
           \/ (\E p \in Pools : OpenWhileConnecting(c, s, i, p))
  BY <1>1, SameTimers, SameOpen
  DEF OpenRefused, OnlyPost, state, backlog, physical, OpenAgain, OpenWithoutPool,
      OpenInFullPool, OpenWhileConnecting
<1>2. ASSUME NEW p \in Pools, NEW k \in Sockets, OpenInNewPool(c, s, i, p, k)
      PROVE  BacklogScheduled'
  <2>1. Connect(p, k) /\ queue' = [queue EXCEPT ![p] = <<>>] /\ UNCHANGED flushTimer
    BY <1>2 DEF OpenInNewPool
  <2> QED BY <1>0, <2>1, ConnectTimer, OneTimer
<1>3. ASSUME NEW p \in Pools, NEW k \in Sockets, OpenAndConnect(c, s, i, p, k)
      PROVE  BacklogScheduled'
  <2>1. Connect(p, k) /\ UNCHANGED <<queue, flushTimer>>
    BY <1>3 DEF OpenAndConnect, backlog
  <2> QED BY <1>0, <2>1, ConnectTimer, OneTimer
<1>4. ASSUME NEW p \in Pools, OpenOnOpenSocket(c, s, i, p)
      PROVE  BacklogScheduled'
  <2> DEFINE f == ControlFrame(s, "open")
  <2>0. UNCHANGED <<socket, readyState>>
    BY <1>4 DEF OpenOnOpenSocket, physical
  <2>1. CASE UNCHANGED backlog
    BY <2>0, <2>1, SameTimers, SameOpen DEF backlog
  <2>2. CASE SendFrame(p, queue[p], queuedBytes[p], f)
    <3>1. f \in Frame /\ queue[p] \in Seq(Frame)
      BY <1>0, FrameTypes
    <3> HIDE DEF f
    <3> QED BY <1>0, <2>0, <2>2, <3>1, SendFrameTimer
  <2> QED BY <1>4, <2>1, <2>2 DEF OpenOnOpenSocket
<1> QED
  BY <1>1, <1>2, <1>3, <1>4 DEF OpenStream

\* Every step of the worker keeps a flush timer armed where frames wait.
LEMMA TimerStep ==
  ASSUME SocketWorkerAssumption, Inv, Accounts, Scheduled, Next
  PROVE  BacklogScheduled'
<1>0. /\ TypeOK /\ RegistryAgrees /\ ClosingPoolAwaitsClose /\ SocketsOwned
      /\ BacklogScheduled /\ queue \in [Pools -> Seq(Frame)]
  BY DEF Inv, Accounts, Scheduled
<1>1. ASSUME NEW c \in Ports, NEW s \in StreamIds, NEW n \in DataBytes, Send(c, s, n)
      PROVE  BacklogScheduled'
  <2> DEFINE p == boundTo[s]
             f == DataFrame(s, n)
  <2>0. UNCHANGED <<socket, readyState>>
    BY <1>1 DEF Send, physical
  <2>1. CASE UNCHANGED backlog
    BY <1>0, <2>0, <2>1, SameTimers, SameOpen DEF backlog
  <2>2. CASE SendFrame(p, queue[p], queuedBytes[p], f)
    <3>1. p \in Pools /\ f \in Frame /\ queue[p] \in Seq(Frame)
      BY <1>0, <1>1, BoundHasPool, FrameTypes DEF Send, Owns
    <3> HIDE DEF p, f
    <3> QED BY <1>0, <2>0, <2>2, <3>1, SendFrameTimer
  <2> QED BY <1>1, <2>1, <2>2 DEF Send
<1>2. ASSUME NEW c \in Ports, NEW s \in StreamIds,
             NotOwned(c, s) \/ Heartbeat(c, s) \/ CloseThrows(c, s)
      PROVE  BacklogScheduled'
  BY <1>0, <1>2, SameTimers, SameOpen
  DEF NotOwned, OnlyPost, state, Heartbeat, CloseThrows, backlog, physical
<1>3. ASSUME NEW c \in Ports, NEW s \in StreamIds, CloseStream(c, s)
      PROVE  BacklogScheduled'
  BY <1>0, <1>3, BoundHasPool, DetachTimer DEF CloseStream, Owns
<1>4. ASSUME NEW s \in StreamIds, Evict(s)
      PROVE  BacklogScheduled'
  <2>1. s \in Bound
    BY <1>0, <1>4 DEF Evict, RegistryAgrees
  <2> QED BY <1>0, <1>4, <2>1, BoundHasPool, DetachTimer DEF Evict
<1>5. CASE \/ \E s \in StreamIds : LeaseExpires(s)
           \/ LeaseSweep \/ (\E c \in Ports : CleanupPort(c))
  BY <1>0, <1>5, SameTimers, SameOpen
  DEF LeaseExpires, LeaseSweep, CleanupPort, BeginEviction, backlog, physical
<1>6. ASSUME NEW p \in Pools, IdleTimeout(p)
      PROVE  BacklogScheduled'
  <2>1. CASE UNCHANGED <<backlog, socket, readyState>>
    BY <1>0, <2>1, SameTimers, SameOpen DEF backlog
  <2>2. CASE /\ Retire(p)
             /\ socket' = [socket EXCEPT ![p] = None]
             /\ readyState' = [k \in Sockets |-> IF k = socket[p] THEN "CLOSING"
                                                                  ELSE readyState[k]]
    <3>1. queue' = [queue EXCEPT ![p] = <<>>] /\ flushTimer' = flushTimer \ {p}
      BY <2>2 DEF Retire
    <3>2. \A o \in Pools : IsOpen(o)' => IsOpen(o)
      BY <1>0, <2>2 DEF IsOpen, TypeOK
    <3> QED BY <1>0, <3>1, <3>2, OneTimer
  <2> QED BY <1>6, <2>1, <2>2 DEF IdleTimeout
<1>7. ASSUME NEW p \in Pools, ReconnectTimeout(p)
      PROVE  BacklogScheduled'
  <2>0. UNCHANGED <<queue, flushTimer>>
    BY <1>7 DEF ReconnectTimeout, backlog
  <2>1. CASE UNCHANGED <<socket, physical>>
    BY <1>0, <2>0, <2>1, SameTimers, SameOpen DEF physical
  <2>2. ASSUME NEW k \in Sockets, Connect(p, k) PROVE BacklogScheduled'
    BY <1>0, <2>0, <2>2, ConnectTimer, OneTimer
  <2> QED BY <1>7, <2>1, <2>2 DEF ReconnectTimeout
<1>8. ASSUME NEW p \in Pools, FlushTimeout(p)
      PROVE  BacklogScheduled'
  <2>0. UNCHANGED <<socket, readyState>>
    BY <1>8 DEF FlushTimeout, physical
  <2>1. CASE ~IsOpen(p) /\ flushTimer' = flushTimer \ {p} /\ UNCHANGED queue
    BY <1>0, <2>0, <2>1, SameOpen, OneTimer
  <2>2. CASE FlushQueue(p, announced[socket[p]], flushTimer \ {p})
    BY <1>0, <2>0, <2>2, SameOpen, FlushQueueTimer
  <2> QED BY <1>8, <2>1, <2>2 DEF FlushTimeout
<1>9. ASSUME NEW p \in Pools, NEW k \in Sockets, SocketOpens(p, k)
      PROVE  BacklogScheduled'
  <2>1. \A o \in Pools \ {p} : IsOpen(o)' => IsOpen(o)
    BY <1>0, <1>9 DEF SocketOpens, Opening, IsOpen, TypeOK, ClosingPoolAwaitsClose
  <2> QED BY <1>0, <1>9, <2>1, FlushQueueTimer DEF SocketOpens
<1>10. ASSUME NEW p \in Pools, NEW k \in Sockets, NegotiationFails(p, k)
       PROVE  BacklogScheduled'
  BY <1>0, <1>10, ProtocolViolationTimer DEF NegotiationFails
<1>11. ASSUME NEW k \in Sockets, ServerBreaksProtocol(k)
       PROVE  BacklogScheduled'
  BY <1>0, <1>11, CreatorIsPool, ProtocolViolationTimer DEF ServerBreaksProtocol, Incoming
<1>12. ASSUME NEW k \in Sockets, NEW s \in StreamIds, ServerClosesStream(k, s)
       PROVE  BacklogScheduled'
  <2>1. creator[k] \in Pools /\ s \in members[creator[k]]
    BY <1>0, <1>12, CreatorIsPool DEF ServerClosesStream, Incoming
  <2>2. boundTo[s] \in Pools
    BY <1>0, <2>1, MemberBound
  <2> QED BY <1>0, <1>12, <2>2, DetachTimer DEF ServerClosesStream
<1>13. ASSUME NEW k \in Sockets, (\E to \in SUBSET StreamIds : ServerMessage(k, to)) \/ Drain(k)
       PROVE  BacklogScheduled'
  BY <1>0, <1>13, SameTimers, SameOpen
  DEF ServerMessage, OnlyPost, state, Drain, backlog, physical
<1>14. ASSUME NEW k \in Sockets, OrphanOpens(k)
       PROVE  BacklogScheduled'
  <2>1. \A p \in Pools : socket[p] # k
    BY <1>0, <1>14 DEF OrphanOpens, ClosingPoolAwaitsClose, Scheduled, ClosingSocketsClose,
       SocketWorkerAssumption
  <2>2. \A p \in Pools : IsOpen(p)' => IsOpen(p)
    BY <1>0, <1>14, <2>1 DEF OrphanOpens, IsOpen, TypeOK
  <2> QED BY <1>0, <1>14, <2>2, SameTimers DEF OrphanOpens, backlog
<1>15. ASSUME NEW k \in Sockets, ServerStartsClose(k)
       PROVE  BacklogScheduled'
  <2>1. \A p \in Pools : IsOpen(p)' => IsOpen(p)
    BY <1>0, <1>15 DEF ServerStartsClose, IsOpen, TypeOK
  <2> QED BY <1>0, <1>15, <2>1, SameTimers DEF ServerStartsClose, backlog
<1>16. ASSUME NEW k \in Sockets, NEW code, NEW errored, SocketCloses(k, code, errored)
       PROVE  BacklogScheduled'
  <2>1. creator[k] \in Pools
    BY <1>0, <1>16, CreatorIsPool DEF SocketCloses
  <2>2. \A p \in Pools : IsOpen(p)' => IsOpen(p)
    <3>1. \A o \in Pools : socket'[o] \in {socket[o], None}
      BY <1>0, <1>16 DEF SocketCloses, TypeOK
    <3>2. \A j \in Sockets : readyState'[j] = IF j = k THEN "FREE" ELSE readyState[j]
      BY <1>0, <1>16 DEF SocketCloses, Discard, TypeOK
    <3> QED BY <1>0, <3>1, <3>2 DEF IsOpen, TypeOK
  <2> QED BY <1>0, <1>16, <2>1, <2>2, SameTimers, ClosePoolTimer DEF SocketCloses, backlog
<1>17. PageRequest => BacklogScheduled'
  BY <1>0, <1>1, <1>2, <1>3, OpenStreamTimer DEF PageRequest
<1>18. Housekeeping => BacklogScheduled'
  BY <1>4, <1>5, <1>6, <1>7, <1>8 DEF Housekeeping
<1>19. SocketEvent => BacklogScheduled'
  BY <1>9, <1>10, <1>11, <1>12, <1>13, <1>14, <1>15, <1>16 DEF SocketEvent
<1> QED
  BY <1>17, <1>18, <1>19 DEF Next

LEMMA SameClosing ==
  ASSUME ClosingSocketsClose, UNCHANGED <<closing, socket, readyState>>
  PROVE  ClosingSocketsClose'
BY DEF ClosingSocketsClose

\* No socket of a closing pool changes but by its close event.
LEMMA SocketsAdvance ==
  ASSUME TypeOK, ClosingSocketsClose, NEW k \in Sockets, NEW next,
         readyState[k] # "CLOSING" \/ next = "CLOSING",
         readyState' = [readyState EXCEPT ![k] = next], UNCHANGED <<closing, socket>>
  PROVE  ClosingSocketsClose'
BY DEF ClosingSocketsClose, TypeOK

LEMMA ProtocolViolationCloses ==
  ASSUME TypeOK, ClosingSocketsClose, NEW p \in Pools, ProtocolViolation(p)
  PROVE  ClosingSocketsClose'
<1>1. CASE /\ closing' = closing \cup {p}
           /\ readyState' = [readyState EXCEPT ![socket[p]] = "CLOSING"]
           /\ UNCHANGED socket
  BY <1>1 DEF ClosingSocketsClose, TypeOK
<1>2. CASE /\ socket[p] # None => readyState[socket[p]] = "CLOSING"
           /\ closing' = closing \cup {p}
           /\ UNCHANGED <<socket, readyState>>
  BY <1>2 DEF ClosingSocketsClose, TypeOK
<1> QED BY <1>1, <1>2 DEF ProtocolViolation, ClosePool, Retire, physical

\* A pool that gets a socket is not closing.
LEMMA ConnectCloses ==
  ASSUME SocketWorkerAssumption, TypeOK, ClosingPoolAwaitsClose, ClosingSocketsClose,
         NEW p \in Pools, NEW k \in Sockets, Connect(p, k),
         closing' \subseteq closing, p \notin closing'
  PROVE  ClosingSocketsClose'
<1>1. ASSUME NEW o \in closing', socket'[o] # None
      PROVE  readyState'[socket'[o]] = "CLOSING"
  <2>1. o \in closing /\ o \in Pools /\ o # p
    BY <1>1 DEF TypeOK
  <2>2. socket'[o] = socket[o] /\ socket[o] \in Sockets
    BY <1>1, <2>1 DEF Connect, TypeOK
  <2>3. readyState[socket[o]] = "CLOSING" /\ socket[o] # k
    BY <1>1, <2>1, <2>2 DEF ClosingSocketsClose, Connect
  <2> QED BY <2>2, <2>3 DEF Connect, TypeOK
<1> QED BY <1>1 DEF ClosingSocketsClose

\* Every step keeps the sockets of closing pools from opening.
LEMMA ClosingSocketsStep ==
  ASSUME SocketWorkerAssumption, Inv, ClosingSocketsClose, Next
  PROVE  ClosingSocketsClose'
<1>0. TypeOK /\ ClosingPoolAwaitsClose /\ SocketsOwned
  BY DEF Inv
<1>1. ASSUME NEW c \in Ports, NEW s \in StreamIds, NEW i \in Identities, OpenStream(c, s, i)
      PROVE  ClosingSocketsClose'
  <2>1. CASE \/ OpenRefused(c, s, i) \/ OpenAgain(c, s, i)
             \/ OpenWithoutPool(c, s, i) \/ OpenInFullPool(c, s, i)
             \/ (\E p \in Pools : OpenWhileConnecting(c, s, i, p))
             \/ (\E p \in Pools : OpenOnOpenSocket(c, s, i, p))
    BY <2>1, SameClosing
    DEF OpenRefused, OnlyPost, state, catalog, physical, OpenAgain, OpenWithoutPool,
        OpenInFullPool, OpenWhileConnecting, OpenOnOpenSocket, JoinPool
  <2>2. ASSUME NEW p \in Pools, NEW k \in Sockets, OpenInNewPool(c, s, i, p, k)
        PROVE  ClosingSocketsClose'
    BY <1>0, <2>2, ConnectCloses DEF OpenInNewPool
  <2>3. ASSUME NEW p \in Pools, NEW k \in Sockets, OpenAndConnect(c, s, i, p, k)
        PROVE  ClosingSocketsClose'
    BY <1>0, <2>3, ConnectCloses DEF OpenAndConnect, JoinPool, Reusable, catalog
  <2> QED BY <1>1, <2>1, <2>2, <2>3 DEF OpenStream
<1>2. PageRequest => ClosingSocketsClose'
  BY <1>1, SameClosing
  DEF PageRequest, NotOwned, OnlyPost, state, Heartbeat, Send, CloseStream, CloseThrows,
      Detach, catalog, physical
<1>3. ASSUME NEW p \in Pools, IdleTimeout(p)
      PROVE  ClosingSocketsClose'
  <2>1. CASE UNCHANGED <<catalog, socket, readyState>>
    BY <2>1, SameClosing DEF catalog
  <2>2. CASE /\ closing' = closing \cup {p}
             /\ socket' = [socket EXCEPT ![p] = None]
             /\ readyState' = [k \in Sockets |-> IF k = socket[p] THEN "CLOSING"
                                                                  ELSE readyState[k]]
    BY <1>0, <2>2 DEF ClosingSocketsClose, TypeOK
  <2> QED BY <1>3, <2>1, <2>2 DEF IdleTimeout, Retire
<1>4. ASSUME NEW p \in Pools, ReconnectTimeout(p)
      PROVE  ClosingSocketsClose'
  BY <1>0, <1>4, SameClosing, ConnectCloses
  DEF ReconnectTimeout, ReconnectWanted, catalog, physical
<1>5. Housekeeping => ClosingSocketsClose'
  BY <1>3, <1>4, SameClosing
  DEF Housekeeping, LeaseExpires, Evict, Detach, LeaseSweep, CleanupPort, BeginEviction,
      FlushTimeout, catalog, physical
<1>6. ASSUME NEW k \in Sockets, NEW code, NEW errored, SocketCloses(k, code, errored)
      PROVE  ClosingSocketsClose'
  <2>1. creator[k] \in Pools
    BY <1>0, <1>6, CreatorIsPool DEF SocketCloses
  <2>2. /\ \A o \in Pools : socket'[o] \in {socket[o], None} /\ socket'[o] # k
        /\ socket'[creator[k]] # None => UNCHANGED closing
        /\ closing' \subseteq closing \cup {creator[k]}
    <3>1. \A o \in Pools : socket[o] = k => o = creator[k]
      BY <1>0, <1>6 DEF ClosingPoolAwaitsClose, SocketWorkerAssumption
    <3>2. \/ socket[creator[k]] # k /\ UNCHANGED <<catalog, socket>>
          \/ socket' = [socket EXCEPT ![creator[k]] = None] /\ UNCHANGED catalog
          \/ /\ socket' = [socket EXCEPT ![creator[k]] = None]
             /\ closing' = closing \cup {creator[k]}
      BY <1>6, ZenonT(60) DEF SocketCloses, ClosePool, Retire
    <3> QED BY <1>0, <2>1, <3>1, <3>2 DEF TypeOK, catalog, SocketWorkerAssumption
  <2>3. \A j \in Sockets : readyState'[j] = IF j = k THEN "FREE" ELSE readyState[j]
    BY <1>0, <1>6 DEF SocketCloses, Discard, TypeOK
  <2> QED BY <1>0, <2>1, <2>2, <2>3 DEF ClosingSocketsClose, TypeOK
<1>7. ASSUME NEW k \in Sockets, OrphanOpens(k) \/ ServerStartsClose(k)
      PROVE  ClosingSocketsClose'
  BY <1>0, <1>7, SocketsAdvance DEF OrphanOpens, ServerStartsClose, catalog
<1>8. ASSUME NEW k \in Sockets, NEW p \in Pools, SocketOpens(p, k)
      PROVE  ClosingSocketsClose'
  BY <1>0, <1>8, SocketsAdvance DEF SocketOpens, Opening, catalog
<1>9. ASSUME NEW k \in Sockets,
             \/ (\E p \in Pools : NegotiationFails(p, k))
             \/ ServerBreaksProtocol(k)
      PROVE  ClosingSocketsClose'
  BY <1>0, <1>9, CreatorIsPool, ProtocolViolationCloses
  DEF NegotiationFails, ServerBreaksProtocol, Incoming
<1>10. ASSUME NEW k \in Sockets,
              \/ (\E to \in SUBSET StreamIds : ServerMessage(k, to))
              \/ (\E s \in StreamIds : ServerClosesStream(k, s))
              \/ Drain(k)
       PROVE  ClosingSocketsClose'
  BY <1>10, SameClosing
  DEF ServerMessage, OnlyPost, state, ServerClosesStream, Detach, Drain, catalog, physical
<1>11. SocketEvent => ClosingSocketsClose'
  BY <1>6, <1>7, <1>8, <1>9, <1>10 DEF SocketEvent
<1> QED BY <1>2, <1>5, <1>11 DEF Next

-----------------------------------------------------------------------------
(* The theorems. *)

LEMMA InitBacklog ==
  ASSUME SocketWorkerAssumption, Init
  PROVE  Accounts /\ Scheduled
<1>1. Accounts
  BY EmptySound DEF Init, Accounts
<1>2. Scheduled
  BY DEF Init, Scheduled, BacklogScheduled, ClosingSocketsClose, IsOpen
<1> QED BY <1>1, <1>2

LEMMA StutterBacklog ==
  ASSUME Accounts, Scheduled, UNCHANGED vars
  PROVE  Accounts' /\ Scheduled'
<1>1. UNCHANGED <<queue, queuedBytes, members, flushTimer, closing, socket, readyState>>
  BY DEF vars, state, catalog, backlog, physical
<1>2. Accounts'
  BY <1>1, SameAccounts
<1>3. BacklogScheduled'
  BY <1>1, SameTimers, SameOpen DEF Scheduled
<1>4. ClosingSocketsClose'
  BY <1>1, SameClosing DEF Scheduled
<1> QED BY <1>2, <1>3, <1>4 DEF Scheduled

\* Every reachable state has sound queues with their timers armed, and no closing pool
\* has a socket that may still open.
THEOREM BacklogInvariance == Spec => [](Accounts /\ Scheduled)
<1>1. Init => Accounts /\ Scheduled
  BY InitBacklog, SocketWorkerAssumption
<1>2. Inv /\ Accounts /\ Scheduled /\ [Next]_vars => (Accounts /\ Scheduled)'
  <2>1. ASSUME Inv, Accounts, Scheduled, Next PROVE (Accounts /\ Scheduled)'
    BY <2>1, AccountsStep, TimerStep, ClosingSocketsStep, SocketWorkerAssumption DEF Scheduled
  <2> QED BY <2>1, StutterBacklog
<1> QED BY <1>1, <1>2, Invariance, PTL DEF Spec

\* Frames that wait on an open socket always have a flush timer armed.
THEOREM BacklogIsScheduled == Spec => []BacklogScheduled
<1>1. Accounts /\ Scheduled => BacklogScheduled
  BY DEF Scheduled
<1> QED BY <1>1, BacklogInvariance, PTL

\* queued_bytes is always the size of the frames queued, and both limits hold.
THEOREM BacklogIsAccounted == Spec => []BacklogAccounted
<1>1. Accounts /\ Scheduled => BacklogAccounted
  BY DEF Accounts, Sound, BacklogAccounted
<1> QED BY <1>1, BacklogInvariance, PTL

\* What waits in a queue is of a stream the pool still has, or says that one is gone.
THEOREM BacklogIsOfMembers == Spec => []BacklogOfMembers
<1>1. Accounts /\ Scheduled => BacklogOfMembers
  BY DEF Accounts, Sound, BacklogOfMembers
<1> QED BY <1>1, BacklogInvariance, PTL
=============================================================================
