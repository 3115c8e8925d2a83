------------------------------- MODULE LebProofs -------------------------------
(***************************************************************************)
(* Proofs about Leb.tla, for every width and every size of the groups: the *)
(* loop of read_leb_u32 computes what the format says, in every buffer.    *)
(* The loop and the format are recursive functions.  That such a function  *)
(* is what its definition says, and what holds of all its values, is shown *)
(* by induction over sets of naturals.                                     *)
(***************************************************************************)
EXTENDS Leb, FiniteSetTheorems, SequenceTheorems, TLAPS

-----------------------------------------------------------------------------
(* Induction and recursion                                                 *)

(* If n is not in S, then the finite set of the members of S below n is    *)
(* mapped by the successor to itself without 0, which is too small.        *)
LEMMA SetInduction ==
  ASSUME NEW S, 0 \in S, \A n \in Nat : n \in S => n + 1 \in S
  PROVE  Nat \subseteq S
<1> SUFFICES ASSUME NEW n \in Nat, n \notin S
             PROVE  FALSE
  OBVIOUS
<1> DEFINE T == {k \in 0 .. n : k \in S}
           U == T \ {0}
           f == [k \in T |-> k + 1]
<1>1. IsFiniteSet(T)
  <2>1. IsFiniteSet(0 .. n)
    BY FS_Interval
  <2>2. T \subseteq 0 .. n
    OBVIOUS
  <2>3. QED
    BY <2>1, <2>2, FS_Subset
<1>2. 0 \in T
  OBVIOUS
<1>3. IsFiniteSet(U) /\ Cardinality(U) = Cardinality(T) - 1 /\ Cardinality(T) \in Nat
  BY <1>1, <1>2, FS_RemoveElement, FS_CardinalityType
<1>4. f \in [T -> U]
  OBVIOUS
<1>5. \E x, y \in T : x # y /\ f[x] = f[y]
  <2> HIDE DEF T, U, f
  <2>1. QED
    BY <1>1, <1>3, <1>4, FS_PigeonHole
<1>6. QED
  BY <1>5

(* A value for every natural, each got from the one before.                *)
Sequel(A, base, step) ==
  {f \in [Nat -> A] : f[0] = base /\ \A n \in Nat : f[n + 1] = step[n][f[n]]}

LEMMA PrimitiveRecursion ==
  ASSUME NEW A, NEW base \in A, NEW step \in [Nat -> [A -> A]]
  PROVE  Sequel(A, base, step) # {}
<1> DEFINE Part(n) == {g \in [0 .. n -> A] :
                         g[0] = base /\ \A k \in 0 .. n - 1 : g[k + 1] = step[k][g[k]]}
           some == [n \in Nat |-> CHOOSE g \in Part(n) : TRUE]
           f == [n \in Nat |-> some[n][n]]
<1>1. \A n \in Nat : Part(n) # {}
  <2> DEFINE S == {n \in Nat : Part(n) # {}}
  <2>1. 0 \in S
    <3>1. [k \in 0 .. 0 |-> base] \in Part(0)
      OBVIOUS
    <3>2. QED
      BY <3>1
  <2>2. ASSUME NEW n \in Nat, n \in S
        PROVE  n + 1 \in S
    <3>1. PICK g \in Part(n) : TRUE
      BY <2>2
    <3> DEFINE h == [k \in 0 .. n + 1 |-> IF k = n + 1 THEN step[n][g[n]] ELSE g[k]]
    <3>2. h \in [0 .. n + 1 -> A]
      BY <3>1
    <3>3. h[0] = base
      BY <3>1
    <3>4. ASSUME NEW k \in 0 .. (n + 1) - 1
          PROVE  h[k + 1] = step[k][h[k]]
      <4>1. CASE k = n
        BY <4>1
      <4>2. CASE k # n
        <5>1. k \in 0 .. n - 1
          BY <4>2
        <5>2. QED
          BY <3>1, <5>1
      <4>3. QED
        BY <4>1, <4>2
    <3>5. h \in Part(n + 1)
      <4> HIDE DEF h
      <4>1. QED
        BY <3>2, <3>3, <3>4
    <3>6. n + 1 \in Nat /\ Part(n + 1) # {}
      <4> HIDE DEF Part, h
      <4>1. QED
        BY <3>5
    <3>7. QED
      BY <3>6
  <2> HIDE DEF S
  <2>3. Nat \subseteq S
    BY <2>1, <2>2, SetInduction
  <2>4. QED
    BY <2>3 DEF S
<1>2. ASSUME NEW m \in Nat, NEW n \in Nat, m <= n, NEW g \in Part(m), NEW h \in Part(n)
      PROVE  g[m] = h[m]
  <2> DEFINE S == {k \in Nat : k <= m => g[k] = h[k]}
  <2>1. 0 \in S
    OBVIOUS
  <2>2. ASSUME NEW k \in Nat, k \in S
        PROVE  k + 1 \in S
    <3>1. CASE k + 1 <= m
      <4>1. k \in 0 .. m - 1 /\ k \in 0 .. n - 1 /\ g[k] = h[k]
        BY <1>2, <2>2, <3>1
      <4>2. g[k + 1] = step[k][g[k]] /\ h[k + 1] = step[k][h[k]]
        BY <4>1
      <4>3. QED
        BY <4>1, <4>2
    <3>2. CASE ~(k + 1 <= m)
      BY <3>2
    <3>3. QED
      BY <3>1, <3>2
  <2> HIDE DEF S, Part
  <2>3. Nat \subseteq S
    BY <2>1, <2>2, SetInduction
  <2>4. QED
    BY <2>3 DEF S
<1>3. \A n \in Nat : some[n] \in Part(n)
  <2> HIDE DEF Part
  <2>1. QED
    BY <1>1
<1>4. \A n \in Nat : some[n] \in [0 .. n -> A] /\ n \in 0 .. n
  <2> HIDE DEF some
  <2>1. QED
    BY <1>3
<1>5. f \in [Nat -> A]
  <2> HIDE DEF some
  <2>1. QED
    BY <1>4
<1>6. f[0] = base
  <2> HIDE DEF some
  <2>1. f[0] = some[0][0]
    OBVIOUS
  <2>2. QED
    BY <1>3, <2>1
<1>7. ASSUME NEW n \in Nat
      PROVE  f[n + 1] = step[n][f[n]]
  <2> HIDE DEF some
  <2>1. f[n + 1] = some[n + 1][n + 1] /\ f[n] = some[n][n]
    OBVIOUS
  <2>2. some[n + 1][n + 1] = step[n][some[n + 1][n]]
    <3>1. n \in 0 .. (n + 1) - 1 /\ some[n + 1] \in Part(n + 1)
      BY <1>3
    <3>2. QED
      BY <3>1
  <2>3. some[n][n] = some[n + 1][n]
    <3> HIDE DEF Part
    <3>1. n <= n + 1 /\ n + 1 \in Nat
      OBVIOUS
    <3>2. QED
      BY <1>2, <1>3, <3>1
  <2>4. QED
    BY <2>1, <2>2, <2>3
<1>8. QED
  <2> HIDE DEF f
  <2>1. f \in Sequel(A, base, step)
    BY <1>5, <1>6, <1>7 DEF Sequel
  <2>2. QED
    BY <2>1

(* A function whose value at d is given by Phi from its values where the   *)
(* measure is smaller.                                                     *)
Shrinks(D, A, measure, Phi) ==
  \A g, h \in [D -> A] : \A d \in D :
    (\A e \in D : measure[e] < measure[d] => g[e] = h[e]) => Phi[g][d] = Phi[h][d]

Fixpoints(D, A, Phi) == {f \in [D -> A] : Phi[f] = f}

LEMMA MeasuredRecursion ==
  ASSUME NEW D, NEW A, NEW start \in [D -> A], NEW measure \in [D -> Nat],
         NEW Phi \in [[D -> A] -> [D -> A]], Shrinks(D, A, measure, Phi)
  PROVE  Fixpoints(D, A, Phi) # {}
<1> DEFINE F == [D -> A]
<1>1. PICK it \in [Nat -> F] : it[0] = start /\ \A n \in Nat : it[n + 1] = Phi[it[n]]
  <2> DEFINE step == [n \in Nat |-> Phi]
  <2>1. step \in [Nat -> [F -> F]] /\ start \in F
    OBVIOUS
  <2>2. \A n \in Nat : step[n] = Phi
    OBVIOUS
  <2> HIDE DEF step, F
  <2>3. PICK it \in Sequel(F, start, step) : TRUE
    BY <2>1, PrimitiveRecursion
  <2>4. it \in [Nat -> F] /\ it[0] = start
    BY DEF Sequel
  <2>5. ASSUME NEW n \in Nat
        PROVE  it[n + 1] = Phi[it[n]]
    <3>1. it[n + 1] = step[n][it[n]]
      BY DEF Sequel
    <3>2. QED
      BY <2>2, <3>1
  <2>6. QED
    BY <2>4, <2>5
<1>2. \A n \in Nat : it[n] \in F /\ it[n + 1] = Phi[it[n]]
  BY <1>1
(* After n turns, the values where the measure is below n are settled.     *)
<1> DEFINE S == {n \in Nat : \A d \in D : measure[d] < n => it[n + 1][d] = it[n][d]}
<1>3. Nat \subseteq S
  <2>1. 0 \in S
    OBVIOUS
  <2>2. ASSUME NEW n \in Nat, n \in S
        PROVE  n + 1 \in S
    <3>1. SUFFICES ASSUME NEW d \in D, measure[d] < n + 1
                   PROVE  it[(n + 1) + 1][d] = it[n + 1][d]
      OBVIOUS
    <3>2. \A e \in D : measure[e] < measure[d] => it[n + 1][e] = it[n][e]
      BY <2>2, <3>1
    <3>3. it[n + 1] \in F /\ it[n] \in F /\ it[n + 1] = Phi[it[n]] /\ it[(n + 1) + 1] = Phi[it[n + 1]]
      BY <1>2
    <3>4. Phi[it[n + 1]][d] = Phi[it[n]][d]
      BY <3>2, <3>3 DEF Shrinks
    <3>5. QED
      BY <3>3, <3>4
  <2> HIDE DEF S
  <2>3. QED
    BY <2>1, <2>2, SetInduction
<1>4. ASSUME NEW d \in D, NEW n \in Nat, measure[d] < n
      PROVE  it[n][d] = it[measure[d] + 1][d]
  <2> DEFINE R == {k \in Nat : measure[d] < k => it[k][d] = it[measure[d] + 1][d]}
  <2>1. 0 \in R
    OBVIOUS
  <2>2. ASSUME NEW k \in Nat, k \in R
        PROVE  k + 1 \in R
    <3>1. CASE measure[d] < k
      <4>1. it[k + 1][d] = it[k][d]
        BY <1>3, <3>1
      <4>2. QED
        BY <2>2, <3>1, <4>1
    <3>2. CASE ~(measure[d] < k)
      <4>1. measure[d] \in Nat
        OBVIOUS
      <4>2. measure[d] < k + 1 => k + 1 = measure[d] + 1
        BY <3>2, <4>1
      <4>3. QED
        BY <4>2
    <3>3. QED
      BY <3>1, <3>2
  <2> HIDE DEF R
  <2>3. Nat \subseteq R
    BY <2>1, <2>2, SetInduction
  <2>4. QED
    BY <1>4, <2>3 DEF R
<1> DEFINE f == [d \in D |-> it[measure[d] + 1][d]]
<1>5. f \in F
  BY <1>2
<1>6. ASSUME NEW d \in D
      PROVE  Phi[f][d] = f[d]
  <2> DEFINE n == measure[d]
  <2>1. n \in Nat /\ it[n] \in F /\ it[n + 1] = Phi[it[n]]
    BY <1>2
  <2>2. \A e \in D : measure[e] < n => f[e] = it[n][e]
    BY <1>4, <2>1
  <2>3. f[d] = Phi[it[n]][d]
    BY <2>1
  <2> HIDE DEF n, f
  <2>4. \A e \in D : measure[e] < measure[d] => f[e] = it[n][e]
    BY <2>2 DEF n
  <2>5. QED
    BY <1>5, <2>1, <2>3, <2>4 DEF Shrinks
<1>7. Phi[f] = f
  <2> HIDE DEF f
  <2>1. Phi[f] \in F
    BY <1>5
  <2>2. QED
    BY <1>5, <1>6, <2>1
<1>8. QED
  BY <1>5, <1>7 DEF Fixpoints

-----------------------------------------------------------------------------
(* Powers of two                                                           *)

LEMMA Pow2Def == Pow2[0] = 1 /\ \A n \in Nat : Pow2[n + 1] = 2 * Pow2[n]
<1> DEFINE step == [n \in Nat |-> [x \in Nat |-> 2 * x]]
           Body(g) == [n \in Nat |-> IF n = 0 THEN 1 ELSE 2 * g[n - 1]]
<1>1. PICK f \in Sequel(Nat, 1, step) : TRUE
  <2>1. step \in [Nat -> [Nat -> Nat]] /\ 1 \in Nat
    OBVIOUS
  <2> HIDE DEF step
  <2>2. QED
    BY <2>1, PrimitiveRecursion
<1>2. f \in [Nat -> Nat] /\ f[0] = 1 /\ \A n \in Nat : f[n + 1] = step[n][f[n]]
  <2> HIDE DEF step
  <2>1. QED
    BY DEF Sequel
<1>3. \A n \in Nat : f[n + 1] = 2 * f[n]
  BY <1>2
<1>4. f = Body(f)
  <2>1. \A n \in Nat : f[n] = Body(f)[n]
    <3> TAKE n \in Nat
    <3>1. CASE n = 0
      BY <1>2, <3>1
    <3>2. CASE n # 0
      <4>1. n - 1 \in Nat /\ n = (n - 1) + 1
        BY <3>2
      <4>2. f[n] = 2 * f[n - 1]
        BY <1>3, <4>1
      <4>3. QED
        BY <3>2, <4>2
    <3>3. QED
      BY <3>1, <3>2
  <2>2. QED
    BY <1>2, <2>1
<1>5. Pow2 = CHOOSE g : g = Body(g)
  BY Zenon DEF Pow2
<1>6. Pow2 = Body(Pow2)
  <2> HIDE DEF Body
  <2>1. QED
    BY <1>4, <1>5, Zenon
<1>7. Body(Pow2)[0] = 1 /\ \A n \in Nat : Body(Pow2)[n + 1] = 2 * Pow2[n]
  OBVIOUS
<1>8. QED
  <2> HIDE DEF Body
  <2>1. QED
    BY <1>6, <1>7, Zenon

LEMMA Pow2Type == \A n \in Nat : Pow2[n] \in Nat \ {0}
<1> DEFINE S == {n \in Nat : Pow2[n] \in Nat \ {0}}
<1>1. 0 \in S
  BY Pow2Def
<1>2. ASSUME NEW n \in Nat, n \in S
      PROVE  n + 1 \in S
  <2>1. Pow2[n] \in Nat \ {0} /\ Pow2[n + 1] = 2 * Pow2[n]
    BY <1>2, Pow2Def
  <2>2. QED
    BY <2>1
<1> HIDE DEF S
<1>3. Nat \subseteq S
  BY <1>1, <1>2, SetInduction
<1>4. QED
  BY <1>3 DEF S

LEMMA Pow2Add == \A a, b \in Nat : Pow2[a + b] = Pow2[a] * Pow2[b]
<1> SUFFICES ASSUME NEW a \in Nat
             PROVE  \A b \in Nat : Pow2[a + b] = Pow2[a] * Pow2[b]
  OBVIOUS
<1> DEFINE S == {b \in Nat : Pow2[a + b] = Pow2[a] * Pow2[b]}
<1>1. 0 \in S
  BY Pow2Def, Pow2Type
<1>2. ASSUME NEW b \in Nat, b \in S
      PROVE  b + 1 \in S
  <2> DEFINE x == Pow2[a]
             y == Pow2[b]
  <2>1. /\ Pow2[a + b] = x * y /\ Pow2[b + 1] = 2 * y
        /\ Pow2[a + (b + 1)] = 2 * Pow2[a + b]
        /\ x \in Nat /\ y \in Nat
    <3>1. a + b \in Nat /\ (a + b) + 1 = a + (b + 1)
      OBVIOUS
    <3>2. QED
      BY <1>2, <3>1, Pow2Def, Pow2Type
  <2> HIDE DEF x, y
  <2>2. x * (2 * y) = 2 * (x * y)
    BY <2>1
  <2>3. QED
    BY <2>1, <2>2 DEF x
<1> HIDE DEF S
<1>3. Nat \subseteq S
  BY <1>1, <1>2, SetInduction
<1>4. QED
  BY <1>3 DEF S

LEMMA Pow2Monotone == \A a, b \in Nat : a <= b => Pow2[a] <= Pow2[b]
<1> SUFFICES ASSUME NEW a \in Nat, NEW b \in Nat, a <= b
             PROVE  Pow2[a] <= Pow2[b]
  OBVIOUS
<1>1. b - a \in Nat /\ b = a + (b - a)
  OBVIOUS
<1> DEFINE x == Pow2[a]
           y == Pow2[b - a]
<1>2. Pow2[b] = x * y
  BY <1>1, Pow2Add
<1>3. x \in Nat \ {0} /\ y \in Nat \ {0}
  BY <1>1, Pow2Type
<1>4. x <= x * y
  <2> HIDE DEF x, y
  <2>1. QED
    BY <1>3
<1>5. QED
  BY <1>2, <1>4

-----------------------------------------------------------------------------
(* Division                                                                *)

LEMMA Quotient ==
  ASSUME NEW n \in Nat, NEW d \in Nat \ {0}
  PROVE  /\ n \div d \in Nat /\ n % d \in Nat /\ n % d < d
         /\ n = d * (n \div d) + (n % d)
OBVIOUS

(* Quotient and remainder are the only such numbers.                       *)
LEMMA QuotientUnique ==
  ASSUME NEW d \in Nat \ {0}, NEW q \in Nat, NEW r \in Nat, r < d
  PROVE  (d * q + r) % d = r /\ (d * q + r) \div d = q
<1> DEFINE n == d * q + r
           p == n \div d
           s == n % d
<1>1. n \in Nat
  OBVIOUS
<1>2. p \in Nat /\ s \in Nat /\ s < d /\ d * q + r = d * p + s
  <2> HIDE DEF n
  <2>1. p \in Nat /\ s \in Nat /\ s < d /\ n = d * p + s
    BY <1>1, Quotient
  <2>2. QED
    BY <2>1 DEF n
<1> HIDE DEF n, p, s
<1>3. q = p
  <2>1. CASE q < p
    <3>1. PICK x \in Nat : p = q + 1 + x
      <4>1. p - q - 1 \in Nat /\ p = q + 1 + (p - q - 1)
        BY <1>2, <2>1
      <4>2. QED
        BY <4>1
    <3>2. d * p = d * q + d + d * x /\ d * x \in Nat /\ d * q \in Nat
      BY <3>1
    <3>3. QED
      BY <1>2, <3>2
  <2>2. CASE p < q
    <3>1. PICK x \in Nat : q = p + 1 + x
      <4>1. q - p - 1 \in Nat /\ q = p + 1 + (q - p - 1)
        BY <1>2, <2>2
      <4>2. QED
        BY <4>1
    <3>2. d * q = d * p + d + d * x /\ d * x \in Nat /\ d * p \in Nat
      BY <1>2, <3>1
    <3>3. QED
      BY <1>2, <3>2
  <2>3. QED
    BY <1>2, <2>1, <2>2
<1>4. s = r
  BY <1>2, <1>3
<1>5. QED
  BY <1>3, <1>4 DEF n, p, s

(* Cutting a number to the width P * Q leaves its part below P alone.      *)
LEMMA CutAbove ==
  ASSUME NEW P \in Nat \ {0}, NEW Q \in Nat \ {0}, NEW y \in Nat, NEW z \in Nat, z < P
  PROVE  (z + P * y) % (P * Q) = z + ((P * y) % (P * Q))
<1> DEFINE q == y \div Q
           r == y % Q
<1>1. q \in Nat /\ r \in Nat /\ r < Q /\ y = Q * q + r
  BY Quotient
<1> HIDE DEF q, r
<1>2. P * Q \in Nat \ {0} /\ P * r \in Nat /\ P * y = (P * Q) * q + P * r
  BY <1>1
<1>3. P * r + P <= P * Q
  <2>1. Q - r - 1 \in Nat /\ Q = r + 1 + (Q - r - 1)
    BY <1>1
  <2>2. P * Q = P * r + P + P * (Q - r - 1) /\ P * (Q - r - 1) \in Nat
    BY <1>1, <2>1
  <2>3. QED
    BY <1>2, <2>2
<1>4. (P * y) % (P * Q) = P * r
  <2>1. P * r < P * Q
    BY <1>2, <1>3
  <2>2. ((P * Q) * q + P * r) % (P * Q) = P * r
    BY ONLY <1>1, <1>2, <2>1, QuotientUnique
  <2>3. QED
    BY <1>2, <2>2
<1>5. (z + P * y) % (P * Q) = z + P * r
  <2>1. z + P * r \in Nat /\ z + P * r < P * Q /\ z + P * y = (P * Q) * q + (z + P * r)
    BY <1>1, <1>2, <1>3
  <2>2. ((P * Q) * q + (z + P * r)) % (P * Q) = z + P * r
    BY ONLY <1>1, <1>2, <2>1, QuotientUnique
  <2>3. QED
    BY <2>1, <2>2
<1>6. QED
  BY <1>4, <1>5

-----------------------------------------------------------------------------
(* The recursive functions of Leb.tla are what their definitions say.      *)

LEMMA ByteFacts ==
  ASSUME NEW buf \in Seq(Byte), NEW p \in Nat, p < Len(buf)
  PROVE  /\ buf[p + 1] \in Byte /\ buf[p + 1] \in Nat
         /\ Group(buf[p + 1]) \in Nat /\ Group(buf[p + 1]) < Pow2[GroupBits]
<1>1. p + 1 \in 1 .. Len(buf)
  OBVIOUS
<1>2. buf[p + 1] \in Byte
  BY <1>1
<1>3. Pow2[GroupBits] \in Nat \ {0} /\ Pow2[GroupBits + 1] \in Nat
  BY LebAssumption, Pow2Type
<1>4. buf[p + 1] \in Nat
  BY <1>2, <1>3 DEF Byte
<1>5. QED
  BY <1>2, <1>3, <1>4, Quotient DEF Group

LoopStep(buf, g, t) ==
  IF t.pos >= Len(buf) THEN None
  ELSE LET byte == buf[t.pos + 1]
           sum  == t.result + ((Group(byte) * Pow2[t.shift]) % Pow2[Width])
       IN  IF ~Continues(byte) THEN Some([value |-> sum, pos |-> t.pos + 1])
           ELSE IF t.shift + GroupBits >= Width THEN None
           ELSE g[[pos |-> t.pos + 1, result |-> sum, shift |-> t.shift + GroupBits]]

LEMMA LebLoopDef ==
  ASSUME NEW buf \in Seq(Byte), NEW t \in Turn
  PROVE  LebLoop(buf)[t] = LoopStep(buf, LebLoop(buf), t)
<1> DEFINE A == SUBSET [value : Nat, pos : Nat]
           left == [u \in Turn |-> IF u.pos < Len(buf) THEN Len(buf) - u.pos ELSE 0]
           start == [u \in Turn |-> None]
           Body(g) == [u \in Turn |-> LoopStep(buf, g, u)]
           Phi == [g \in [Turn -> A] |-> Body(g)]
           Sum(u) == u.result + ((Group(buf[u.pos + 1]) * Pow2[u.shift]) % Pow2[Width])
           Following(u) ==
             [pos |-> u.pos + 1, result |-> Sum(u), shift |-> u.shift + GroupBits]
<1>1. ASSUME NEW u \in Turn, u.pos < Len(buf)
      PROVE  Sum(u) \in Nat /\ Following(u) \in Turn /\ left[Following(u)] < left[u]
  <2>1. u.pos \in Nat /\ u.result \in Nat /\ u.shift \in Nat
    BY DEF Turn
  <2>2. Group(buf[u.pos + 1]) \in Nat /\ Pow2[u.shift] \in Nat /\ Pow2[Width] \in Nat \ {0}
    BY <1>1, <2>1, ByteFacts, Pow2Type, LebAssumption
  <2>3. Group(buf[u.pos + 1]) * Pow2[u.shift] \in Nat
    BY <2>2
  <2>4. Sum(u) \in Nat
    BY <2>1, <2>2, <2>3, Quotient
  <2> HIDE DEF Sum
  <2>5. Following(u) \in Turn /\ Following(u).pos = u.pos + 1
    BY <2>1, <2>4, LebAssumption DEF Turn
  <2> HIDE DEF Following
  <2>6. QED
    BY <1>1, <2>1, <2>4, <2>5
<1>2. ASSUME NEW u \in Turn, NEW g
      PROVE  LoopStep(buf, g, u) =
               IF u.pos >= Len(buf) THEN None
               ELSE IF ~Continues(buf[u.pos + 1])
               THEN Some([value |-> Sum(u), pos |-> u.pos + 1])
               ELSE IF u.shift + GroupBits >= Width THEN None
               ELSE g[Following(u)]
  BY DEF LoopStep
<1>3. ASSUME NEW g \in [Turn -> A], NEW u \in Turn
      PROVE  LoopStep(buf, g, u) \in A
  <2> HIDE DEF Sum, Following, left
  <2>1. u.pos \in Nat
    BY DEF Turn
  <2>2. CASE u.pos >= Len(buf)
    BY <1>2, <2>2 DEF None
  <2>3. CASE u.pos < Len(buf)
    <3>1. Sum(u) \in Nat /\ Following(u) \in Turn
      BY <1>1, <2>3
    <3>2. g[Following(u)] \in A
      BY <3>1
    <3>3. Some([value |-> Sum(u), pos |-> u.pos + 1]) \in A
      BY <2>1, <3>1 DEF Some
    <3>4. QED
      BY <1>2, <3>2, <3>3 DEF None
  <2>4. QED
    BY <2>1, <2>2, <2>3
<1>4. Phi \in [[Turn -> A] -> [Turn -> A]]
  <2> HIDE DEF A
  <2>1. QED
    BY <1>3
<1>5. Shrinks(Turn, A, left, Phi)
  <2>1. SUFFICES ASSUME NEW g \in [Turn -> A], NEW h \in [Turn -> A], NEW u \in Turn,
                        \A e \in Turn : left[e] < left[u] => g[e] = h[e]
                 PROVE  Phi[g][u] = Phi[h][u]
    <3> HIDE DEF Phi, left, A
    <3>1. QED
      BY DEF Shrinks
  <2>2. Phi[g][u] = LoopStep(buf, g, u) /\ Phi[h][u] = LoopStep(buf, h, u)
    <3> HIDE DEF A
    <3>1. QED
      OBVIOUS
  <2>3. u.pos \in Nat
    BY DEF Turn
  <2> HIDE DEF Sum, Following, left, Phi, A
  <2>4. u.pos < Len(buf) => g[Following(u)] = h[Following(u)]
    BY <1>1, <2>1
  <2>5. LoopStep(buf, g, u) = LoopStep(buf, h, u)
    <3>1. CASE u.pos >= Len(buf)
      BY <1>2, <3>1, Zenon
    <3>2. CASE ~(u.pos >= Len(buf))
      <4>1. g[Following(u)] = h[Following(u)]
        BY <2>3, <2>4, <3>2
      <4>2. QED
        BY <1>2, <4>1, Zenon
    <3>3. QED
      BY <3>1, <3>2
  <2>6. QED
    BY <2>2, <2>5
<1>6. left \in [Turn -> Nat] /\ start \in [Turn -> A]
  <2>1. \A u \in Turn : u.pos \in Nat
    BY DEF Turn
  <2>2. QED
    BY <2>1 DEF None
<1>7. PICK f \in Fixpoints(Turn, A, Phi) : TRUE
  <2> HIDE DEF A, left, start, Phi
  <2>1. Fixpoints(Turn, A, Phi) # {}
    BY <1>4, <1>5, <1>6, MeasuredRecursion, Zenon
  <2>2. QED
    BY <2>1
<1>8. f = Body(f)
  <2>1. f \in [Turn -> A] /\ Phi[f] = f
    <3> HIDE DEF A, Phi
    <3>1. QED
      BY DEF Fixpoints
  <2> HIDE DEF A, Body
  <2>2. QED
    BY <2>1
<1>9. LebLoop(buf) = CHOOSE g : g = Body(g)
  BY Zenon DEF LebLoop, LoopStep
<1>10. LebLoop(buf) = Body(LebLoop(buf))
  <2> HIDE DEF Body
  <2>1. QED
    BY <1>8, <1>9, Zenon
<1>11. Body(LebLoop(buf))[t] = LoopStep(buf, LebLoop(buf), t)
  OBVIOUS
<1>12. QED
  <2> HIDE DEF Body
  <2>1. QED
    BY <1>10, <1>11, Zenon

ValueStep(buf, g, p) ==
  IF p >= Len(buf) THEN 0
  ELSE IF ~Continues(buf[p + 1]) THEN Group(buf[p + 1])
  ELSE Group(buf[p + 1]) + Pow2[GroupBits] * g[p + 1]

LEMMA SumOfProduct == \A a, b, c \in Nat : a + b * c \in Nat
OBVIOUS

LEMMA LebValueDef ==
  ASSUME NEW buf \in Seq(Byte), NEW p \in Nat
  PROVE  LebValue(buf)[p] = ValueStep(buf, LebValue(buf), p)
<1> DEFINE left == [q \in Nat |-> IF q < Len(buf) THEN Len(buf) - q ELSE 0]
           start == [q \in Nat |-> 0]
           Body(g) == [q \in Nat |-> ValueStep(buf, g, q)]
           Phi == [g \in [Nat -> Nat] |-> Body(g)]
<1>1. ASSUME NEW g \in [Nat -> Nat], NEW q \in Nat
      PROVE  ValueStep(buf, g, q) \in Nat
  <2>1. CASE q >= Len(buf)
    BY <2>1 DEF ValueStep
  <2>2. CASE ~(q >= Len(buf))
    <3> DEFINE x == Group(buf[q + 1])
               y == g[q + 1]
               z == Pow2[GroupBits]
    <3>1. x \in Nat
      BY <2>2, ByteFacts
    <3>2. z \in Nat
      BY LebAssumption, Pow2Type
    <3>3. y \in Nat
      OBVIOUS
    <3>4. ValueStep(buf, g, q) = IF ~Continues(buf[q + 1]) THEN x ELSE x + z * y
      BY <2>2, Zenon DEF ValueStep
    <3> HIDE DEF x, y, z
    <3>5. x + z * y \in Nat
      BY <3>1, <3>2, <3>3, SumOfProduct, Zenon
    <3>6. QED
      BY <3>1, <3>4, <3>5
  <2>3. QED
    BY <2>1, <2>2
<1>2. Phi \in [[Nat -> Nat] -> [Nat -> Nat]]
  BY <1>1
<1>3. Shrinks(Nat, Nat, left, Phi)
  <2>1. SUFFICES ASSUME NEW g \in [Nat -> Nat], NEW h \in [Nat -> Nat], NEW q \in Nat,
                        \A e \in Nat : left[e] < left[q] => g[e] = h[e]
                 PROVE  Phi[g][q] = Phi[h][q]
    <3> HIDE DEF Phi, left
    <3>1. QED
      BY DEF Shrinks
  <2>2. Phi[g][q] = ValueStep(buf, g, q) /\ Phi[h][q] = ValueStep(buf, h, q)
    OBVIOUS
  <2> HIDE DEF Phi, start
  <2>3. ValueStep(buf, g, q) = ValueStep(buf, h, q)
    <3>1. CASE q >= Len(buf)
      BY <3>1 DEF ValueStep
    <3>2. CASE ~(q >= Len(buf))
      <4>1. left[q + 1] < left[q]
        <5>1. q < Len(buf) /\ Len(buf) \in Nat /\ q + 1 \in Nat
          <6> HIDE DEF left
          <6>1. Len(buf) \in Nat
            OBVIOUS
          <6>2. QED
            BY <3>2, <6>1
        <5>2. left[q] = Len(buf) - q
          BY <5>1
        <5>3. left[q + 1] = IF q + 1 < Len(buf) THEN Len(buf) - (q + 1) ELSE 0
          BY <5>1
        <5> HIDE DEF left
        <5>4. CASE q + 1 < Len(buf)
          BY <5>1, <5>2, <5>3, <5>4
        <5>5. CASE ~(q + 1 < Len(buf))
          BY <5>1, <5>2, <5>3, <5>5
        <5>6. QED
          BY <5>4, <5>5
      <4>2. g[q + 1] = h[q + 1]
        BY <2>1, <4>1
      <4>3. QED
        BY <4>2, Zenon DEF ValueStep
    <3>3. QED
      BY <3>1, <3>2
  <2>4. QED
    BY <2>2, <2>3
<1>4. left \in [Nat -> Nat] /\ start \in [Nat -> Nat]
  OBVIOUS
<1>5. PICK f \in Fixpoints(Nat, Nat, Phi) : TRUE
  <2> HIDE DEF left, start, Phi
  <2>1. Fixpoints(Nat, Nat, Phi) # {}
    BY <1>2, <1>3, <1>4, MeasuredRecursion, Zenon
  <2>2. QED
    BY <2>1
<1>6. f = Body(f)
  <2>1. f \in [Nat -> Nat] /\ Phi[f] = f
    <3> HIDE DEF Phi
    <3>1. QED
      BY DEF Fixpoints
  <2> HIDE DEF Body
  <2>2. QED
    BY <2>1
<1>7. LebValue(buf) = CHOOSE g : g = Body(g)
  BY Zenon DEF LebValue, ValueStep
<1>8. LebValue(buf) = Body(LebValue(buf))
  <2> HIDE DEF Body
  <2>1. QED
    BY <1>6, <1>7, Zenon
<1>9. Body(LebValue(buf))[p] = ValueStep(buf, LebValue(buf), p)
  OBVIOUS
<1>10. QED
  <2> HIDE DEF Body
  <2>1. QED
    BY <1>8, <1>9, Zenon

(* Induction from the end of a buffer to its start.                        *)
LEMMA BackwardInduction ==
  ASSUME NEW n \in Nat, NEW S,
         \A p \in Nat : (p < n => p + 1 \in S) => p \in S
  PROVE  Nat \subseteq S
<1> DEFINE R == {d \in Nat : \A p \in Nat : n <= p + d => p \in S}
<1>1. 0 \in R
  OBVIOUS
<1>2. ASSUME NEW d \in Nat, d \in R
      PROVE  d + 1 \in R
  <2>1. SUFFICES ASSUME NEW p \in Nat, n <= p + (d + 1)
                 PROVE  p \in S
    OBVIOUS
  <2>2. n <= (p + 1) + d /\ p + 1 \in Nat
    BY <2>1
  <2>3. p + 1 \in S
    BY <1>2, <2>2
  <2>4. QED
    BY <2>3
<1> HIDE DEF R
<1>3. n \in R
  BY <1>1, <1>2, SetInduction
<1>4. ASSUME NEW p \in Nat
      PROVE  p \in S
  BY <1>3 DEF R
<1>5. QED
  BY <1>4

LEMMA LebValueType ==
  ASSUME NEW buf \in Seq(Byte)
  PROVE  \A p \in Nat : LebValue(buf)[p] \in Nat
<1> DEFINE S == {p \in Nat : LebValue(buf)[p] \in Nat}
           V == LebValue(buf)
<1>1. ASSUME NEW p \in Nat, p < Len(buf) => p + 1 \in S
      PROVE  p \in S
  <2>1. V[p] = ValueStep(buf, V, p)
    BY LebValueDef
  <2>2. CASE p >= Len(buf)
    BY <2>1, <2>2 DEF ValueStep
  <2>3. CASE ~(p >= Len(buf))
    <3>1. Group(buf[p + 1]) \in Nat
      BY <2>3, ByteFacts
    <3>2. Pow2[GroupBits] \in Nat /\ V[p + 1] \in Nat
      BY <1>1, <2>3, LebAssumption, Pow2Type
    <3> HIDE DEF V
    <3>3. Group(buf[p + 1]) + Pow2[GroupBits] * V[p + 1] \in Nat
      BY <3>1, <3>2
    <3>4. V[p] \in Nat
      BY <2>1, <2>3, <3>1, <3>3 DEF ValueStep
    <3>5. QED
      BY <3>4 DEF V
  <2>4. QED
    BY <2>2, <2>3
<1> HIDE DEF S
<1>2. Nat \subseteq S
  <2>1. Len(buf) \in Nat
    OBVIOUS
  <2>2. QED
    BY <1>1, <2>1, BackwardInduction
<1>3. QED
  BY <1>2 DEF S

-----------------------------------------------------------------------------
(* The loop                                                                *)

At(p, r, s) == [pos |-> p, result |-> r, shift |-> s]

LEMMA CutType ==
  \A g, k \in Nat : (g * Pow2[k]) % Pow2[Width] \in Nat
<1> SUFFICES ASSUME NEW g \in Nat, NEW k \in Nat
             PROVE  (g * Pow2[k]) % Pow2[Width] \in Nat
  OBVIOUS
<1> DEFINE m == g * Pow2[k]
<1>1. m \in Nat /\ Pow2[Width] \in Nat \ {0}
  <2>1. Pow2[k] \in Nat
    BY Pow2Type
  <2>2. QED
    BY <2>1, Pow2Type, LebAssumption
<1> HIDE DEF m
<1>2. m % Pow2[Width] \in Nat
  BY <1>1, Quotient
<1>3. QED
  BY <1>2 DEF m

(* A number whose bytes all continue is not read.                          *)
LEMMA Unterminated ==
  ASSUME NEW buf \in Seq(Byte), NEW p \in Nat,
         \A q \in p .. Len(buf) - 1 : Continues(buf[q + 1])
  PROVE  \A r, s \in Nat : LebLoop(buf)[At(p, r, s)] = None
<1> DEFINE AllContinue(q) == \A x \in q .. Len(buf) - 1 : Continues(buf[x + 1])
           S == {q \in Nat : AllContinue(q) =>
                   \A r, s \in Nat : LebLoop(buf)[At(q, r, s)] = None}
<1>1. ASSUME NEW q \in Nat, q < Len(buf) => q + 1 \in S
      PROVE  q \in S
  <2>1. SUFFICES ASSUME AllContinue(q), NEW r \in Nat, NEW s \in Nat
                 PROVE  LebLoop(buf)[At(q, r, s)] = None
    OBVIOUS
  <2> DEFINE t == At(q, r, s)
             sum == r + ((Group(buf[q + 1]) * Pow2[s]) % Pow2[Width])
  <2>2. t \in Turn /\ t.pos = q /\ t.result = r /\ t.shift = s
    BY DEF At, Turn
  <2>3. LebLoop(buf)[t] = LoopStep(buf, LebLoop(buf), t)
    BY <2>2, LebLoopDef
  <2>4. CASE q >= Len(buf)
    BY <2>2, <2>3, <2>4 DEF LoopStep
  <2>5. CASE ~(q >= Len(buf))
    <3>1. Len(buf) \in Nat /\ q < Len(buf) /\ q \in q .. Len(buf) - 1
      BY <2>5
    <3>2. Continues(buf[q + 1]) /\ AllContinue(q + 1)
      BY <2>1, <3>1
    <3>3. sum \in Nat /\ s + GroupBits \in Nat
      <4>1. Group(buf[q + 1]) \in Nat
        BY <3>1, ByteFacts
      <4>2. (Group(buf[q + 1]) * Pow2[s]) % Pow2[Width] \in Nat
        BY <4>1, CutType
      <4>3. QED
        BY <4>2, LebAssumption
    <3>4. LebLoop(buf)[At(q + 1, sum, s + GroupBits)] = None
      <4> HIDE DEF sum, t
      <4>1. QED
        BY <1>1, <3>1, <3>2, <3>3
    <3>5. LoopStep(buf, LebLoop(buf), t) =
            IF s + GroupBits >= Width THEN None
            ELSE LebLoop(buf)[At(q + 1, sum, s + GroupBits)]
      <4> HIDE DEF t
      <4>1. QED
        BY <2>2, <2>5, <3>2, Zenon DEF LoopStep, At
    <3>6. QED
      BY <2>3, <3>4, <3>5
  <2>6. QED
    BY <2>4, <2>5
<1> HIDE DEF S
<1>2. Nat \subseteq S
  <2>1. Len(buf) \in Nat
    OBVIOUS
  <2>2. QED
    BY <1>1, <2>1, BackwardInduction
<1>3. QED
  BY <1>2 DEF S

(* A group g and the number v above it are added to the result in turn.    *)
LEMMA GroupStep ==
  ASSUME NEW s \in Nat, s + GroupBits < Width,
         NEW g \in Nat, g < Pow2[GroupBits], NEW v \in Nat
  PROVE  ((g + Pow2[GroupBits] * v) * Pow2[s]) % Pow2[Width] =
           ((g * Pow2[s]) % Pow2[Width]) + ((v * Pow2[s + GroupBits]) % Pow2[Width])
<1> DEFINE B == Pow2[GroupBits]
           S == Pow2[s]
           P == Pow2[s + GroupBits]
           Q == Pow2[Width - (s + GroupBits)]
           W == Pow2[Width]
           z == g * S
<1>1. GroupBits \in Nat /\ s + GroupBits \in Nat /\ Width - (s + GroupBits) \in Nat
      /\ (s + GroupBits) + (Width - (s + GroupBits)) = Width /\ Width \in Nat
  BY LebAssumption
<1>2. B \in Nat \ {0} /\ S \in Nat \ {0} /\ P \in Nat \ {0} /\ Q \in Nat \ {0}
  BY <1>1, Pow2Type
<1>3. P = S * B /\ W = P * Q
  <2> DEFINE rest == Width - (s + GroupBits)
  <2>1. P = S * B
    BY <1>1, Pow2Add, Zenon
  <2>2. rest \in Nat /\ (s + GroupBits) + rest = Width
    BY <1>1, Zenon
  <2> HIDE DEF rest
  <2>3. Pow2[(s + GroupBits) + rest] = P * Pow2[rest]
    BY <1>1, <2>2, Pow2Add, Zenon
  <2>4. W = P * Pow2[rest]
    BY <2>2, <2>3, Zenon
  <2>5. QED
    BY <2>1, <2>4, Zenon DEF rest
<1>4. g < B
  OBVIOUS
<1>5. ((g + B * v) * S) % W = ((g * S) % W) + ((v * P) % W)
  <2> HIDE DEF B, S, P, Q, W
  <2>1. z \in Nat /\ z < P
    <3>1. B - g - 1 \in Nat /\ B = g + 1 + (B - g - 1)
      BY <1>2, <1>4
    <3>2. S * B = g * S + S + S * (B - g - 1) /\ S * (B - g - 1) \in Nat
      BY <1>2, <3>1
    <3>3. g * S \in Nat
      BY <1>2
    <3>4. QED
      BY <1>2, <1>3, <3>2, <3>3
  <2> HIDE DEF z
  <2>2. (g + B * v) * S = z + P * v /\ v * P = P * v
    BY <1>2, <1>3 DEF z
  <2>3. (z + P * v) % W = z + ((P * v) % W)
    BY <1>2, <1>3, <2>1, CutAbove
  <2>4. z % W = z
    <3>1. z + P * 0 = z /\ P * 0 = 0 /\ W \in Nat \ {0}
      BY <1>2, <1>3, <2>1
    <3>2. 0 % W = 0
      BY <3>1
    <3>3. (z + P * 0) % (P * Q) = z + ((P * 0) % (P * Q))
      BY <1>2, <2>1, CutAbove
    <3>4. QED
      BY <1>3, <2>1, <3>1, <3>2, <3>3
  <2>5. QED
    BY <2>2, <2>3, <2>4 DEF z
<1>6. QED
  BY <1>5

(* A number that ends at e, d bytes after the loop is at it.               *)
ReadsTo(buf, e, d, r, s) ==
  IF d = 0 \/ s + d * GroupBits < Width
  THEN Some([value |-> r + ((LebValue(buf)[e - d] * Pow2[s]) % Pow2[Width]), pos |-> e + 1])
  ELSE None

LEMMA Terminated ==
  ASSUME NEW buf \in Seq(Byte), NEW e \in Nat, e < Len(buf), ~Continues(buf[e + 1]),
         NEW d \in 0 .. e, \A q \in e - d .. e - 1 : Continues(buf[q + 1]),
         NEW r \in Nat, NEW s \in Nat
  PROVE  LebLoop(buf)[At(e - d, r, s)] = ReadsTo(buf, e, d, r, s)
<1> DEFINE L == LebLoop(buf)
           V == LebValue(buf)
           Run(x) == \A q \in e - x .. e - 1 : Continues(buf[q + 1])
           S == {x \in Nat : x <= e /\ Run(x) =>
                   \A a, b \in Nat : L[At(e - x, a, b)] = ReadsTo(buf, e, x, a, b)}
<1>1. 0 \in S
  <2>1. SUFFICES ASSUME NEW a \in Nat, NEW b \in Nat
                 PROVE  L[At(e - 0, a, b)] = ReadsTo(buf, e, 0, a, b)
    OBVIOUS
  <2> DEFINE t == At(e, a, b)
  <2>2. t \in Turn /\ t.pos = e /\ t.result = a /\ t.shift = b
    BY DEF At, Turn
  <2>3. L[t] = LoopStep(buf, L, t) /\ V[e] = ValueStep(buf, V, e)
    BY <2>2, LebLoopDef, LebValueDef
  <2>4. ~(e >= Len(buf)) /\ e - 0 = e
    BY LenProperties
  <2> HIDE DEF L, V, t
  <2>5. V[e] = Group(buf[e + 1])
    BY <2>3, <2>4, Zenon DEF ValueStep
  <2>6. L[t] = Some([value |-> a + ((Group(buf[e + 1]) * Pow2[b]) % Pow2[Width]), pos |-> e + 1])
    BY <2>2, <2>3, <2>4, Zenon DEF LoopStep
  <2>7. ReadsTo(buf, e, 0, a, b) = Some([value |-> a + ((V[e] * Pow2[b]) % Pow2[Width]), pos |-> e + 1])
    BY <2>4, Zenon DEF ReadsTo, V
  <2>8. QED
    BY <2>4, <2>5, <2>6, <2>7, Zenon DEF t
<1>2. ASSUME NEW x \in Nat, x \in S
      PROVE  x + 1 \in S
  <2>1. SUFFICES ASSUME x + 1 <= e, Run(x + 1), NEW a \in Nat, NEW b \in Nat
                 PROVE  L[At(e - (x + 1), a, b)] = ReadsTo(buf, e, x + 1, a, b)
    OBVIOUS
  <2> DEFINE p == e - (x + 1)
             t == At(p, a, b)
             g == Group(buf[p + 1])
             sum == a + ((g * Pow2[b]) % Pow2[Width])
  <2>2. p \in Nat /\ p < Len(buf) /\ p + 1 = e - x /\ ~(p >= Len(buf)) /\ x <= e
    BY <2>1, LenProperties
  <2>3. Continues(buf[p + 1]) /\ Run(x)
    BY <2>1, <2>2
  <2>4. g \in Nat /\ g < Pow2[GroupBits]
    BY <2>2, ByteFacts
  <2> HIDE DEF g
  <2>5. sum \in Nat /\ b + GroupBits \in Nat
    <3>1. (g * Pow2[b]) % Pow2[Width] \in Nat
      BY <2>4, CutType
    <3>2. QED
      BY <3>1, LebAssumption
  <2>6. t \in Turn /\ t.pos = p /\ t.result = a /\ t.shift = b
    BY <2>2 DEF At, Turn
  <2>7. L[t] = LoopStep(buf, L, t) /\ V[p] = ValueStep(buf, V, p)
    BY <2>2, <2>6, LebLoopDef, LebValueDef
  <2>8. V[p + 1] \in Nat
    BY <2>2, LebValueType
  <2> HIDE DEF L, V, t, p, Run
  <2>9. V[p] = g + Pow2[GroupBits] * V[p + 1]
    BY <2>2, <2>3, <2>7, Zenon DEF ValueStep, g
  <2>10. L[t] = IF b + GroupBits >= Width THEN None ELSE L[At(p + 1, sum, b + GroupBits)]
    BY <2>2, <2>3, <2>6, <2>7, Zenon DEF LoopStep, At, g
  <2> HIDE DEF sum
  <2>11. L[At(p + 1, sum, b + GroupBits)] = ReadsTo(buf, e, x, sum, b + GroupBits)
    BY <1>2, <2>2, <2>3, <2>5
  <2>12. (x + 1) * GroupBits = x * GroupBits + GroupBits /\ x * GroupBits \in Nat
    BY LebAssumption
  <2>13. CASE b + GroupBits >= Width
    <3>1. ~(x + 1 = 0 \/ b + (x + 1) * GroupBits < Width)
      BY <2>12, <2>13, LebAssumption
    <3>2. ReadsTo(buf, e, x + 1, a, b) = None
      BY <3>1, Zenon DEF ReadsTo
    <3>3. QED
      BY <2>10, <2>13, <3>2 DEF t, p
  <2>14. CASE ~(b + GroupBits >= Width)
    <3>1. b + GroupBits < Width /\ x + 1 # 0
      BY <2>14, LebAssumption
    <3>2. (x = 0 \/ (b + GroupBits) + x * GroupBits < Width) <=>
          (x + 1 = 0 \/ b + (x + 1) * GroupBits < Width)
      BY <2>12, <3>1, LebAssumption
    <3> DEFINE y == (V[p] * Pow2[b]) % Pow2[Width]
               z == (V[p + 1] * Pow2[b + GroupBits]) % Pow2[Width]
    <3>3. y = ((g * Pow2[b]) % Pow2[Width]) + z
      BY <2>4, <2>8, <2>9, <3>1, GroupStep
    <3>4. y \in Nat /\ z \in Nat /\ (g * Pow2[b]) % Pow2[Width] \in Nat
      <4>1. V[p] \in Nat
        BY <2>2, LebValueType DEF V
      <4>2. QED
        BY <2>4, <2>5, <2>8, <4>1, CutType
    <3>5. a + y = sum + z
      <4> HIDE DEF y, z
      <4>1. QED
        BY <3>3, <3>4 DEF sum
    <3>6. ReadsTo(buf, e, x, sum, b + GroupBits) =
            IF x = 0 \/ (b + GroupBits) + x * GroupBits < Width
            THEN Some([value |-> sum + z, pos |-> e + 1]) ELSE None
      BY <2>2, Zenon DEF ReadsTo, V
    <3>7. ReadsTo(buf, e, x + 1, a, b) =
            IF x + 1 = 0 \/ b + (x + 1) * GroupBits < Width
            THEN Some([value |-> a + y, pos |-> e + 1]) ELSE None
      BY Zenon DEF ReadsTo, V, p
    <3> HIDE DEF y, z
    <3>8. ReadsTo(buf, e, x, sum, b + GroupBits) = ReadsTo(buf, e, x + 1, a, b)
      <4>1. CASE x = 0 \/ (b + GroupBits) + x * GroupBits < Width
        BY <3>2, <3>5, <3>6, <3>7, <4>1, Zenon
      <4>2. CASE ~(x = 0 \/ (b + GroupBits) + x * GroupBits < Width)
        BY <3>2, <3>6, <3>7, <4>2, Zenon
      <4>3. QED
        BY <4>1, <4>2
    <3>9. QED
      BY <2>10, <2>11, <2>14, <3>8 DEF t, p
  <2>15. QED
    BY <2>13, <2>14
<1> HIDE DEF S
<1>3. Nat \subseteq S
  BY <1>1, <1>2, SetInduction
<1>4. QED
  BY <1>3 DEF S

LEMMA Least ==
  ASSUME NEW T, T \subseteq Nat, T # {}
  PROVE  \E x \in T : \A y \in T : x <= y
<1>1. SUFFICES ASSUME \A x \in T : \E y \in T : ~(x <= y)
               PROVE  FALSE
  OBVIOUS
<1> DEFINE S == {n \in Nat : \A k \in 0 .. n : k \notin T}
<1>2. \A n \in Nat : (\A k \in 0 .. n - 1 : k \notin T) => n \notin T
  BY <1>1
<1>3. 0 \in S
  BY <1>2
<1>4. ASSUME NEW n \in Nat, n \in S
      PROVE  n + 1 \in S
  <2>1. \A k \in 0 .. (n + 1) - 1 : k \notin T
    BY <1>4
  <2>2. n + 1 \notin T
    BY <1>2, <2>1
  <2>3. QED
    BY <2>1, <2>2
<1> HIDE DEF S
<1>5. Nat \subseteq S
  BY <1>3, <1>4, SetInduction
<1>6. PICK x \in T : TRUE
  OBVIOUS
<1>7. x \in Nat /\ x \in S /\ x \in 0 .. x
  BY <1>5
<1>8. QED
  BY <1>6, <1>7 DEF S

(* The groups that fit are those that start below the Width.               *)
LEMMA GroupsThatFit == \A d \in Nat : d + 1 <= MaxGroups <=> d * GroupBits < Width
<1> SUFFICES ASSUME NEW d \in Nat
             PROVE  d + 1 <= MaxGroups <=> d * GroupBits < Width
  OBVIOUS
<1> DEFINE n == Width + GroupBits - 1
           m == n \div GroupBits
           r == n % GroupBits
<1>1. GroupBits \in Nat \ {0} /\ Width \in Nat \ {0} /\ n \in Nat
  BY LebAssumption
<1>2. m \in Nat /\ r \in Nat /\ r < GroupBits /\ n = GroupBits * m + r
  <2> HIDE DEF n
  <2>1. QED
    BY <1>1, Quotient
<1>3. MaxGroups = m
  BY DEF MaxGroups
<1> HIDE DEF m, r
<1>4. GroupBits * m + r = Width + GroupBits - 1
  BY <1>2
<1>5. CASE d + 1 <= m
  <2>1. m - d - 1 \in Nat /\ m = d + 1 + (m - d - 1)
    BY <1>2, <1>5
  <2>2. GroupBits * m = d * GroupBits + GroupBits + GroupBits * (m - d - 1)
        /\ GroupBits * (m - d - 1) \in Nat /\ d * GroupBits \in Nat
    BY <1>1, <1>2, <2>1
  <2> HIDE DEF n
  <2>3. d * GroupBits < Width
    BY <1>1, <1>2, <1>4, <2>2
  <2>4. QED
    BY <1>3, <1>5, <2>3
<1>6. CASE ~(d + 1 <= m)
  <2>1. d - m \in Nat /\ d = m + (d - m)
    BY <1>2, <1>6
  <2>2. d * GroupBits = GroupBits * m + GroupBits * (d - m)
        /\ GroupBits * (d - m) \in Nat /\ GroupBits * m \in Nat
    BY <1>1, <1>2, <2>1
  <2> HIDE DEF n
  <2>3. ~(d * GroupBits < Width)
    BY <1>1, <1>2, <1>4, <2>2
  <2>4. QED
    BY <1>3, <1>6, <2>3
<1>7. QED
  BY <1>5, <1>6

(* What the loop returns, in Width bits.                                   *)
Cut(buf) ==
  \A at \in 0 .. Len(buf) :
    LET span == LebSpan(buf, at)
        fits == span # {} /\ Cardinality(span) <= MaxGroups
    IN  read_leb_u32(buf, at) =
          IF fits THEN Some([value |-> LebValue(buf)[at] % Pow2[Width],
                             pos |-> at + Cardinality(span)])
                  ELSE None

LEMMA EveryBufferCut == \A buf \in Seq(Byte) : Cut(buf)
<1> SUFFICES ASSUME NEW buf \in Seq(Byte), NEW at \in 0 .. Len(buf)
             PROVE  LET span == LebSpan(buf, at)
                        fits == span # {} /\ Cardinality(span) <= MaxGroups
                    IN  read_leb_u32(buf, at) =
                          IF fits THEN Some([value |-> LebValue(buf)[at] % Pow2[Width],
                                             pos |-> at + Cardinality(span)])
                                  ELSE None
  BY DEF Cut
<1> DEFINE ends == {p \in at .. Len(buf) - 1 : ~Continues(buf[p + 1])}
           span == LebSpan(buf, at)
<1>1. Len(buf) \in Nat /\ at \in Nat
  OBVIOUS
<1>2. read_leb_u32(buf, at) = LebLoop(buf)[At(at, 0, 0)]
  BY DEF read_leb_u32, Start, At
<1>3. CASE ends = {}
  <2>1. span = {}
    BY <1>3 DEF LebSpan
  <2>2. \A q \in at .. Len(buf) - 1 : Continues(buf[q + 1])
    BY <1>3
  <2>3. LebLoop(buf)[At(at, 0, 0)] = None
    BY <1>1, <2>2, Unterminated
  <2>4. QED
    BY <1>2, <2>1, <2>3
<1>4. CASE ends # {}
  <2>1. ends \subseteq Nat
    BY <1>1
  <2> DEFINE e == Min(ends)
             d == e - at
  <2>2. e \in ends /\ \A y \in ends : e <= y
    <3> HIDE DEF ends
    <3>1. \E x \in ends : \A y \in ends : x <= y
      BY <1>4, <2>1, Least
    <3>2. QED
      BY <3>1 DEF Min
  <2>3. span = at .. e
    BY <1>4, Zenon DEF LebSpan
  <2> HIDE DEF e, span
  <2>4. /\ e \in Nat /\ at <= e /\ e < Len(buf) /\ ~Continues(buf[e + 1])
        /\ \A q \in at .. e - 1 : Continues(buf[q + 1])
    BY <1>1, <2>2
  <2>5. d \in 0 .. e /\ d \in Nat /\ e - d = at /\ at + (d + 1) = e + 1
    BY <1>1, <2>4
  <2>6. Cardinality(span) = d + 1 /\ span # {}
    <3>1. Cardinality(at .. e) = e - at + 1
      BY <1>1, <2>4, FS_Interval
    <3>2. at \in at .. e
      BY <1>1, <2>4
    <3>3. QED
      BY <1>1, <2>3, <2>4, <3>1, <3>2
  <2> HIDE DEF d, ends
  <2>7. LebLoop(buf)[At(e - d, 0, 0)] = ReadsTo(buf, e, d, 0, 0)
    <3>1. \A q \in e - d .. e - 1 : Continues(buf[q + 1])
      BY <2>4, <2>5
    <3>2. 0 \in Nat
      OBVIOUS
    <3>3. QED
      BY <2>4, <2>5, <3>1, <3>2, Terminated, Zenon
  <2>8. d + 1 <= MaxGroups <=> (d = 0 \/ 0 + d * GroupBits < Width)
    <3>1. d * GroupBits \in Nat /\ (d = 0 => d * GroupBits = 0) /\ 0 < Width
          /\ 0 + d * GroupBits = d * GroupBits
      BY <2>5, LebAssumption
    <3>2. d + 1 <= MaxGroups <=> d * GroupBits < Width
      BY <2>5, GroupsThatFit
    <3>3. (d = 0 \/ 0 + d * GroupBits < Width) <=> d * GroupBits < Width
      BY <3>1
    <3>4. QED
      BY <3>2, <3>3
  <2>9. 0 + ((LebValue(buf)[at] * Pow2[0]) % Pow2[Width]) = LebValue(buf)[at] % Pow2[Width]
    <3> DEFINE v == LebValue(buf)[at]
    <3>1. v \in Nat /\ Pow2[0] = 1 /\ Pow2[Width] \in Nat \ {0}
      BY <1>1, LebValueType, Pow2Def, Pow2Type, LebAssumption
    <3> HIDE DEF v
    <3>2. v * Pow2[0] = v /\ v % Pow2[Width] \in Nat
      BY <3>1, Quotient
    <3>3. QED
      BY <3>2 DEF v
  <2>10. ReadsTo(buf, e, d, 0, 0) =
           IF d + 1 <= MaxGroups
           THEN Some([value |-> LebValue(buf)[at] % Pow2[Width], pos |-> at + (d + 1)])
           ELSE None
    <3>1. ReadsTo(buf, e, d, 0, 0) =
            IF d = 0 \/ 0 + d * GroupBits < Width
            THEN Some([value |-> 0 + ((LebValue(buf)[at] * Pow2[0]) % Pow2[Width]), pos |-> e + 1])
            ELSE None
      BY <2>5, Zenon DEF ReadsTo
    <3>2. CASE d + 1 <= MaxGroups
      BY <2>5, <2>8, <2>9, <3>1, <3>2, Zenon
    <3>3. CASE ~(d + 1 <= MaxGroups)
      BY <2>8, <3>1, <3>3, Zenon
    <3>4. QED
      BY <3>2, <3>3
  <2>11. read_leb_u32(buf, at) = ReadsTo(buf, e, d, 0, 0)
    BY <1>2, <2>5, <2>7
  <2>12. QED
    BY <2>6, <2>10, <2>11, Zenon DEF span
<1>5. QED
  BY <1>3, <1>4

(* A number that fits in a u32 is read as the format says, whatever its    *)
(* length and wherever it is; one that does not end in the buffer, or not  *)
(* within the groups that a u32 may have, is None (module.rs:117-134).     *)
THEOREM EveryBufferDecodes == \A buf \in Seq(Byte) : Decodes(buf)
<1> SUFFICES ASSUME NEW buf \in Seq(Byte), NEW at \in 0 .. Len(buf)
             PROVE  /\ Ends(buf, at) /\ ~Overflows(buf, at) =>
                         read_leb_u32(buf, at) =
                           Some([value |-> LebValue(buf)[at],
                                 pos |-> at + Cardinality(LebSpan(buf, at))])
                    /\ ~Ends(buf, at) => read_leb_u32(buf, at) = None
  BY DEF Decodes
<1> DEFINE v == LebValue(buf)[at]
           W == Pow2[Width]
           end == at + Cardinality(LebSpan(buf, at))
<1>1. read_leb_u32(buf, at) =
        IF Ends(buf, at) THEN Some([value |-> v % W, pos |-> end]) ELSE None
  BY EveryBufferCut DEF Cut, Ends
<1>2. Overflows(buf, at) <=> v >= W
  BY DEF Overflows
<1>3. v \in Nat /\ W \in Nat \ {0}
  <2>1. at \in Nat
    OBVIOUS
  <2>2. QED
    BY <2>1, LebValueType, Pow2Type, LebAssumption
<1> HIDE DEF v, W, end
<1>4. ~(v >= W) => v % W = v
  BY <1>3, Quotient
<1>5. QED
  BY <1>1, <1>2, <1>4, Zenon DEF v, end

(* One that overflows is read as what fits of it (module.rs:125).          *)
THEOREM EveryOverflowIsCut == \A buf \in Seq(Byte) : OverflowsAreCut(buf)
BY EveryBufferCut DEF Cut, OverflowsAreCut, Ends

=============================================================================
