------------------------------ MODULE LoadedProofs ------------------------------
(***************************************************************************)
(* Proofs about MemoryType.tla and Loaded.tla, for every set of binaries,  *)
(* every width and every size of the groups: the scan finds what a binary  *)
(* declares, and what is then loaded is a module as Exports.tla has them.  *)
(***************************************************************************)
EXTENDS Loaded, LebProofs, ExportsProofs

-----------------------------------------------------------------------------
(* Sequences one after another                                             *)

FlattenStep(ss, g, i) == IF i = 1 THEN ss[i] ELSE g[i - 1] \o ss[i]

(* The function inside FlattenSeq.                                         *)
Flatten(ss) ==
  LET flatten[i \in 1 .. Len(ss)] == IF i = 1 THEN ss[i] ELSE flatten[i - 1] \o ss[i]
  IN  flatten

LEMMA FlattenDef ==
  ASSUME NEW S, NEW ss \in Seq(Seq(S))
  PROVE  /\ Len(ss) # 0 => FlattenSeq(ss) = Flatten(ss)[Len(ss)]
         /\ Len(ss) = 0 => FlattenSeq(ss) = ss
         /\ \A i \in 1 .. Len(ss) : Flatten(ss)[i] = FlattenStep(ss, Flatten(ss), i)
         /\ \A i \in 1 .. Len(ss) : Flatten(ss)[i] \in Seq(S)
<1> DEFINE D == 1 .. Len(ss)
           A == Seq(S)
           measure == [i \in D |-> i]
           start == [i \in D |-> <<>>]
           Body(g) == [i \in D |-> FlattenStep(ss, g, i)]
           Phi == [g \in [D -> A] |-> Body(g)]
<1>1. Len(ss) \in Nat /\ \A i \in D : ss[i] \in A
  OBVIOUS
<1>2. ASSUME NEW g \in [D -> A], NEW i \in D
      PROVE  FlattenStep(ss, g, i) \in A
  <2>1. CASE i = 1
    BY <1>1, <2>1 DEF FlattenStep
  <2>2. CASE i # 1
    <3>1. i - 1 \in D
      BY <1>1, <2>2
    <3>2. g[i - 1] \in Seq(S) /\ ss[i] \in Seq(S)
      BY <1>1, <3>1
    <3>3. g[i - 1] \o ss[i] \in Seq(S)
      BY <3>2, ConcatProperties
    <3>4. QED
      BY <2>2, <3>3 DEF FlattenStep
  <2>3. QED
    BY <2>1, <2>2
<1>3. Phi \in [[D -> A] -> [D -> A]]
  <2> HIDE DEF A, D
  <2>1. QED
    BY <1>2
<1>4. Shrinks(D, A, measure, Phi)
  <2>1. SUFFICES ASSUME NEW g \in [D -> A], NEW h \in [D -> A], NEW i \in D,
                        \A e \in D : measure[e] < measure[i] => g[e] = h[e]
                 PROVE  Phi[g][i] = Phi[h][i]
    <3> HIDE DEF Phi, measure, A, D
    <3>1. QED
      BY DEF Shrinks
  <2>2. Phi[g][i] = FlattenStep(ss, g, i) /\ Phi[h][i] = FlattenStep(ss, h, i)
    <3> HIDE DEF A, D
    <3>1. QED
      OBVIOUS
  <2> HIDE DEF Phi, A
  <2>3. FlattenStep(ss, g, i) = FlattenStep(ss, h, i)
    <3>1. CASE i = 1
      BY <3>1, Zenon DEF FlattenStep
    <3>2. CASE i # 1
      <4>1. i - 1 \in D /\ i - 1 < i
        BY <1>1, <3>2
      <4>2. g[i - 1] = h[i - 1]
        BY <2>1, <4>1
      <4>3. QED
        BY <3>2, <4>2, Zenon DEF FlattenStep
    <3>3. QED
      BY <3>1, <3>2
  <2>4. QED
    BY <2>2, <2>3
<1>5. measure \in [D -> Nat] /\ start \in [D -> A]
  BY <1>1
<1>6. PICK f \in Fixpoints(D, A, Phi) : TRUE
  <2> HIDE DEF D, A, measure, start, Phi
  <2>1. Fixpoints(D, A, Phi) # {}
    BY <1>3, <1>4, <1>5, MeasuredRecursion, Zenon
  <2>2. QED
    BY <2>1
<1>7. f = Body(f)
  <2>1. f \in [D -> A] /\ Phi[f] = f
    <3> HIDE DEF A, Phi, D
    <3>1. QED
      BY DEF Fixpoints
  <2> HIDE DEF A, Body, D
  <2>2. QED
    BY <2>1
<1>8. Flatten(ss) = CHOOSE g : g = Body(g)
  BY Zenon DEF Flatten, FlattenStep
<1>9. Flatten(ss) = Body(Flatten(ss))
  <2> HIDE DEF Body
  <2>1. QED
    BY <1>7, <1>8, Zenon
<1>10. \A i \in D : Body(Flatten(ss))[i] = FlattenStep(ss, Flatten(ss), i)
  OBVIOUS
<1>11. \A i \in D : Flatten(ss)[i] = FlattenStep(ss, Flatten(ss), i)
  <2> HIDE DEF Body
  <2>1. QED
    BY <1>9, <1>10, Zenon
<1>12. \A i \in D : Flatten(ss)[i] \in Seq(S)
  <2> DEFINE R == {n \in Nat : n + 1 \in D => Flatten(ss)[n + 1] \in Seq(S)}
  <2> HIDE DEF Body
  <2>1. 0 \in R
    <3>1. SUFFICES ASSUME 0 + 1 \in D
                   PROVE  Flatten(ss)[0 + 1] \in Seq(S)
      OBVIOUS
    <3>2. 1 \in D /\ 0 + 1 = 1
      BY <3>1
    <3>3. Flatten(ss)[1] = ss[1]
      BY <1>11, <3>2, Zenon DEF FlattenStep
    <3>4. QED
      BY <1>1, <3>2, <3>3
  <2>2. ASSUME NEW n \in Nat, n \in R
        PROVE  n + 1 \in R
    <3>1. SUFFICES ASSUME (n + 1) + 1 \in D
                   PROVE  Flatten(ss)[(n + 1) + 1] \in Seq(S)
      OBVIOUS
    <3>2. n + 1 \in D /\ (n + 1) + 1 # 1 /\ ((n + 1) + 1) - 1 = n + 1
      BY <1>1, <3>1
    <3>3. Flatten(ss)[(n + 1) + 1] = Flatten(ss)[n + 1] \o ss[(n + 1) + 1]
      BY <1>11, <3>1, <3>2 DEF FlattenStep
    <3>4. Flatten(ss)[n + 1] \in Seq(S) /\ ss[(n + 1) + 1] \in Seq(S)
      BY <1>1, <2>2, <3>1, <3>2
    <3>5. QED
      BY <3>3, <3>4, ConcatProperties
  <2> HIDE DEF R
  <2>3. Nat \subseteq R
    BY <2>1, <2>2, SetInduction
  <2>4. ASSUME NEW i \in D
        PROVE  Flatten(ss)[i] \in Seq(S)
    <3>1. i - 1 \in Nat /\ (i - 1) + 1 = i
      BY <1>1
    <3>2. QED
      BY <2>3, <3>1 DEF R
  <2>5. QED
    BY <2>4
<1>13. Len(ss) # 0 => FlattenSeq(ss) = Flatten(ss)[Len(ss)]
  BY Zenon DEF FlattenSeq, Flatten
<1>14. Len(ss) = 0 => FlattenSeq(ss) = ss
  BY Zenon DEF FlattenSeq
<1>15. QED
  BY <1>11, <1>12, <1>13, <1>14

(* What is flattened, one sequence at a time.                              *)
LEMMA FlattenPrefix ==
  ASSUME NEW S, NEW ss \in Seq(Seq(S))
  PROVE  /\ FlattenSeq(SubSeq(ss, 1, 0)) = <<>>
         /\ \A k \in 0 .. Len(ss) : FlattenSeq(SubSeq(ss, 1, k)) \in Seq(S)
         /\ \A k \in 1 .. Len(ss) :
              FlattenSeq(SubSeq(ss, 1, k)) = FlattenSeq(SubSeq(ss, 1, k - 1)) \o ss[k]
<1> DEFINE F == Flatten(ss)
           P(k) == SubSeq(ss, 1, k)
<1>1. ASSUME NEW k \in 0 .. Len(ss)
      PROVE  /\ P(k) \in Seq(Seq(S)) /\ Len(P(k)) = k
             /\ \A i \in 1 .. k : P(k)[i] = ss[i]
  BY SubSeqProperties
<1>2. FlattenSeq(P(0)) = <<>>
  <2>1. 0 \in 0 .. Len(ss)
    BY LenProperties
  <2>2. P(0) = <<>> /\ Len(P(0)) = 0
    BY <1>1, <2>1, EmptySeq
  <2> HIDE DEF P
  <2>3. QED
    BY <1>1, <2>1, <2>2, FlattenDef
<1>3. ASSUME NEW k \in 1 .. Len(ss)
      PROVE  FlattenSeq(P(k)) = F[k]
  <2> DEFINE G == Flatten(P(k))
             R == {n \in Nat : n + 1 <= k => G[n + 1] = F[n + 1]}
  <2>1. /\ k \in 0 .. Len(ss) /\ k \in Nat /\ k # 0 /\ k <= Len(ss) /\ Len(ss) \in Nat
        /\ 1 \in 1 .. k /\ 1 \in 1 .. Len(ss)
    BY LenProperties
  <2> HIDE DEF P
  <2>2. \A i \in 1 .. k : G[i] = FlattenStep(P(k), G, i)
    BY <1>1, <2>1, FlattenDef
  <2>3. \A i \in 1 .. Len(ss) : F[i] = FlattenStep(ss, F, i)
    BY FlattenDef
  <2> HIDE DEF F, G
  <2>4. 0 \in R
    <3>1. G[1] = P(k)[1] /\ F[1] = ss[1]
      BY <2>1, <2>2, <2>3, Zenon DEF FlattenStep
    <3>2. QED
      BY <1>1, <2>1, <3>1
  <2>5. ASSUME NEW n \in Nat, n \in R
        PROVE  n + 1 \in R
    <3>1. SUFFICES ASSUME (n + 1) + 1 <= k
                   PROVE  G[(n + 1) + 1] = F[(n + 1) + 1]
      OBVIOUS
    <3> DEFINE i == (n + 1) + 1
    <3>2. i \in 1 .. k /\ i \in 1 .. Len(ss) /\ i # 1 /\ i - 1 = n + 1 /\ n + 1 <= k
      BY <2>1, <3>1
    <3> HIDE DEF i
    <3>3. G[i] = G[i - 1] \o P(k)[i] /\ F[i] = F[i - 1] \o ss[i]
      BY <2>2, <2>3, <3>2, Zenon DEF FlattenStep
    <3>4. G[i - 1] = F[i - 1] /\ P(k)[i] = ss[i]
      BY <1>1, <2>1, <2>5, <3>2
    <3>5. G[i] = F[i]
      BY <3>3, <3>4
    <3>6. QED
      BY <3>5 DEF i
  <2> HIDE DEF R
  <2>6. Nat \subseteq R
    BY <2>4, <2>5, SetInduction
  <2>7. G[k] = F[k]
    <3>1. k - 1 \in Nat /\ (k - 1) + 1 = k
      BY <2>1
    <3>2. k - 1 \in R /\ (k - 1) + 1 <= k
      BY <2>1, <2>6, <3>1
    <3>3. G[(k - 1) + 1] = F[(k - 1) + 1]
      BY <3>2 DEF R
    <3>4. QED
      BY <3>1, <3>3
  <2>8. FlattenSeq(P(k)) = G[k]
    <3>1. P(k) \in Seq(Seq(S)) /\ Len(P(k)) = k
      BY <1>1, <2>1
    <3>2. QED
      BY <2>1, <3>1, FlattenDef DEF G
  <2>9. QED
    BY <2>7, <2>8
<1>4. ASSUME NEW k \in 1 .. Len(ss)
      PROVE  FlattenSeq(P(k)) = FlattenSeq(P(k - 1)) \o ss[k]
  <2>1. F[k] = FlattenStep(ss, F, k) /\ ss[k] \in Seq(S)
    BY FlattenDef
  <2> HIDE DEF F, P
  <2>2. CASE k = 1
    <3>1. F[k] = ss[k]
      BY <2>1, <2>2, Zenon DEF FlattenStep
    <3>2. FlattenSeq(P(k - 1)) = <<>>
      BY <1>2, <2>2
    <3>3. <<>> \o ss[k] = ss[k]
      BY <2>1, ConcatEmptySeq
    <3>4. QED
      BY <1>3, <3>1, <3>2, <3>3
  <2>3. CASE k # 1
    <3>1. k - 1 \in 1 .. Len(ss)
      BY <2>3, LenProperties
    <3>2. F[k] = F[k - 1] \o ss[k]
      BY <2>1, <2>3, Zenon DEF FlattenStep
    <3>3. FlattenSeq(P(k - 1)) = F[k - 1] /\ FlattenSeq(P(k)) = F[k]
      BY <1>3, <3>1
    <3>4. QED
      BY <3>2, <3>3
  <2>4. QED
    BY <2>2, <2>3
<1>5. ASSUME NEW k \in 0 .. Len(ss)
      PROVE  FlattenSeq(P(k)) \in Seq(S)
  <2>1. CASE k = 0
    <3>1. FlattenSeq(P(0)) \in Seq(S)
      <4> HIDE DEF P
      <4>1. <<>> \in Seq(S)
        OBVIOUS
      <4>2. QED
        BY <1>2, <4>1
    <3>2. QED
      BY <2>1, <3>1
  <2>2. CASE k # 0
    <3>1. k \in 1 .. Len(ss)
      BY <2>2
    <3>2. F[k] \in Seq(S)
      BY <3>1, FlattenDef
    <3> HIDE DEF F, P
    <3>3. QED
      BY <1>3, <3>1, <3>2
  <2>3. QED
    BY <2>1, <2>2
<1>6. QED
  BY <1>2, <1>4, <1>5

-----------------------------------------------------------------------------
(* The layout of a binary                                                  *)

LEMMA EncodeType ==
  ASSUME NEW n \in Nat, NEW len \in Nat
  PROVE  /\ Encode(n, len) \in Seq(Byte) /\ Len(Encode(n, len)) = len
         /\ \A k \in 1 .. len :
              /\ n \div Pow2[GroupBits * (k - 1)] \in Nat
              /\ Encode(n, len)[k] = Group(n \div Pow2[GroupBits * (k - 1)])
                                       + (IF k < len THEN Pow2[GroupBits] ELSE 0)
<1> DEFINE B == Pow2[GroupBits]
           m(k) == n \div Pow2[GroupBits * (k - 1)]
           byte(k) == Group(m(k)) + (IF k < len THEN B ELSE 0)
<1>1. B \in Nat \ {0} /\ Pow2[GroupBits + 1] = 2 * B
  BY Pow2Type, Pow2Def, LebAssumption
<1>2. ASSUME NEW k \in 1 .. len
      PROVE  m(k) \in Nat /\ byte(k) \in Byte
  <2> DEFINE e == GroupBits * (k - 1)
  <2>1. e \in Nat
    BY LebAssumption
  <2> HIDE DEF e
  <2>2. Pow2[e] \in Nat \ {0}
    BY <2>1, Pow2Type
  <2>3. m(k) \in Nat
    BY <2>2, Quotient DEF e
  <2> HIDE DEF m
  <2>4. Group(m(k)) \in Nat /\ Group(m(k)) < B
    BY <1>1, <2>3, Quotient DEF Group
  <2> HIDE DEF B
  <2>5. byte(k) \in 0 .. 2 * B - 1
    BY <1>1, <2>4
  <2>6. QED
    BY <1>1, <2>3, <2>5 DEF Byte
<1>3. Encode(n, len) = [k \in 1 .. len |-> byte(k)]
  BY DEF Encode
<1> HIDE DEF byte
<1>4. Encode(n, len) \in [1 .. len -> Byte]
  BY <1>2, <1>3
<1>5. Encode(n, len) \in Seq(Byte) /\ Len(Encode(n, len)) = len
  BY <1>4, FunctionIsSeq
<1>6. \A k \in 1 .. len : m(k) \in Nat /\ Encode(n, len)[k] = byte(k)
  BY <1>2, <1>3
<1>7. QED
  BY <1>5, <1>6 DEF byte

LEMMA SectionShape ==
  ASSUME NEW s \in WasmSection
  PROVE  /\ s.id \in Byte /\ s.payload \in Seq(Byte) /\ s.limits \in Seq(LimitsType)
         /\ Len(s.payload) \in Nat /\ s.sizeLen \in Lengths(Len(s.payload)) /\ s.sizeLen \in Nat
         /\ s.id = MemoryId => Len(s.limits) <= 1 /\ MemoryPayload(s.payload, s.limits)
BY DEF WasmSection

(* s is in buf after the first p bytes, as far as buf goes.                *)
Carries(buf, p, s) == \A i \in 1 .. Len(s) : p + i <= Len(buf) => buf[p + i] = s[i]

Joins(S, s, t) ==
  /\ s \o t \in Seq(S) /\ Len(s \o t) = Len(s) + Len(t)
  /\ \A i \in 1 .. Len(s) : (s \o t)[i] = s[i]
  /\ \A i \in 1 .. Len(t) : (s \o t)[Len(s) + i] = t[i]

LEMMA TwoParts ==
  ASSUME NEW S, NEW s \in Seq(S), NEW t \in Seq(S)
  PROVE  Joins(S, s, t)
<1>1. Len(s) \in Nat /\ Len(t) \in Nat
  OBVIOUS
<1>2. \A i \in 1 .. Len(s) : i \in 1 .. Len(s) + Len(t) /\ i <= Len(s)
  BY <1>1
<1>3. \A i \in 1 .. Len(t) : /\ Len(s) + i \in 1 .. Len(s) + Len(t)
                              /\ ~(Len(s) + i <= Len(s)) /\ (Len(s) + i) - Len(s) = i
  BY <1>1
<1>4. QED
  BY <1>2, <1>3, ConcatProperties DEF Joins

LEMMA CarriesParts ==
  ASSUME NEW S, NEW s \in Seq(S), NEW t \in Seq(S), NEW p \in Nat, NEW buf,
         Carries(buf, p, s \o t)
  PROVE  Carries(buf, p, s) /\ Carries(buf, p + Len(s), t)
<1> DEFINE u == s \o t
<1>1. /\ Len(u) = Len(s) + Len(t) /\ Len(s) \in Nat /\ Len(t) \in Nat
      /\ \A i \in 1 .. Len(s) : u[i] = s[i]
      /\ \A i \in 1 .. Len(t) : u[Len(s) + i] = t[i]
  BY TwoParts DEF Joins
<1>2. \A i \in 1 .. Len(u) : p + i <= Len(buf) => buf[p + i] = u[i]
  BY DEF Carries
<1> HIDE DEF u
<1>3. ASSUME NEW i \in 1 .. Len(s), p + i <= Len(buf)
      PROVE  buf[p + i] = s[i]
  <2>1. i \in 1 .. Len(u)
    BY <1>1
  <2>2. QED
    BY <1>1, <1>2, <1>3, <2>1
<1>4. ASSUME NEW i \in 1 .. Len(t), (p + Len(s)) + i <= Len(buf)
      PROVE  buf[(p + Len(s)) + i] = t[i]
  <2>1. Len(s) + i \in 1 .. Len(u) /\ (p + Len(s)) + i = p + (Len(s) + i)
    BY <1>1
  <2>2. QED
    BY <1>1, <1>2, <1>4, <2>1
<1>5. QED
  BY <1>3, <1>4 DEF Carries

(* A section is its id, its size and its payload.                          *)
LEMMA SectionType ==
  ASSUME NEW s \in WasmSection
  PROVE  /\ EncodeSection(s) \in Seq(Byte)
         /\ Len(EncodeSection(s)) = 1 + s.sizeLen + Len(s.payload)
<1> DEFINE number == Encode(Len(s.payload), s.sizeLen)
           payload == s.payload
           head == <<s.id>> \o number
<1>1. s.sizeLen \in Nat /\ payload \in Seq(Byte) /\ Len(payload) \in Nat
  BY SectionShape
<1>2. number \in Seq(Byte) /\ Len(number) = s.sizeLen
  BY <1>1, EncodeType
<1>3. <<s.id>> \in Seq(Byte) /\ Len(<<s.id>>) = 1
  BY SectionShape
<1>4. EncodeSection(s) = head \o payload
  BY DEF EncodeSection
<1> HIDE DEF number, payload
<1>5. head \in Seq(Byte) /\ Len(head) = 1 + s.sizeLen
  BY <1>2, <1>3, TwoParts DEF Joins
<1> HIDE DEF head
<1>6. head \o payload \in Seq(Byte) /\ Len(head \o payload) = 1 + s.sizeLen + Len(payload)
  <2>1. Joins(Byte, head, payload)
    BY <1>1, <1>5, TwoParts, Zenon
  <2>2. QED
    BY <1>1, <1>5, <2>1 DEF Joins
<1>7. QED
  BY <1>4, <1>6 DEF payload

LEMMA CarriesSection ==
  ASSUME NEW s \in WasmSection, NEW buf \in Seq(Byte), NEW p \in Nat,
         Carries(buf, p, EncodeSection(s))
  PROVE  /\ p < Len(buf) => buf[p + 1] = s.id
         /\ Carries(buf, p + 1, Encode(Len(s.payload), s.sizeLen))
         /\ Carries(buf, p + 1 + s.sizeLen, s.payload)
<1> DEFINE number == Encode(Len(s.payload), s.sizeLen)
           payload == s.payload
           head == <<s.id>> \o number
<1>1. s.sizeLen \in Nat /\ payload \in Seq(Byte) /\ Len(payload) \in Nat
  BY SectionShape
<1>2. number \in Seq(Byte) /\ Len(number) = s.sizeLen
  BY <1>1, EncodeType
<1>3. <<s.id>> \in Seq(Byte) /\ Len(<<s.id>>) = 1 /\ <<s.id>>[1] = s.id
  BY SectionShape
<1>4. EncodeSection(s) = head \o payload
  BY DEF EncodeSection
<1> HIDE DEF number, payload
<1>5. head \in Seq(Byte) /\ Len(head) = 1 + s.sizeLen
  BY <1>2, <1>3, TwoParts DEF Joins
<1>6. Carries(buf, p, head) /\ Carries(buf, p + Len(head), payload)
  <2> HIDE DEF head
  <2>1. Carries(buf, p, head \o payload)
    BY <1>4
  <2>2. QED
    BY <1>1, <1>5, <2>1, CarriesParts
<1>7. Carries(buf, p, <<s.id>>) /\ Carries(buf, p + Len(<<s.id>>), number)
  BY <1>2, <1>3, <1>6, CarriesParts
<1> HIDE DEF head
<1>8. p + Len(<<s.id>>) = p + 1 /\ p + Len(head) = p + 1 + s.sizeLen
  <2> DEFINE len == s.sizeLen
  <2>1. len \in Nat /\ Len(head) = 1 + len /\ Len(<<s.id>>) = 1
    BY <1>1, <1>3, <1>5
  <2> HIDE DEF len
  <2>2. p + Len(<<s.id>>) = p + 1 /\ p + Len(head) = p + 1 + len
    BY <2>1
  <2>3. QED
    BY <2>2 DEF len
<1>9. p < Len(buf) => buf[p + 1] = s.id
  <2>1. 1 \in 1 .. Len(<<s.id>>) /\ (p < Len(buf) => p + 1 <= Len(buf))
    BY <1>3, LenProperties
  <2>2. QED
    BY <1>3, <1>7, <2>1 DEF Carries
<1>10. QED
  BY <1>6, <1>7, <1>8, <1>9 DEF number, payload

LEMMA FileShape ==
  ASSUME NEW f \in Files
  PROVE  /\ f.magic \in BOOLEAN /\ f.sections \in Seq(WasmSection)
         /\ Len(f.sections) \in Nat /\ DOMAIN f.sections = 1 .. Len(f.sections)
         /\ \A k \in 1 .. Len(f.sections) : f.sections[k] \in WasmSection
         /\ f.cut \in 0 .. Len(EncodeAll(f.sections))
         /\ \A j, k \in 1 .. Len(f.sections) :
              f.sections[j].id = MemoryId /\ f.sections[k].id = MemoryId => j = k
BY FilesAssumption

(* Every sequence is in what is flattened, after those before it.          *)
LEMMA CarriesFlat ==
  ASSUME NEW S, NEW ss \in Seq(Seq(S)), NEW k \in 1 .. Len(ss)
  PROVE  Carries(FlattenSeq(SubSeq(ss, 1, Len(ss))), Len(FlattenSeq(SubSeq(ss, 1, k - 1))), ss[k])
<1> DEFINE P(j) == FlattenSeq(SubSeq(ss, 1, j))
           q == Len(P(k - 1))
           In(j) == Carries(P(j), q, ss[k]) /\ q + Len(ss[k]) <= Len(P(j))
           R == {m \in Nat : k + m <= Len(ss) => In(k + m)}
<1>1. \A j \in 0 .. Len(ss) : P(j) \in Seq(S) /\ Len(P(j)) \in Nat
  <2> TAKE j \in 0 .. Len(ss)
  <2>1. P(j) \in Seq(S)
    BY FlattenPrefix, Zenon
  <2>2. QED
    BY <2>1, LenProperties
<1>2. \A j \in 1 .. Len(ss) : P(j) = P(j - 1) \o ss[j] /\ ss[j] \in Seq(S)
  <2> TAKE j \in 1 .. Len(ss)
  <2>1. P(j) = P(j - 1) \o ss[j]
    BY FlattenPrefix, Zenon
  <2>2. ss[j] \in Seq(S)
    OBVIOUS
  <2>3. QED
    BY <2>1, <2>2
<1> HIDE DEF P
<1>3. \A j \in 1 .. Len(ss) : Joins(S, P(j - 1), ss[j])
  <2> TAKE j \in 1 .. Len(ss)
  <2>1. j - 1 \in 0 .. Len(ss)
    BY LenProperties
  <2>2. P(j - 1) \in Seq(S) /\ ss[j] \in Seq(S)
    BY <1>1, <1>2, <2>1
  <2>3. QED
    BY <2>2, TwoParts, Zenon
<1>4. /\ k \in Nat /\ Len(ss) \in Nat /\ k - 1 \in 0 .. Len(ss) /\ k + 0 = k
      /\ q \in Nat /\ Len(ss[k]) \in Nat
  BY <1>1, <1>2, LenProperties DEF q
<1> HIDE DEF q, In
<1>5. 0 \in R
  <2>1. /\ Len(P(k)) = q + Len(ss[k])
        /\ \A i \in 1 .. Len(ss[k]) : P(k)[q + i] = ss[k][i]
    BY <1>2, <1>3 DEF Joins, q
  <2>2. Carries(P(k), q, ss[k]) /\ q + Len(ss[k]) <= Len(P(k))
    BY <1>4, <2>1 DEF Carries
  <2>3. QED
    BY <1>4, <2>2 DEF In
<1>6. ASSUME NEW m \in Nat, m \in R
      PROVE  m + 1 \in R
  <2>1. SUFFICES ASSUME k + (m + 1) <= Len(ss)
                 PROVE  In(k + (m + 1))
    OBVIOUS
  <2> DEFINE j == k + (m + 1)
  <2>2. /\ j \in 1 .. Len(ss) /\ j - 1 = k + m /\ k + m <= Len(ss)
        /\ j - 1 \in 0 .. Len(ss)
    BY <1>4, <2>1
  <2> HIDE DEF j
  <2>3. Carries(P(j - 1), q, ss[k]) /\ q + Len(ss[k]) <= Len(P(j - 1))
    BY <1>6, <2>2 DEF In
  <2>4. /\ Len(P(j)) = Len(P(j - 1)) + Len(ss[j])
        /\ \A i \in 1 .. Len(P(j - 1)) : P(j)[i] = P(j - 1)[i]
        /\ Len(P(j - 1)) \in Nat /\ Len(ss[j]) \in Nat
    <3>1. Joins(S, P(j - 1), ss[j]) /\ P(j) = P(j - 1) \o ss[j]
      BY <1>2, <1>3, <2>2
    <3>2. Len(P(j - 1)) \in Nat /\ Len(ss[j]) \in Nat
      BY <1>1, <1>2, <2>2
    <3>3. QED
      BY <3>1, <3>2 DEF Joins
  <2>5. Carries(P(j), q, ss[k])
    <3> SUFFICES ASSUME NEW i \in 1 .. Len(ss[k])
                 PROVE  P(j)[q + i] = ss[k][i]
      BY DEF Carries
    <3>1. q + i \in 1 .. Len(P(j - 1)) /\ q + i <= Len(P(j - 1))
      BY <1>4, <2>3, <2>4
    <3>2. P(j - 1)[q + i] = ss[k][i]
      BY <2>3, <3>1 DEF Carries
    <3>3. QED
      BY <2>4, <3>1, <3>2
  <2>6. q + Len(ss[k]) <= Len(P(j))
    <3> DEFINE x == Len(P(j - 1))
               y == Len(ss[j])
               z == Len(P(j))
               w == Len(ss[k])
    <3>1. x \in Nat /\ y \in Nat /\ q \in Nat /\ w \in Nat /\ q + w <= x /\ z = x + y
      BY <1>4, <2>3, <2>4
    <3> HIDE DEF x, y, z, w
    <3>2. q + w <= z
      BY ONLY <3>1
    <3>3. QED
      BY <3>2 DEF z, w
  <2>7. QED
    BY <2>5, <2>6 DEF j, In
<1> HIDE DEF R
<1>7. Nat \subseteq R
  BY <1>5, <1>6, SetInduction
<1>8. Carries(P(Len(ss)), q, ss[k])
  <2>1. Len(ss) - k \in Nat /\ k + (Len(ss) - k) = Len(ss)
    BY <1>4
  <2>2. In(k + (Len(ss) - k))
    <3> DEFINE m == Len(ss) - k
    <3>1. m \in R /\ k + m <= Len(ss)
      BY <1>4, <1>7, <2>1
    <3> HIDE DEF m
    <3>2. In(k + m)
      BY <3>1 DEF R
    <3>3. QED
      BY <3>2 DEF m
  <2>3. QED
    BY <2>1, <2>2 DEF In
<1>9. QED
  BY <1>8 DEF P, q

(* The encoded sections, and the binary that the first k of them make.     *)
Encoded(f) == [k \in DOMAIN f.sections |-> EncodeSection(f.sections[k])]
Prefix(f, k) == EncodeAll(SubSeq(f.sections, 1, k))

LEMMA PrefixFlat ==
  ASSUME NEW f \in Files
  PROVE  /\ Encoded(f) \in Seq(Seq(Byte)) /\ Len(Encoded(f)) = Len(f.sections)
         /\ \A k \in 1 .. Len(f.sections) : Encoded(f)[k] = EncodeSection(f.sections[k])
         /\ \A k \in 0 .. Len(f.sections) : Prefix(f, k) = FlattenSeq(SubSeq(Encoded(f), 1, k))
         /\ Prefix(f, Len(f.sections)) = EncodeAll(f.sections)
<1> DEFINE sections == f.sections
           n == Len(sections)
           ss == Encoded(f)
<1>1. /\ sections \in Seq(WasmSection) /\ n \in Nat /\ DOMAIN sections = 1 .. n
      /\ \A k \in 1 .. n : sections[k] \in WasmSection
  BY FileShape
<1>2. ss = [k \in 1 .. n |-> EncodeSection(sections[k])]
  BY <1>1 DEF Encoded
<1>3. \A k \in 1 .. n : EncodeSection(sections[k]) \in Seq(Byte)
  BY <1>1, SectionType
<1> HIDE DEF sections, n, ss
<1>4. ss \in [1 .. n -> Seq(Byte)] /\ \A k \in 1 .. n : ss[k] = EncodeSection(sections[k])
  BY <1>2, <1>3
<1>5. ss \in Seq(Seq(Byte)) /\ Len(ss) = n
  BY <1>1, <1>4, FunctionIsSeq
<1>6. ASSUME NEW k \in 0 .. n
      PROVE  EncodeAll(SubSeq(sections, 1, k)) = FlattenSeq(SubSeq(ss, 1, k))
  <2> DEFINE front == SubSeq(sections, 1, k)
             encoded == [j \in DOMAIN front |-> EncodeSection(front[j])]
  <2>1. /\ DOMAIN front = 1 .. k /\ \A j \in 1 .. k : front[j] = sections[j]
    BY <1>1, SubSeqProperties DEF n
  <2>2. /\ SubSeq(ss, 1, k) \in Seq(Seq(Byte)) /\ Len(SubSeq(ss, 1, k)) = k
        /\ \A j \in 1 .. k : SubSeq(ss, 1, k)[j] = ss[j]
    BY <1>1, <1>5, SubSeqProperties
  <2>3. \A j \in 1 .. k : j \in 1 .. n
    BY <1>1
  <2> HIDE DEF front
  <2>4. encoded = [j \in 1 .. k |-> ss[j]]
    BY <1>4, <2>1, <2>3
  <2>5. encoded = SubSeq(ss, 1, k)
    BY <2>2, <2>4
  <2> HIDE DEF encoded
  <2>6. EncodeAll(front) = FlattenSeq(encoded)
    BY DEF EncodeAll, encoded
  <2>7. QED
    BY <2>5, <2>6 DEF front
<1>7. SubSeq(sections, 1, n) = sections
  BY <1>1, SubSeqFull DEF n
<1>8. QED
  BY <1>4, <1>5, <1>6, <1>7 DEF sections, n, ss, Prefix

(* Where the sections of a binary are, and what a binary that is cut holds *)
(* of them.                                                                *)
LEMMA Layout ==
  ASSUME NEW f \in Files
  PROVE  /\ EndOf(f, 0) = 0 /\ EndOf(f, Len(f.sections)) = Len(EncodeAll(f.sections))
         /\ \A k \in 0 .. Len(f.sections) : EndOf(f, k) \in Nat
         /\ \A k \in 1 .. Len(f.sections) :
              EndOf(f, k) = EndOf(f, k - 1) + Len(EncodeSection(f.sections[k]))
         /\ Bytes(f) \in Seq(Byte) /\ Len(Bytes(f)) = f.cut /\ f.cut \in Nat
         /\ \A k \in 1 .. Len(f.sections) :
              Carries(Bytes(f), EndOf(f, k - 1), EncodeSection(f.sections[k]))
<1> DEFINE n == Len(f.sections)
           ss == Encoded(f)
           P(k) == Prefix(f, k)
           flat(k) == FlattenSeq(SubSeq(ss, 1, k))
<1>1. /\ ss \in Seq(Seq(Byte)) /\ Len(ss) = n /\ n \in Nat
      /\ \A k \in 1 .. n : ss[k] = EncodeSection(f.sections[k]) /\ ss[k] \in Seq(Byte)
      /\ \A k \in 0 .. n : P(k) = flat(k)
      /\ P(n) = EncodeAll(f.sections)
  BY PrefixFlat, FileShape
<1>2. \A k : EndOf(f, k) = Len(P(k))
  BY DEF EndOf, Prefix
<1> HIDE DEF n, ss, P
<1>3. /\ flat(0) = <<>>
      /\ \A k \in 0 .. n : flat(k) \in Seq(Byte)
      /\ \A k \in 1 .. n : flat(k) = flat(k - 1) \o ss[k]
  BY <1>1, FlattenPrefix
<1> HIDE DEF flat
<1>4. ASSUME NEW k \in 0 .. n
      PROVE  P(k) \in Seq(Byte) /\ EndOf(f, k) \in Nat
  BY <1>1, <1>2, <1>3, LenProperties
<1>5. EndOf(f, 0) = 0
  <2>1. P(0) = <<>>
    BY <1>1, <1>3
  <2>2. QED
    BY <1>2, <2>1
<1>6. ASSUME NEW k \in 1 .. n
      PROVE  EndOf(f, k) = EndOf(f, k - 1) + Len(EncodeSection(f.sections[k]))
  <2>1. k - 1 \in 0 .. n /\ k \in 0 .. n
    BY <1>1
  <2>2. P(k) = P(k - 1) \o ss[k] /\ P(k - 1) \in Seq(Byte) /\ ss[k] \in Seq(Byte)
    BY <1>1, <1>3, <1>4, <2>1
  <2>3. Joins(Byte, P(k - 1), ss[k])
    BY <2>2, TwoParts, Zenon
  <2>4. Len(P(k)) = Len(P(k - 1)) + Len(ss[k])
    BY <2>2, <2>3 DEF Joins
  <2>5. QED
    BY <1>1, <1>2, <2>4
<1>7. Bytes(f) \in Seq(Byte) /\ Len(Bytes(f)) = f.cut /\ f.cut \in Nat
      /\ \A i \in 1 .. f.cut : Bytes(f)[i] = P(n)[i]
      /\ f.cut <= Len(P(n)) /\ Len(P(n)) \in Nat
  <2> DEFINE cut == f.cut
             all == P(n)
  <2>1. all \in Seq(Byte) /\ Len(all) \in Nat
    BY <1>1, <1>4
  <2>2. cut \in 0 .. Len(all)
    BY <1>1, FileShape
  <2>3. Bytes(f) = SubSeq(all, 1, cut)
    BY <1>1 DEF Bytes
  <2> HIDE DEF all, cut
  <2>4. /\ SubSeq(all, 1, cut) \in Seq(Byte) /\ Len(SubSeq(all, 1, cut)) = cut
        /\ \A i \in 1 .. cut : SubSeq(all, 1, cut)[i] = all[i]
    BY <2>1, <2>2, SubSeqProperties
  <2>5. QED
    BY <2>1, <2>2, <2>3, <2>4 DEF all, cut
<1>8. ASSUME NEW k \in 1 .. n
      PROVE  Carries(Bytes(f), EndOf(f, k - 1), EncodeSection(f.sections[k]))
  <2> DEFINE s == EncodeSection(f.sections[k])
             q == EndOf(f, k - 1)
  <2>1. k - 1 \in 0 .. n /\ k \in 1 .. Len(ss) /\ n \in 0 .. n
    BY <1>1
  <2>2. P(n) = flat(n) /\ q = Len(flat(k - 1)) /\ ss[k] = s
    BY <1>1, <1>2, <2>1
  <2>3. Carries(flat(Len(ss)), Len(flat(k - 1)), ss[k])
    BY <1>1, <2>1, CarriesFlat, Zenon DEF flat
  <2>4. Carries(P(n), q, s)
    BY <1>1, <2>2, <2>3
  <2>5. q \in Nat /\ Len(s) \in Nat
    BY <1>1, <1>4, <2>1
  <2> HIDE DEF q, s
  <2>6. Carries(Bytes(f), q, s)
    <3> SUFFICES ASSUME NEW i \in 1 .. Len(s), q + i <= Len(Bytes(f))
                 PROVE  Bytes(f)[q + i] = s[i]
      BY DEF Carries
    <3> DEFINE cut == f.cut
    <3>1. q + i <= cut /\ cut \in Nat /\ cut <= Len(P(n))
      BY <1>7
    <3> HIDE DEF cut
    <3>2. q + i \in 1 .. cut /\ q + i <= Len(P(n))
      BY <1>7, <2>5, <3>1
    <3>3. P(n)[q + i] = s[i]
      BY <2>4, <3>2 DEF Carries
    <3>4. QED
      BY <1>7, <3>2, <3>3 DEF cut
  <2>7. QED
    BY <2>6 DEF q, s
<1>9. EndOf(f, n) = Len(EncodeAll(f.sections))
  BY <1>1, <1>2
<1>10. QED
  BY <1>4, <1>5, <1>6, <1>7, <1>8, <1>9 DEF n

LEMMA Increasing ==
  ASSUME NEW f \in Files, NEW j \in 0 .. Len(f.sections), NEW k \in 0 .. Len(f.sections), j < k
  PROVE  EndOf(f, j) < EndOf(f, k)
<1> DEFINE n == Len(f.sections)
           E(i) == EndOf(f, i)
           R == {d \in Nat : j + 1 + d <= n => E(j) < E(j + 1 + d)}
<1>1. ASSUME NEW i \in 1 .. n
      PROVE  E(i - 1) < E(i)
  <2> DEFINE s == f.sections[i]
             len == Len(EncodeSection(s))
  <2>1. s \in WasmSection
    BY FileShape
  <2>2. s.sizeLen \in Nat /\ Len(s.payload) \in Nat
    BY <2>1, SectionShape
  <2>3. len = 1 + s.sizeLen + Len(s.payload)
    BY <2>1, SectionType
  <2>4. len \in Nat \ {0}
    BY <2>2, <2>3
  <2>5. E(i) = E(i - 1) + len /\ E(i - 1) \in Nat
    <3>1. i - 1 \in 0 .. n
      BY FileShape
    <3>2. QED
      BY <3>1, Layout
  <2> HIDE DEF E, len
  <2>6. QED
    BY <2>4, <2>5
<1>2. n \in Nat /\ j \in Nat /\ k \in Nat /\ \A i \in 0 .. n : E(i) \in Nat
  BY FileShape, Layout
<1>3. k <= n
  OBVIOUS
<1> HIDE DEF E, n
<1>4. 0 \in R
  <2>1. SUFFICES ASSUME j + 1 + 0 <= n
                 PROVE  E(j) < E(j + 1 + 0)
    OBVIOUS
  <2>2. j + 1 \in 1 .. n /\ j + 1 + 0 = j + 1 /\ (j + 1) - 1 = j
    BY <1>2, <2>1
  <2>3. QED
    BY <1>1, <2>2
<1>5. ASSUME NEW d \in Nat, d \in R
      PROVE  d + 1 \in R
  <2>1. SUFFICES ASSUME j + 1 + (d + 1) <= n
                 PROVE  E(j) < E(j + 1 + (d + 1))
    OBVIOUS
  <2> DEFINE i == j + 1 + (d + 1)
  <2>2. /\ i \in 1 .. n /\ i - 1 = j + 1 + d /\ j + 1 + d <= n
        /\ j \in 0 .. n /\ i - 1 \in 0 .. n /\ i \in 0 .. n
    BY <1>2, <2>1
  <2> HIDE DEF i
  <2>3. E(j) < E(i - 1) /\ E(i - 1) < E(i)
    BY <1>1, <1>5, <2>2
  <2>4. E(j) \in Nat /\ E(i - 1) \in Nat /\ E(i) \in Nat
    BY <1>2, <2>2
  <2>5. E(j) < E(i)
    BY <2>3, <2>4
  <2>6. QED
    BY <2>5 DEF i
<1> HIDE DEF R
<1>6. Nat \subseteq R
  BY <1>4, <1>5, SetInduction
<1>7. k - j - 1 \in R /\ j + 1 + (k - j - 1) = k
  BY <1>2, <1>6
<1>8. E(j) < E(j + 1 + (k - j - 1))
  BY <1>3, <1>7 DEF R
<1>9. QED
  BY <1>7, <1>8 DEF E

-----------------------------------------------------------------------------
(* What read_leb_u32 makes of an encoded number                            *)

LEMMA DivDiv ==
  ASSUME NEW n \in Nat, NEW a \in Nat \ {0}, NEW b \in Nat \ {0}
  PROVE  (n \div a) \div b = n \div (a * b)
<1> DEFINE q == n \div a
           r == n % a
           q2 == q \div b
           r2 == q % b
<1>1. q \in Nat /\ r \in Nat /\ r < a /\ n = a * q + r
  BY Quotient
<1> HIDE DEF q, r
<1>2. q2 \in Nat /\ r2 \in Nat /\ r2 < b /\ q = b * q2 + r2
  BY <1>1, Quotient
<1> HIDE DEF q2, r2
<1>3. a * r2 + a <= a * b
  <2>1. b - r2 - 1 \in Nat /\ b = r2 + 1 + (b - r2 - 1)
    BY <1>2
  <2>2. a * b = a * r2 + a + a * (b - r2 - 1) /\ a * (b - r2 - 1) \in Nat /\ a * r2 \in Nat
    BY <1>2, <2>1
  <2>3. QED
    BY <2>2
<1>4. a * b \in Nat \ {0} /\ a * r2 \in Nat
  BY <1>2
<1>5. n = (a * b) * q2 + (a * r2 + r)
  BY <1>1, <1>2
<1>6. a * r2 + r \in Nat /\ a * r2 + r < a * b
  BY <1>1, <1>3, <1>4
<1>7. ((a * b) * q2 + (a * r2 + r)) \div (a * b) = q2
  BY ONLY <1>2, <1>4, <1>6, QuotientUnique
<1>8. QED
  BY <1>5, <1>7 DEF q, q2

LEMMA EncodedByte ==
  ASSUME NEW n \in Nat, NEW len \in Nat, NEW k \in 1 .. len
  PROVE  LET m == n \div Pow2[GroupBits * (k - 1)]
             byte == Encode(n, len)[k]
         IN  m \in Nat /\ Group(byte) = m % Pow2[GroupBits] /\ (Continues(byte) <=> k < len)
<1> DEFINE B == Pow2[GroupBits]
           m == n \div Pow2[GroupBits * (k - 1)]
           g == m % B
           byte == Encode(n, len)[k]
<1>1. B \in Nat \ {0}
  BY Pow2Type, LebAssumption
<1>2. m \in Nat /\ byte = Group(m) + (IF k < len THEN B ELSE 0)
  BY EncodeType
<1>3. Group(m) = g
  BY DEF Group
<1> HIDE DEF m, byte
<1>4. g \in Nat /\ g < B
  BY <1>1, <1>2, Quotient
<1> HIDE DEF g
<1>5. Group(byte) = byte % B /\ (Continues(byte) <=> byte >= B)
  BY DEF Group, Continues
<1> HIDE DEF B
<1>6. CASE k < len
  <2>1. byte = B * 1 + g
    BY <1>1, <1>2, <1>3, <1>4, <1>6
  <2>2. (B * 1 + g) % B = g
    BY <1>1, <1>4, QuotientUnique
  <2>3. byte >= B
    BY <1>1, <1>4, <2>1
  <2>4. QED
    BY <1>2, <1>5, <1>6, <2>1, <2>2, <2>3 DEF m, byte, g, B
<1>7. CASE ~(k < len)
  <2>1. byte = B * 0 + g
    BY <1>1, <1>2, <1>3, <1>4, <1>7
  <2>2. (B * 0 + g) % B = g
    BY <1>1, <1>4, QuotientUnique
  <2>3. ~(byte >= B)
    BY <1>1, <1>4, <2>1
  <2>4. QED
    BY <1>2, <1>5, <1>7, <2>1, <2>2, <2>3 DEF m, byte, g, B
<1>8. QED
  BY <1>6, <1>7

(* The byte of an encoded number that a buffer has k bytes after its start.*)
LEMMA SpelledByte ==
  ASSUME NEW n \in Nat, NEW len \in Nat, NEW buf \in Seq(Byte), NEW p \in Nat,
         Carries(buf, p, Encode(n, len)), NEW k \in Nat, k < len, p + k < Len(buf)
  PROVE  LET m == n \div Pow2[GroupBits * k]
             byte == buf[(p + k) + 1]
         IN  m \in Nat /\ Group(byte) = m % Pow2[GroupBits] /\ (Continues(byte) <=> k + 1 < len)
<1>1. k + 1 \in 1 .. len /\ p + (k + 1) = (p + k) + 1 /\ (k + 1) - 1 = k
  OBVIOUS
<1>2. Len(Encode(n, len)) = len
  BY EncodeType
<1>3. p + (k + 1) <= Len(buf)
  BY LenProperties
<1>4. buf[p + (k + 1)] = Encode(n, len)[k + 1]
  BY <1>1, <1>2, <1>3 DEF Carries
<1>5. LET m == n \div Pow2[GroupBits * ((k + 1) - 1)]
          byte == Encode(n, len)[k + 1]
      IN  m \in Nat /\ Group(byte) = m % Pow2[GroupBits] /\ (Continues(byte) <=> k + 1 < len)
  BY <1>1, EncodedByte
<1>6. QED
  BY <1>1, <1>4, <1>5

LEMMA SpelledValue ==
  ASSUME NEW n \in Nat, NEW len \in Nat \ {0}, n < Pow2[GroupBits * len],
         NEW buf \in Seq(Byte), NEW p \in Nat,
         Carries(buf, p, Encode(n, len)), p + len <= Len(buf)
  PROVE  LebValue(buf)[p] = n
<1> DEFINE V == LebValue(buf)
           B == Pow2[GroupBits]
           m(k) == n \div Pow2[GroupBits * k]
           S == {k \in Nat : k < len => V[p + k] = m(k)}
<1>1. B \in Nat \ {0} /\ \A k \in Nat : GroupBits * k \in Nat /\ Pow2[GroupBits * k] \in Nat \ {0}
  BY Pow2Type, LebAssumption
<1>2. \A k \in Nat : m(k) \in Nat
  BY <1>1, Quotient
<1>3. \A k \in Nat : Pow2[GroupBits * (k + 1)] = Pow2[GroupBits * k] * B
  <2> TAKE k \in Nat
  <2>1. GroupBits * (k + 1) = GroupBits * k + GroupBits /\ GroupBits \in Nat
    BY LebAssumption
  <2>2. QED
    BY <1>1, <2>1, Pow2Add
<1>4. \A k \in Nat : m(k + 1) = m(k) \div B
  <2> TAKE k \in Nat
  <2> DEFINE P == Pow2[GroupBits * k]
  <2>1. P \in Nat \ {0} /\ m(k + 1) = n \div (P * B) /\ m(k) = n \div P
    BY <1>1, <1>3
  <2> HIDE DEF P, B, m
  <2>2. (n \div P) \div B = n \div (P * B)
    BY <1>1, <2>1, DivDiv
  <2>3. QED
    BY <2>1, <2>2
<1>5. ASSUME NEW k \in Nat, k < len => k + 1 \in S
      PROVE  k \in S
  <2>1. SUFFICES ASSUME k < len
                 PROVE  V[p + k] = m(k)
    OBVIOUS
  <2> DEFINE q == p + k
             byte == buf[q + 1]
  <2>2. q \in Nat /\ q < Len(buf) /\ ~(q >= Len(buf)) /\ q + 1 = p + (k + 1)
    BY <2>1, LenProperties
  <2>3. Group(byte) = m(k) % B /\ (Continues(byte) <=> k + 1 < len)
    BY <2>1, <2>2, SpelledByte
  <2>4. V[q] = ValueStep(buf, V, q)
    BY <2>2, LebValueDef
  <2> HIDE DEF V, m, q
  <2>5. V[q] = IF ~Continues(byte) THEN Group(byte) ELSE Group(byte) + B * V[q + 1]
    BY <2>2, <2>4, Zenon DEF ValueStep
  <2> HIDE DEF byte, B
  <2>6. CASE k + 1 < len
    <3>1. V[q + 1] = m(k) \div B
      BY <1>4, <1>5, <2>1, <2>2, <2>6
    <3>2. m(k) = B * (m(k) \div B) + (m(k) % B)
      BY <1>1, <1>2, Quotient
    <3>3. m(k) \div B \in Nat /\ m(k) % B \in Nat
      BY <1>1, <1>2, Quotient
    <3> DEFINE x == m(k) \div B
               y == m(k) % B
    <3>4. V[q] = y + B * x
      BY <2>3, <2>5, <2>6, <3>1
    <3> HIDE DEF x, y
    <3>5. y + B * x = B * x + y
      BY <1>1, <3>3 DEF x, y
    <3>6. QED
      BY <3>2, <3>4, <3>5 DEF x, y, q
  <2>7. CASE ~(k + 1 < len)
    <3>1. len = k + 1
      BY <2>1, <2>7
    <3>2. m(k) \div B = 0
      <4>1. n \div Pow2[GroupBits * len] = 0
        <5> DEFINE P == Pow2[GroupBits * len]
        <5>1. P \in Nat \ {0} /\ n < P
          BY <1>1
        <5> HIDE DEF P
        <5>2. (P * 0 + n) \div P = 0
          BY <5>1, QuotientUnique, Zenon
        <5>3. P * 0 + n = n
          BY <5>1
        <5>4. QED
          BY <5>2, <5>3 DEF P
      <4>2. m(k + 1) = 0
        BY <3>1, <4>1 DEF m
      <4>3. QED
        BY <1>4, <4>2
    <3>3. m(k) = B * (m(k) \div B) + (m(k) % B) /\ m(k) % B \in Nat
      BY <1>1, <1>2, Quotient
    <3> DEFINE y == m(k) % B
    <3>4. m(k) = B * 0 + y /\ y \in Nat
      BY <3>2, <3>3
    <3>5. V[q] = y
      BY <2>3, <2>5, <2>7
    <3> HIDE DEF y
    <3>6. QED
      BY <1>1, <3>4, <3>5 DEF q
  <2>8. QED
    BY <2>6, <2>7
<1>6. 0 \in Nat /\ 0 < len /\ p + 0 = p /\ len \in Nat
  OBVIOUS
<1>7. V[p + 0] = m(0)
  <2> HIDE DEF S
  <2>1. Nat \subseteq S
    BY <1>5, <1>6, BackwardInduction
  <2>2. QED
    BY <1>6, <2>1 DEF S
<1>8. m(0) = n
  <2>1. GroupBits * 0 = 0
    BY LebAssumption
  <2>2. n \div 1 = n
    OBVIOUS
  <2>3. QED
    BY <2>1, <2>2, Pow2Def
<1>9. QED
  BY <1>6, <1>7, <1>8

(* A number of the format is read when the buffer has all of it.           *)
LEMMA ReadNumber ==
  ASSUME NEW n \in Nat, NEW len \in Lengths(n), NEW buf \in Seq(Byte), NEW p \in Nat,
         Carries(buf, p, Encode(n, len))
  PROVE  read_leb_u32(buf, p) =
           IF p + len <= Len(buf) THEN Some([value |-> n, pos |-> p + len]) ELSE None
<1>1. /\ len \in Nat \ {0} /\ len <= MaxGroups /\ n < Pow2[Width] /\ n < Pow2[GroupBits * len]
      /\ Len(buf) \in Nat
  <2>1. Pow2[Width] \in Nat
    BY Pow2Type, LebAssumption
  <2>2. len \in 1 .. MaxGroups /\ n \in 0 .. Pow2[Width] - 1 /\ n < Pow2[GroupBits * len]
    BY DEF Lengths, U32
  <2>3. Len(buf) \in Nat
    OBVIOUS
  <2> DEFINE P == Pow2[Width]
  <2>4. n < P
    <3>1. P \in Nat /\ n \in 0 .. P - 1
      BY <2>1, <2>2
    <3> HIDE DEF P
    <3>2. QED
      BY <3>1
  <2>5. len \in Nat \ {0} /\ len <= MaxGroups
    BY <2>2
  <2>6. QED
    BY <2>2, <2>3, <2>4, <2>5
<1>2. read_leb_u32(buf, p) = LebLoop(buf)[At(p, 0, 0)]
  BY DEF read_leb_u32, Start, At
<1>3. ASSUME NEW k \in Nat, k < len, p + k < Len(buf)
      PROVE  Continues(buf[(p + k) + 1]) <=> k + 1 < len
  BY <1>1, <1>3, SpelledByte
<1>4. CASE ~(p + len <= Len(buf))
  <2>1. ASSUME NEW q \in p .. Len(buf) - 1
        PROVE  Continues(buf[q + 1])
    <3>1. /\ q - p \in Nat /\ p + (q - p) = q /\ q - p < len /\ p + (q - p) < Len(buf)
          /\ (q - p) + 1 < len
      BY <1>1, <1>4
    <3>2. Continues(buf[(p + (q - p)) + 1])
      BY <1>3, <3>1
    <3>3. QED
      BY <3>1, <3>2
  <2>2. LebLoop(buf)[At(p, 0, 0)] = None
    BY <2>1, Unterminated
  <2>3. QED
    BY <1>2, <1>4, <2>2
<1>5. CASE p + len <= Len(buf)
  <2> DEFINE d == len - 1
             e == p + d
  <2>1. /\ d \in Nat /\ e \in Nat /\ e < Len(buf) /\ d \in 0 .. e /\ e - d = p
        /\ d < len /\ ~(d + 1 < len) /\ d + 1 = len /\ e + 1 = p + len
    BY <1>1, <1>5
  <2> HIDE DEF d
  <2>2. ~Continues(buf[e + 1])
    BY <1>3, <2>1
  <2>3. ASSUME NEW q \in e - d .. e - 1
        PROVE  Continues(buf[q + 1])
    <3>1. /\ q - p \in Nat /\ p + (q - p) = q /\ q - p < len /\ p + (q - p) < Len(buf)
          /\ (q - p) + 1 < len
      BY <1>1, <2>1
    <3>2. Continues(buf[(p + (q - p)) + 1])
      BY <1>3, <3>1
    <3>3. QED
      BY <3>1, <3>2
  <2> HIDE DEF e
  <2>4. LebLoop(buf)[At(e - d, 0, 0)] = ReadsTo(buf, e, d, 0, 0)
    <3>1. 0 \in Nat /\ \A q \in e - d .. e - 1 : Continues(buf[q + 1])
      BY <2>3
    <3>2. e \in Nat /\ e < Len(buf) /\ d \in 0 .. e
      BY <2>1
    <3>3. QED
      BY <2>2, <3>1, <3>2, Terminated, Zenon
  <2>5. 0 + d * GroupBits < Width
    <3>1. d * GroupBits < Width
      BY <1>1, <2>1, GroupsThatFit
    <3>2. d * GroupBits \in Nat
      BY <2>1, LebAssumption
    <3>3. QED
      BY <3>1, <3>2
  <2>6. LebValue(buf)[p] = n
    BY <1>1, <1>5, SpelledValue
  <2>7. 0 + ((n * Pow2[0]) % Pow2[Width]) = n
    <3> DEFINE P == Pow2[Width]
    <3>1. Pow2[0] = 1 /\ P \in Nat \ {0} /\ n < P
      BY <1>1, Pow2Def, Pow2Type, LebAssumption
    <3> HIDE DEF P
    <3>2. (P * 0 + n) % P = n /\ P * 0 + n = n /\ n * Pow2[0] = n
      BY <3>1, QuotientUnique
    <3>3. (n * Pow2[0]) % P = n
      BY <3>2
    <3>4. QED
      BY <3>3 DEF P
  <2>8. ReadsTo(buf, e, d, 0, 0) = Some([value |-> n, pos |-> p + len])
    BY <2>1, <2>5, <2>6, <2>7, Zenon DEF ReadsTo
  <2>9. QED
    BY <1>2, <1>5, <2>1, <2>4, <2>8
<1>6. QED
  BY <1>4, <1>5

-----------------------------------------------------------------------------
(* What the scan makes of a section                                        *)

SectionFrom(buf, number) ==
  IF number.pos + number.value > Len(buf) THEN None
  ELSE Some([id |-> buf[pos + 1], start |-> number.pos, end |-> number.pos + number.value])

LEMMA SectionBinds ==
  ASSUME NEW buf
  PROVE  /\ read_leb_u32(buf, pos + 1) = None => Section(buf) = None
         /\ \A number : read_leb_u32(buf, pos + 1) = Some(number) =>
                      Section(buf) = SectionFrom(buf, number)
<1>1. Section(buf) = UNION {SectionFrom(buf, number) : number \in read_leb_u32(buf, pos + 1)}
  BY DEF Section, Bind, SectionFrom
<1>2. ASSUME NEW number, read_leb_u32(buf, pos + 1) = Some(number)
      PROVE  Section(buf) = SectionFrom(buf, number)
  BY <1>1, <1>2 DEF Some
<1>3. QED
  BY <1>1, <1>2 DEF None

LEMMA NumberRead ==
  ASSUME NEW n \in Nat, NEW x \in Number(n)
  PROVE  /\ x \in Seq(Byte) /\ Len(x) \in Nat
         /\ \A buf \in Seq(Byte) : \A p \in Nat :
              Carries(buf, p, x) /\ p + Len(x) <= Len(buf) =>
                read_leb_u32(buf, p) = Some([value |-> n, pos |-> p + Len(x)])
<1>1. PICK len \in Lengths(n) : x = Encode(n, len)
  BY DEF Number
<1>2. len \in Nat
  BY DEF Lengths
<1>3. x \in Seq(Byte) /\ Len(x) = len
  BY <1>1, <1>2, EncodeType
<1>4. ASSUME NEW buf \in Seq(Byte), NEW p \in Nat, Carries(buf, p, x), p + Len(x) <= Len(buf)
      PROVE  read_leb_u32(buf, p) = Some([value |-> n, pos |-> p + Len(x)])
  <2>1. Carries(buf, p, Encode(n, len)) /\ p + len <= Len(buf)
    BY <1>1, <1>3, <1>4
  <2>2. read_leb_u32(buf, p) =
          IF p + len <= Len(buf) THEN Some([value |-> n, pos |-> p + len]) ELSE None
    BY <2>1, ReadNumber, Zenon
  <2>3. read_leb_u32(buf, p) = Some([value |-> n, pos |-> p + len])
    BY <2>1, <2>2
  <2>4. QED
    BY <1>3, <2>3
<1>5. QED
  BY <1>2, <1>3, <1>4

LEMMA LimitsNone ==
  ASSUME NEW buf, NEW at, NEW count, read_leb_u32(buf, at) = Some(count), count.value = 0
  PROVE  Limits(buf, at) = None
BY DEF Limits, Bind, Some, None

(* From the minimum on.                                                    *)
LimitsFrom(buf, flags, minimum) ==
  IF flags.value % 2 = 0 THEN Some([minimum |-> minimum.value, maximum |-> None])
  ELSE UNION {Some([minimum |-> minimum.value, maximum |-> Some(maximum.value)]) :
                maximum \in read_leb_u32(buf, minimum.pos)}

LEMMA LimitsBinds ==
  ASSUME NEW buf, NEW at, NEW count, NEW flags, NEW minimum,
         read_leb_u32(buf, at) = Some(count), count.value # 0,
         read_leb_u32(buf, count.pos) = Some(flags),
         read_leb_u32(buf, flags.pos) = Some(minimum)
  PROVE  Limits(buf, at) = LimitsFrom(buf, flags, minimum)
<1> DEFINE ReadAt(p) == read_leb_u32(buf, p)
           FromFlags(fl) == UNION {LimitsFrom(buf, fl, m) : m \in ReadAt(fl.pos)}
           FromCount(n) ==
             IF n.value = 0 THEN None ELSE UNION {FromFlags(fl) : fl \in ReadAt(n.pos)}
<1>1. Limits(buf, at) = UNION {FromCount(n) : n \in ReadAt(at)}
  BY DEF Limits, Bind, LimitsFrom
<1>2. Limits(buf, at) = FromCount(count)
  <2> HIDE DEF FromCount
  <2>1. QED
    BY <1>1 DEF Some
<1>3. FromCount(count) = FromFlags(flags)
  <2> HIDE DEF FromFlags
  <2>1. QED
    BY DEF Some
<1>4. FromFlags(flags) = LimitsFrom(buf, flags, minimum)
  BY DEF Some
<1>5. QED
  BY <1>2, <1>3, <1>4

(* The header of the section at pos, if the binary has all of the section. *)
LEMMA SectionRead ==
  ASSUME NEW f \in Files, NEW k \in 1 .. Len(f.sections), pos = EndOf(f, k - 1), pos < f.cut
  PROVE  LET s == f.sections[k]
         IN  Section(Bytes(f)) =
               IF EndOf(f, k) <= f.cut
               THEN Some([id |-> s.id, start |-> pos + 1 + s.sizeLen, end |-> EndOf(f, k)])
               ELSE None
<1> DEFINE s == f.sections[k]
           buf == Bytes(f)
           cut == f.cut
           length == Len(s.payload)
           len == s.sizeLen
           end == EndOf(f, k)
           header == [value |-> length, pos |-> (pos + 1) + len]
<1>1. s \in WasmSection
  BY FileShape
<1>2. length \in Nat /\ len \in Nat /\ len \in Lengths(length)
  BY <1>1, SectionShape
<1>3. Len(EncodeSection(s)) = 1 + len + length
  BY <1>1, SectionType
<1>4. /\ buf \in Seq(Byte) /\ Len(buf) = cut /\ cut \in Nat
      /\ end = EndOf(f, k - 1) + Len(EncodeSection(s))
      /\ Carries(buf, EndOf(f, k - 1), EncodeSection(s))
  BY Layout
<1>5. EndOf(f, k - 1) \in Nat
  <2>1. k - 1 \in 0 .. Len(f.sections)
    BY FileShape
  <2>2. QED
    BY <2>1, Layout
<1>6. pos \in Nat /\ pos < cut /\ pos = EndOf(f, k - 1)
  BY <1>5
<1> HIDE DEF buf, cut, length, len, end
<1>7. end = ((pos + 1) + len) + length
  BY <1>2, <1>3, <1>4, <1>6
<1>8. /\ buf[pos + 1] = s.id
      /\ Carries(buf, pos + 1, Encode(length, len))
  <2>1. Carries(buf, pos, EncodeSection(s))
    BY <1>4, <1>6
  <2>2. pos < Len(buf)
    BY <1>4, <1>6
  <2>3. QED
    BY <1>1, <1>4, <1>6, <2>1, <2>2, CarriesSection DEF length, len
<1> HIDE DEF s
<1>9. pos + 1 \in Nat
  BY <1>6
<1>10. read_leb_u32(buf, pos + 1) =
         IF (pos + 1) + len <= Len(buf) THEN Some(header) ELSE None
  <2>1. buf \in Seq(Byte) /\ Carries(buf, pos + 1, Encode(length, len))
    BY <1>4, <1>8, Zenon
  <2>2. QED
    BY <1>2, <1>9, <2>1, ReadNumber, Zenon
<1>11. CASE ~((pos + 1) + len <= Len(buf))
  <2>1. Section(buf) = None
    BY <1>10, <1>11, SectionBinds
  <2>2. ~(end <= cut)
    BY <1>2, <1>4, <1>6, <1>7, <1>11
  <2>3. QED
    BY <2>1, <2>2 DEF s, buf, cut, end
<1>12. CASE (pos + 1) + len <= Len(buf)
  <2>1. Section(buf) = SectionFrom(buf, header)
    BY <1>10, <1>12, SectionBinds
  <2>2. SectionFrom(buf, header) =
          IF ((pos + 1) + len) + length > Len(buf) THEN None
          ELSE Some([id |-> buf[pos + 1], start |-> (pos + 1) + len,
                     end |-> ((pos + 1) + len) + length])
    BY DEF SectionFrom
  <2>3. (((pos + 1) + len) + length > Len(buf)) <=> ~(end <= cut)
    BY <1>2, <1>4, <1>6, <1>7
  <2>4. (pos + 1) + len = pos + 1 + len
    OBVIOUS
  <2>5. SectionFrom(buf, header) =
          IF end <= cut THEN Some([id |-> s.id, start |-> pos + 1 + len, end |-> end]) ELSE None
    <3>1. CASE end <= cut
      BY <1>7, <1>8, <2>2, <2>3, <2>4, <3>1, Zenon
    <3>2. CASE ~(end <= cut)
      BY <2>2, <2>3, <3>2, Zenon
    <3>3. QED
      BY <3>1, <3>2
  <2>6. QED
    BY <2>1, <2>5 DEF s, buf, cut, end, len
<1>13. QED
  BY <1>11, <1>12

(* The limits in the payload of a whole memory section.                    *)
LEMMA LimitsRead ==
  ASSUME NEW s \in WasmSection, s.id = MemoryId, NEW buf \in Seq(Byte), NEW p \in Nat,
         Carries(buf, p, s.payload), p + Len(s.payload) <= Len(buf)
  PROVE  Limits(buf, p) = IF s.limits = <<>> THEN None ELSE Some(Head(s.limits))
<1> DEFINE payload == s.payload
           limits == s.limits
<1>1. MemoryPayload(payload, limits) /\ limits \in Seq(LimitsType)
  BY SectionShape
<1>2. Carries(buf, p, payload) /\ p + Len(payload) <= Len(buf) /\ Len(buf) \in Nat
  BY LenProperties
<1> HIDE DEF payload, limits
<1>3. CASE limits = <<>>
  <2>1. payload \in Number(0)
    BY <1>1, <1>3 DEF MemoryPayload
  <2>2. read_leb_u32(buf, p) = Some([value |-> 0, pos |-> p + Len(payload)])
    BY <1>2, <2>1, NumberRead
  <2>3. Limits(buf, p) = None
    BY <2>2, LimitsNone
  <2>4. QED
    BY <1>3, <2>3 DEF limits
<1>4. CASE limits # <<>>
  <2> DEFINE l == Head(limits)
             bounded == IF l.maximum = None THEN 0 ELSE 1
  <2>1. l \in LimitsType
    BY <1>1, <1>4, HeadTailProperties
  <2> HIDE DEF l
  <2>2. /\ l.minimum \in U32 /\ l = [minimum |-> l.minimum, maximum |-> l.maximum]
        /\ l.maximum = None \/ \E n \in U32 : l.maximum = Some(n)
    BY <2>1 DEF LimitsType
  <2>3. PICK count \in Number(1), flags \in Number(bounded) \union Number(2 + bounded),
             minimum \in Number(l.minimum),
             maximum \in IF l.maximum = None THEN {<<>>}
                         ELSE UNION {Number(n) : n \in l.maximum} :
               payload = count \o flags \o minimum \o maximum
    BY <1>1, <1>4, Zenon DEF MemoryPayload, l
  <2>4. U32 \subseteq Nat
    BY DEF U32
  <2>5. PICK flag \in {bounded, 2 + bounded} : flags \in Number(flag)
    OBVIOUS
  <2>6. flag \in Nat /\ (flag % 2 = 0 <=> l.maximum = None)
    OBVIOUS
  <2> HIDE DEF bounded
  <2>7. count \in Seq(Byte) /\ flags \in Seq(Byte) /\ minimum \in Seq(Byte) /\ maximum \in Seq(Byte)
    <3>1. count \in Seq(Byte) /\ flags \in Seq(Byte) /\ minimum \in Seq(Byte)
      BY <2>2, <2>4, <2>5, <2>6, NumberRead
    <3>2. CASE l.maximum = None
      BY <3>1, <3>2
    <3>3. CASE l.maximum # None
      <4>1. PICK n \in U32 : l.maximum = Some(n)
        BY <2>2, <3>3
      <4>2. maximum \in Number(n) /\ n \in Nat
        BY <2>4, <3>3, <4>1 DEF Some
      <4>3. QED
        BY <3>1, <4>2, NumberRead
    <3>4. QED
      BY <3>2, <3>3
  <2> DEFINE two == count \o flags
             three == two \o minimum
             a == p + Len(count)
             b == a + Len(flags)
             c == b + Len(minimum)
  <2>8. two \in Seq(Byte) /\ Len(two) = Len(count) + Len(flags)
    <3>1. Joins(Byte, count, flags)
      BY <2>7, TwoParts
    <3>2. QED
      BY <3>1 DEF Joins
  <2>9. three \in Seq(Byte) /\ Len(three) = Len(two) + Len(minimum)
    <3> HIDE DEF two
    <3>1. Joins(Byte, two, minimum)
      BY <2>7, <2>8, TwoParts
    <3>2. QED
      BY <3>1 DEF Joins
  <2>10. payload = three \o maximum /\ Len(payload) = Len(three) + Len(maximum)
    <3> HIDE DEF three
    <3>1. Joins(Byte, three, maximum)
      BY <2>7, <2>9, TwoParts
    <3>2. payload = three \o maximum
      BY <2>3 DEF three
    <3>3. QED
      BY <3>1, <3>2 DEF Joins
  <2>11. /\ Len(count) \in Nat /\ Len(flags) \in Nat /\ Len(minimum) \in Nat
         /\ Len(maximum) \in Nat
    BY <2>7
  <2>12. Carries(buf, p, three) /\ Carries(buf, p + Len(three), maximum)
    <3> HIDE DEF three
    <3>1. Carries(buf, p, three \o maximum)
      BY <1>2, <2>10
    <3>2. QED
      BY <2>7, <2>9, <3>1, CarriesParts, Zenon
  <2>13. Carries(buf, p, two) /\ Carries(buf, p + Len(two), minimum)
    <3> HIDE DEF two
    <3>1. QED
      BY <2>7, <2>8, <2>12, CarriesParts, Zenon
  <2>14. Carries(buf, p, count) /\ Carries(buf, a, flags)
    BY <2>7, <2>13, CarriesParts, Zenon
  <2> HIDE DEF two, three
  <2>15. /\ a \in Nat /\ b \in Nat /\ c \in Nat /\ p + Len(two) = b /\ p + Len(three) = c
         /\ a <= Len(buf) /\ b <= Len(buf) /\ c <= Len(buf) /\ c + Len(maximum) <= Len(buf)
    BY <1>2, <2>8, <2>9, <2>10, <2>11
  <2> HIDE DEF a, b, c
  <2>16. read_leb_u32(buf, p) = Some([value |-> 1, pos |-> a])
    <3>1. p + Len(count) <= Len(buf)
      BY <2>15 DEF a
    <3>2. QED
      BY <2>14, <3>1, NumberRead DEF a
  <2>17. read_leb_u32(buf, a) = Some([value |-> flag, pos |-> b])
    <3>1. a + Len(flags) <= Len(buf)
      BY <2>15 DEF b
    <3>2. QED
      BY <2>5, <2>6, <2>14, <2>15, <3>1, NumberRead DEF b
  <2>18. read_leb_u32(buf, b) = Some([value |-> l.minimum, pos |-> c])
    <3>1. b + Len(minimum) <= Len(buf) /\ Carries(buf, b, minimum)
      BY <2>13, <2>15 DEF c
    <3>2. QED
      BY <2>2, <2>4, <2>15, <3>1, NumberRead DEF c
  <2> DEFINE count1 == [value |-> 1, pos |-> a]
             flags1 == [value |-> flag, pos |-> b]
             minimum1 == [value |-> l.minimum, pos |-> c]
  <2>19. /\ count1.value # 0 /\ count1.pos = a /\ flags1.value = flag /\ flags1.pos = b
         /\ minimum1.value = l.minimum /\ minimum1.pos = c
    OBVIOUS
  <2> HIDE DEF count1, flags1, minimum1
  <2>20. /\ read_leb_u32(buf, p) = Some(count1) /\ count1.value # 0
         /\ read_leb_u32(buf, count1.pos) = Some(flags1)
         /\ read_leb_u32(buf, flags1.pos) = Some(minimum1)
    BY <2>16, <2>17, <2>18, <2>19 DEF count1, flags1, minimum1
  <2>21. Limits(buf, p) = LimitsFrom(buf, flags1, minimum1)
    BY <2>20, LimitsBinds
  <2>22. Limits(buf, p) = Some(l)
    <3>1. CASE l.maximum = None
      <4>1. flags1.value % 2 = 0
        BY <2>6, <2>19, <3>1
      <4>2. Limits(buf, p) = Some([minimum |-> minimum1.value, maximum |-> None])
        BY <4>1, <2>21 DEF LimitsFrom
      <4>3. QED
        BY <2>2, <2>19, <3>1, <4>2
    <3>2. CASE l.maximum # None
      <4>1. PICK n \in U32 : l.maximum = Some(n)
        BY <2>2, <3>2
      <4>2. maximum \in Number(n) /\ n \in Nat
        BY <2>4, <3>2, <4>1 DEF Some
      <4>3. Carries(buf, c, maximum)
        BY <2>12, <2>15
      <4> DEFINE maximum1 == [value |-> n, pos |-> c + Len(maximum)]
      <4>4. read_leb_u32(buf, c) = Some(maximum1)
        BY <2>15, <4>2, <4>3, NumberRead
      <4>5. maximum1.value = n
        OBVIOUS
      <4> HIDE DEF maximum1
      <4>6. flags1.value % 2 # 0 /\ read_leb_u32(buf, minimum1.pos) = Some(maximum1)
        BY <2>6, <2>19, <3>2, <4>4
      <4>7. Limits(buf, p) = Some([minimum |-> minimum1.value, maximum |-> Some(maximum1.value)])
        <5> DEFINE Bounded(y) ==
                     Some([minimum |-> minimum1.value, maximum |-> Some(y.value)])
        <5>1. Limits(buf, p) = UNION {Bounded(y) : y \in read_leb_u32(buf, minimum1.pos)}
          BY <2>21, <4>6 DEF LimitsFrom
        <5> HIDE DEF Bounded
        <5>2. Limits(buf, p) = Bounded(maximum1)
          BY <4>6, <5>1 DEF Some
        <5>3. QED
          BY <5>2 DEF Bounded
      <4>8. QED
        BY <2>2, <2>19, <4>1, <4>5, <4>7
    <3>3. QED
      BY <3>1, <3>2
  <2>23. QED
    BY <1>4, <2>22 DEF l, limits
<1>5. QED
  BY <1>3, <1>4

-----------------------------------------------------------------------------
(* The scan finds what the binary declares                                 *)

LEMMA NothingDeclared ==
  ASSUME NEW f \in Files,
         f.magic => \A j \in 1 .. Len(f.sections) :
           f.sections[j].id # MemoryId \/ ~(EndOf(f, j) <= f.cut)
  PROVE  Declared(f) = {}
BY FileShape DEF Declared, Declares

LEMMA OneDeclared ==
  ASSUME NEW f \in Files, f.magic, NEW k \in 1 .. Len(f.sections),
         f.sections[k].id = MemoryId, EndOf(f, k) <= f.cut
  PROVE  Declared(f) = IF f.sections[k].limits = <<>> THEN None
                       ELSE Some(Head(f.sections[k].limits))
<1> DEFINE D == {j \in DOMAIN f.sections :
                   f.magic /\ Declares(f.sections[j]) /\ EndOf(f, j) <= f.cut}
<1>1. \A j \in DOMAIN f.sections : f.sections[j].id = MemoryId => j = k
  BY FileShape
<1>2. D = IF f.sections[k].limits = <<>> THEN {} ELSE {k}
  BY <1>1, FileShape DEF Declares
<1>3. Declared(f) = {Head(f.sections[j].limits) : j \in D}
  BY DEF Declared
<1> HIDE DEF D
<1>4. QED
  BY <1>2, <1>3 DEF None, Some

(* The scan is at a section of the binary, and at its end when it has left *)
(* the last.                                                               *)
LEMMA AtSection ==
  ASSUME ScanInv, Scanning, pos < Len(Bytes(file))
  PROVE  \E k \in 1 .. Len(file.sections) :
           /\ pos = EndOf(file, k - 1) /\ pos < file.cut
           /\ \A j \in 1 .. k - 1 : file.sections[j].id # MemoryId
<1>1. file \in Files /\ file.magic
  BY DEF ScanInv, Scanning
<1>2. PICK i \in 0 .. Len(file.sections) :
        /\ pos = EndOf(file, i) /\ pos <= file.cut
        /\ \A j \in 1 .. i : file.sections[j].id # MemoryId
  BY DEF ScanInv, InStep, Scanning
<1>3. Len(file.sections) \in Nat /\ file.cut \in Nat /\ Len(Bytes(file)) = file.cut /\ pos \in Nat
  BY <1>1, <1>2, FileShape, Layout
<1>4. pos < file.cut
  BY <1>3
<1>5. i # Len(file.sections)
  <2>1. EndOf(file, Len(file.sections)) = Len(EncodeAll(file.sections))
        /\ file.cut \in 0 .. Len(EncodeAll(file.sections))
    BY <1>1, FileShape, Layout
  <2>2. CASE i = Len(file.sections)
    <3>1. pos = Len(EncodeAll(file.sections))
      BY <1>2, <2>1, <2>2
    <3>2. QED
      BY <1>3, <1>4, <2>1, <3>1
  <2>3. QED
    BY <2>2
<1>6. i + 1 \in 1 .. Len(file.sections) /\ (i + 1) - 1 = i
  BY <1>3, <1>5
<1>7. QED
  BY <1>2, <1>4, <1>6

LEMMA ScanInvInit == ScanInit => ScanInv
<1> SUFFICES ASSUME ScanInit
             PROVE  ScanInv
  OBVIOUS
<1>1. file \in Files /\ pos = 0 /\ out = NotYet
  BY DEF ScanInit
<1>2. /\ EndOf(file, 0) = 0 /\ file.cut \in Nat /\ Len(file.sections) \in Nat
  BY <1>1, Layout, FileShape
<1>3. 0 \in 0 .. Len(file.sections) /\ pos = EndOf(file, 0) /\ pos <= file.cut
      /\ \A j \in 1 .. 0 : file.sections[j].id # MemoryId
  BY <1>1, <1>2
<1>4. DeclaredFound
  BY <1>1 DEF DeclaredFound
<1>5. QED
  BY <1>1, <1>3, <1>4 DEF ScanInv, InStep

(* The scan ends with what the binary declares.                            *)
LEMMA Finished ==
  ASSUME ScanInv, Finish(Declared(file))
  PROVE  ScanInv'
<1>1. file' = file /\ out' = {Declared(file)} /\ file \in Files
  BY DEF Finish, ScanInv
<1>2. out' # NotYet
  BY <1>1 DEF NotYet
<1>3. Declared(file') = Declared(file)
  BY <1>1
<1>4. DeclaredFound'
  BY <1>1, <1>3 DEF DeclaredFound
<1>5. QED
  BY <1>1, <1>2, <1>4 DEF ScanInv, InStep

LEMMA BadPreambleStep ==
  ASSUME ScanInv, BadPreamble
  PROVE  ScanInv'
<1>1. file \in Files /\ ~file.magic /\ Finish(None)
  BY DEF ScanInv, BadPreamble
<1>2. Declared(file) = None
  BY <1>1, NothingDeclared DEF None
<1>3. QED
  BY <1>1, <1>2, Finished

LEMMA NoMoreSectionsStep ==
  ASSUME ScanInv, NoMoreSections
  PROVE  ScanInv'
<1>1. file \in Files /\ out = NotYet /\ pos >= Len(Bytes(file)) /\ Finish(None)
  BY DEF ScanInv, NoMoreSections, Scanning
<1>2. PICK i \in 0 .. Len(file.sections) :
        /\ pos = EndOf(file, i) /\ pos <= file.cut
        /\ \A j \in 1 .. i : file.sections[j].id # MemoryId
  BY <1>1 DEF ScanInv, InStep
<1>3. Len(Bytes(file)) = file.cut /\ file.cut \in Nat /\ EndOf(file, i) \in Nat
      /\ Len(file.sections) \in Nat
  BY <1>1, FileShape, Layout
<1>4. EndOf(file, i) = file.cut
  BY <1>1, <1>2, <1>3
<1>5. ASSUME NEW j \in 1 .. Len(file.sections), EndOf(file, j) <= file.cut
      PROVE  file.sections[j].id # MemoryId
  <2>1. j \in 0 .. Len(file.sections)
    OBVIOUS
  <2>2. EndOf(file, j) \in Nat
    BY <1>1, <2>1, Layout
  <2>3. ~(i < j)
    <3>1. i < j => EndOf(file, i) < EndOf(file, j)
      BY <1>1, <2>1, Increasing
    <3>2. QED
      BY <1>3, <1>4, <1>5, <2>2, <3>1
  <2>4. j \in 1 .. i
    BY <2>3
  <2>5. QED
    BY <1>2, <2>4
<1>6. Declared(file) = None
  BY <1>1, <1>5, NothingDeclared DEF None
<1>7. QED
  BY <1>1, <1>6, Finished

LEMMA BadSectionStep ==
  ASSUME ScanInv, BadSection
  PROVE  ScanInv'
<1>1. /\ file \in Files /\ Scanning /\ pos < Len(Bytes(file))
      /\ Section(Bytes(file)) = None /\ Finish(None)
  BY DEF ScanInv, BadSection
<1>2. PICK k \in 1 .. Len(file.sections) :
        /\ pos = EndOf(file, k - 1) /\ pos < file.cut
        /\ \A j \in 1 .. k - 1 : file.sections[j].id # MemoryId
  BY <1>1, AtSection
<1>3. ~(EndOf(file, k) <= file.cut)
  BY <1>1, <1>2, SectionRead DEF None, Some
<1>4. ASSUME NEW j \in 1 .. Len(file.sections), EndOf(file, j) <= file.cut
      PROVE  file.sections[j].id # MemoryId
  <2>1. j \in 0 .. Len(file.sections) /\ k \in 0 .. Len(file.sections)
    OBVIOUS
  <2>2. EndOf(file, j) \in Nat /\ EndOf(file, k) \in Nat /\ file.cut \in Nat
    BY <1>1, <2>1, Layout
  <2>3. j < k
    <3>1. CASE k < j
      <4>1. EndOf(file, k) < EndOf(file, j)
        BY <1>1, <2>1, <3>1, Increasing
      <4>2. QED
        BY <1>3, <1>4, <2>2, <4>1
    <3>2. j # k
      BY <1>3, <1>4
    <3>3. QED
      BY <3>1, <3>2
  <2>4. j \in 1 .. k - 1
    BY <2>3
  <2>5. QED
    BY <1>2, <2>4
<1>5. Declared(file) = None
  BY <1>1, <1>4, NothingDeclared DEF None
<1>6. QED
  BY <1>1, <1>5, Finished

LEMMA MemorySectionStep ==
  ASSUME ScanInv, MemorySection
  PROVE  ScanInv'
<1> DEFINE buf == Bytes(file)
<1>1. file \in Files /\ Scanning /\ file.magic /\ pos < Len(buf)
  BY DEF ScanInv, MemorySection, Scanning
<1>2. PICK header \in Section(buf) : header.id = MemoryId /\ Finish(Limits(buf, header.start))
  BY DEF MemorySection
<1>3. PICK k \in 1 .. Len(file.sections) : pos = EndOf(file, k - 1) /\ pos < file.cut
  BY <1>1, AtSection
<1> DEFINE s == file.sections[k]
           start == pos + 1 + s.sizeLen
<1> HIDE DEF buf
<1>4. EndOf(file, k) <= file.cut /\ header.id = s.id /\ header.start = start
  <2>1. Section(buf) = IF EndOf(file, k) <= file.cut
                       THEN Some([id |-> s.id, start |-> start, end |-> EndOf(file, k)]) ELSE None
    BY <1>1, <1>3, SectionRead DEF buf
  <2> HIDE DEF s, start
  <2>2. EndOf(file, k) <= file.cut
    BY <2>1 DEF None
  <2>3. header = [id |-> s.id, start |-> start, end |-> EndOf(file, k)]
    BY <2>1, <2>2 DEF Some
  <2>4. QED
    BY <2>2, <2>3
<1>5. /\ s \in WasmSection /\ s.id = MemoryId /\ buf \in Seq(Byte) /\ Len(buf) = file.cut
      /\ Carries(buf, EndOf(file, k - 1), EncodeSection(s))
      /\ EndOf(file, k) = EndOf(file, k - 1) + Len(EncodeSection(s))
      /\ EndOf(file, k - 1) \in Nat
  <2>1. k - 1 \in 0 .. Len(file.sections)
    BY <1>1, FileShape
  <2>2. QED
    BY <1>1, <1>2, <1>4, <2>1, FileShape, Layout DEF buf
<1> HIDE DEF s
<1>6. Carries(buf, start, s.payload)
  <2>1. pos \in Nat /\ Carries(buf, pos, EncodeSection(s))
    BY <1>3, <1>5
  <2>2. QED
    BY <1>5, <2>1, CarriesSection
<1> DEFINE len == s.sizeLen
           length == Len(s.payload)
<1>7. /\ len \in Nat /\ length \in Nat /\ Len(EncodeSection(s)) = 1 + len + length
      /\ pos \in Nat /\ start = pos + 1 + len
  BY <1>3, <1>5, SectionShape, SectionType
<1> HIDE DEF start, len, length
<1>8. start \in Nat /\ start + length <= Len(buf)
  <2>1. Len(buf) = file.cut /\ EndOf(file, k) = pos + Len(EncodeSection(s))
    BY <1>3, <1>5, Zenon
  <2>2. EndOf(file, k) = pos + (1 + len + length)
    BY <1>7, <2>1, Zenon
  <2>3. start \in Nat /\ start + length = pos + (1 + len + length)
    BY <1>7
  <2>4. start + length = EndOf(file, k)
    BY <2>2, <2>3, Zenon
  <2>5. QED
    BY <1>4, <2>1, <2>3, <2>4, Zenon
<1>9. Limits(buf, start) = IF s.limits = <<>> THEN None ELSE Some(Head(s.limits))
  BY <1>5, <1>6, <1>8, LimitsRead DEF length
<1>10. Declared(file) = IF s.limits = <<>> THEN None ELSE Some(Head(s.limits))
  BY <1>1, <1>4, <1>5, OneDeclared DEF s
<1>11. Finish(Declared(file))
  BY <1>2, <1>4, <1>9, <1>10
<1>12. QED
  BY <1>11, Finished

LEMMA SkipSectionStep ==
  ASSUME ScanInv, SkipSection
  PROVE  ScanInv' /\ pos < pos' /\ pos' <= Len(Bytes(file))
<1> DEFINE buf == Bytes(file)
<1>1. file \in Files /\ Scanning /\ out = NotYet /\ pos < Len(buf) /\ UNCHANGED <<file, out>>
  BY DEF ScanInv, SkipSection, Scanning
<1>2. PICK header \in Section(buf) : header.id # MemoryId /\ pos' = header.end
  BY DEF SkipSection
<1>3. PICK k \in 1 .. Len(file.sections) :
        /\ pos = EndOf(file, k - 1) /\ pos < file.cut
        /\ \A j \in 1 .. k - 1 : file.sections[j].id # MemoryId
  BY <1>1, AtSection
<1> DEFINE s == file.sections[k]
           start == pos + 1 + s.sizeLen
<1> HIDE DEF buf
<1>4. EndOf(file, k) <= file.cut /\ header.id = s.id /\ header.end = EndOf(file, k)
  <2>1. Section(buf) = IF EndOf(file, k) <= file.cut
                       THEN Some([id |-> s.id, start |-> start, end |-> EndOf(file, k)]) ELSE None
    BY <1>1, <1>3, SectionRead DEF buf
  <2> HIDE DEF s, start
  <2>2. EndOf(file, k) <= file.cut
    BY <2>1 DEF None
  <2>3. header = [id |-> s.id, start |-> start, end |-> EndOf(file, k)]
    BY <2>1, <2>2 DEF Some
  <2>4. QED
    BY <2>2, <2>3
<1>5. k \in 0 .. Len(file.sections) /\ k - 1 \in 0 .. Len(file.sections) /\ k - 1 < k
  BY <1>1, FileShape
<1>6. EndOf(file, k - 1) < EndOf(file, k) /\ Len(buf) = file.cut
  BY <1>1, <1>5, Increasing, Layout DEF buf
<1>7. pos < pos' /\ pos' <= Len(buf) /\ pos' = EndOf(file, k)
  BY <1>2, <1>3, <1>4, <1>6
<1>8. \A j \in 1 .. k : file.sections[j].id # MemoryId
  <2> TAKE j \in 1 .. k
  <2>1. CASE j = k
    BY <1>2, <1>4, <2>1
  <2>2. CASE j # k
    <3>1. j \in 1 .. k - 1
      BY <2>2
    <3>2. QED
      BY <1>3, <3>1
  <2>3. QED
    BY <2>1, <2>2
<1>9. DeclaredFound'
  BY <1>1 DEF DeclaredFound
<1>10. ScanInv'
  <2>1. /\ k \in 0 .. Len(file'.sections) /\ pos' = EndOf(file', k) /\ pos' <= file'.cut
        /\ \A j \in 1 .. k : file'.sections[j].id # MemoryId
    BY <1>1, <1>4, <1>5, <1>7, <1>8
  <2>2. QED
    BY <1>1, <1>9, <2>1 DEF ScanInv, InStep
<1>11. QED
  BY <1>7, <1>10 DEF buf

-----------------------------------------------------------------------------
(* Theorems                                                                *)

(* The scan stays in step with the sections of every binary, whatever the  *)
(* binary holds and wherever it is cut (module.rs:70-115).                 *)
THEOREM ScanInvariant == Spec => []ScanInv
<1>1. Init => ScanInv
  BY ScanInvInit DEF Init
<1>2. ScanInv /\ [Next]_vars => ScanInv'
  <2> SUFFICES ASSUME ScanInv, [Next]_vars
               PROVE  ScanInv'
    OBVIOUS
  <2>1. CASE ScanNext
    BY <2>1, BadPreambleStep, NoMoreSectionsStep, BadSectionStep, MemorySectionStep,
       SkipSectionStep DEF ScanNext
  <2>2. CASE UNCHANGED scanVars
    BY <2>2 DEF scanVars, ScanInv, InStep, DeclaredFound
  <2>3. QED
    BY <2>1, <2>2 DEF Next, Scan, ModuleNew, Live, vars, scanVars
<1>3. QED
  BY <1>1, <1>2, PTL DEF Spec

(* Until it returns, the scan is at the end of a section that the binary   *)
(* has in whole, with no memory section behind it (module.rs:86-99).       *)
THEOREM AlwaysInStep == Spec => []InStep
<1>1. ScanInv => InStep
  BY DEF ScanInv
<1>2. QED
  BY <1>1, ScanInvariant, PTL

(* Module::new finds the limits that the binary declares for its memory,   *)
(* exactly when it declares them before it is cut: no payload is taken for *)
(* a memory section, and sizes are read in any encoding (module.rs:73-79). *)
THEOREM DeclaredAlwaysFound == Spec => []DeclaredFound
<1>1. ScanInv => DeclaredFound
  BY DEF ScanInv
<1>2. QED
  BY <1>1, ScanInvariant, PTL

(* read_leb_u32 reads as the format says at every place of every binary    *)
(* that is scanned (module.rs:117-134).                                    *)
THEOREM NumbersAlwaysDecode == Spec => []LebDecodes
<1>1. ScanInv => LebDecodes
  <2>1. SUFFICES ASSUME file \in Files
                 PROVE  LebDecodes
    BY DEF ScanInv
  <2>2. Bytes(file) \in Seq(Byte)
    BY <2>1, Layout
  <2>3. QED
    BY <2>2, EveryBufferDecodes DEF LebDecodes
<1>2. QED
  BY <1>1, ScanInvariant, PTL

(* Of a number that overflows, the scan reads what fits (module.rs:125).   *)
THEOREM OverflowsAlwaysCut == Spec => []OverflowIsCut
<1>1. ScanInv => OverflowIsCut
  <2>1. SUFFICES ASSUME file \in Files
                 PROVE  OverflowIsCut
    BY DEF ScanInv
  <2>2. Bytes(file) \in Seq(Byte)
    BY <2>1, Layout
  <2>3. QED
    BY <2>2, EveryOverflowIsCut DEF OverflowIsCut
<1>2. QED
  BY <1>1, ScanInvariant, PTL

(* Every turn of the scan takes it forward within the binary, so that it   *)
(* can take no more turns than there are bytes (module.rs:75-99).          *)
THEOREM ScanAlwaysAdvances == Spec => ScanAdvances
<1> DEFINE Advance == out' = NotYet => pos < pos' /\ pos' <= Len(Bytes(file))
<1>1. ScanInv /\ [Next]_vars => [Advance]_scanVars
  <2> SUFFICES ASSUME ScanInv, [Next]_vars
               PROVE  [Advance]_scanVars
    OBVIOUS
  <2>1. CASE SkipSection
    BY <2>1, SkipSectionStep
  <2>2. CASE BadPreamble \/ NoMoreSections \/ BadSection \/ MemorySection
    <3>1. out' # NotYet
      BY <2>2 DEF BadPreamble, NoMoreSections, BadSection, MemorySection, Finish, NotYet
    <3>2. QED
      BY <3>1
  <2>3. CASE UNCHANGED scanVars
    BY <2>3
  <2>4. QED
    BY <2>1, <2>2, <2>3 DEF Next, Scan, ScanNext, ModuleNew, Live, vars, scanVars
<1>2. QED
  BY <1>1, ScanInvariant, PTL DEF Spec, ScanAdvances

(* What is loaded from a binary is a module as an instance is made of, with*)
(* the memory type that the scan found: a module that came from its bytes  *)
(* behaves as any module that Exports.tla loads (module.rs:43-66).         *)
THEOREM LoadedImplementsExports == Spec => LiveSpec
<1> DEFINE LiveStep == LiveNext \/ \E m \in Module : Load(m)
<1>1. Init => LiveInit
  BY DEF Init
<1>2. ScanInv /\ [Next]_vars => [LiveStep]_liveVars
  <2> SUFFICES ASSUME ScanInv, [Next]_vars
               PROVE  [LiveStep]_liveVars
    OBVIOUS
  <2>1. CASE ModuleNew
    <3>1. PICK found \in out, use \in file.use : Load(ModuleOf(file, use, found))
      BY <2>1 DEF ModuleNew
    <3>2. out = {Declared(file)} /\ file \in Files
      BY DEF ScanInv, DeclaredFound, NotYet
    <3>3. ModuleOf(file, use, found) \in Module
      BY <3>2, LoaderAssumption
    <3>4. QED
      BY <3>1, <3>3
  <2>2. CASE Live
    BY <2>2 DEF Live
  <2>3. CASE UNCHANGED liveVars
    BY <2>3
  <2>4. QED
    BY <2>1, <2>2, <2>3 DEF Next, Scan, vars
<1>3. QED
  BY <1>1, <1>2, ScanInvariant, PTL DEF Spec, LiveSpec

(* From its bytes on, an instance keeps what it promises: the handles and  *)
(* the slices are at their places (LiveInv), the size is that of Wasm      *)
(* (memory.rs:45-60), a slice is the memory (memory.rs:62-89), a global    *)
(* handle reads what its global holds (global.rs:40-83), and a lookup gives*)
(* what the binary exports under the name (instance.rs:86-135).            *)
THEOREM InstanceOfABinary ==
  Spec => [](LiveInv /\ SizeAgrees /\ ViewsExact /\ GlobalsHold /\ FoundIsExported)
BY LoadedImplementsExports, LiveInvariant, SizeAlwaysAgrees, ViewsAlwaysExact,
   GlobalsAlwaysHold, FoundAlwaysExported, PTL

(* A const global of a binary keeps its value for the life of the instance *)
(* (global.rs:61-63).                                                      *)
THEOREM ConstGlobalsOfABinaryStay == Spec => ConstStays
BY LoadedImplementsExports, ConstGlobalsStay, PTL

=============================================================================
