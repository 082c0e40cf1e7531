------------------------- MODULE ClusterQueryProofs -------------------------
(***************************************************************************)
(* Proofs about ClusterQuery for any nodes, backends, rows and queries: the *)
(* failures that nodes report arrive, an answer is the right one, and a     *)
(* push only blocks after the loop has met a node that is new.              *)
(*                                                                         *)
(* The code checks the number of parts only.  That every node has then sent *)
(* its part, and none two, needs to know which part comes from which node.  *)
(* What the parts make when they are put together, sorted, cut or added up  *)
(* is said by the lemmas before; they need induction, over sets of numbers. *)
(***************************************************************************)
EXTENDS ClusterQuery, FiniteSetTheorems, SequenceTheorems, TLAPS

-----------------------------------------------------------------------------
(* Numbers.                                                                 *)

\* A set of natural numbers has a least one.
LEMMA Least ==
  ASSUME NEW T, T \subseteq Nat, T # {}
  PROVE  \E x \in T : \A y \in T : x <= y
  <1>1. PICK x \in T : \A y \in T : ~ (<<y, x>> \in OpToRel(<, Nat))
    BY NatLessThanWellFounded, WFMin
  <1>2. \A y \in T : ~ (y < x)
    BY <1>1 DEF OpToRel
  <1> QED
    BY <1>2

\* Induction, for a set of natural numbers.
LEMMA AllNumbers ==
  ASSUME NEW T, T \subseteq Nat, 0 \in T, \A n \in T : n + 1 \in T
  PROVE  T = Nat
  <1> SUFFICES ASSUME Nat \ T # {}
               PROVE  FALSE
    OBVIOUS
  <1>1. PICK x \in Nat \ T : \A y \in Nat \ T : x <= y
    BY Least
  <1>2. x # 0 /\ x - 1 \in Nat
    BY <1>1
  <1>3. x - 1 \in T
    BY <1>1, <1>2
  <1>4. x - 1 + 1 = x
    BY <1>1
  <1> QED
    BY <1>1, <1>3, <1>4

-----------------------------------------------------------------------------
(* Accumulators.                                                            *)

\* The intermediate results of Accumulated.
Steps(f, a, vs, n) ==
  f = [i \in 0 .. n |-> IF i = 0 THEN a ELSE ApplyValue(f[i - 1], vs[i].val, vs[i].cnt)]

\* There are such results for any number of values.
LEMMA StepsExist ==
  ASSUME NEW a, NEW vs, NEW n \in Nat
  PROVE  \E f : Steps(f, a, vs, n)
  <1> DEFINE T == {m \in Nat : \E f : Steps(f, a, vs, m)}
  <1>1. 0 \in T
    <2>1. PICK f : f = [i \in 0 .. 0 |-> a]
      OBVIOUS
    <2>2. f = [i \in 0 .. 0 |-> IF i = 0 THEN a ELSE ApplyValue(f[i - 1], vs[i].val, vs[i].cnt)]
      BY <2>1
    <2> QED
      BY <2>2 DEF Steps
  <1>2. ASSUME NEW m \in T
        PROVE  m + 1 \in T
    <2>1. m \in Nat /\ m + 1 \in Nat
      OBVIOUS
    <2>2. PICK f : Steps(f, a, vs, m)
      OBVIOUS
    <2> DEFINE last == ApplyValue(f[m], vs[m + 1].val, vs[m + 1].cnt)
    <2>3. PICK g : g = [i \in 0 .. m + 1 |-> IF i <= m THEN f[i] ELSE last]
      OBVIOUS
    <2> HIDE DEF last
    <2>4. \A i \in 0 .. m : g[i] = f[i]
      BY <2>1, <2>3
    <2>5. g[m + 1] = last
      BY <2>1, <2>3
    <2>6. \A i \in 0 .. m :
            f[i] = IF i = 0 THEN a ELSE ApplyValue(f[i - 1], vs[i].val, vs[i].cnt)
      BY <2>1, <2>2 DEF Steps
    <2>7. \A i \in 0 .. m + 1 :
            g[i] = IF i = 0 THEN a ELSE ApplyValue(g[i - 1], vs[i].val, vs[i].cnt)
      <3> SUFFICES ASSUME NEW i \in 0 .. m + 1
                   PROVE  g[i] = IF i = 0 THEN a ELSE ApplyValue(g[i - 1], vs[i].val, vs[i].cnt)
        OBVIOUS
      <3>1. CASE i = m + 1
        <4>1. i # 0 /\ i - 1 = m /\ m \in 0 .. m
          BY <2>1, <3>1
        <4> QED
          BY <2>4, <2>5, <3>1, <4>1 DEF last
      <3>2. CASE i = 0
        BY <2>1, <2>4, <2>6, <3>2
      <3>3. CASE i \in 1 .. m
        <4>1. i \in 0 .. m /\ i - 1 \in 0 .. m /\ i # 0
          BY <2>1, <3>3
        <4> QED
          BY <2>4, <2>6, <4>1
      <3> QED
        BY <2>1, <3>1, <3>2, <3>3
    <2>8. g = [i \in 0 .. m + 1 |-> IF i = 0 THEN a ELSE ApplyValue(g[i - 1], vs[i].val, vs[i].cnt)]
      BY <2>3, <2>7
    <2> QED
      BY <2>1, <2>8 DEF Steps
  <1>3. T = Nat
    <2> HIDE DEF T
    <2>1. T \subseteq Nat
      BY DEF T
    <2> QED
      BY <1>1, <1>2, <2>1, AllNumbers
  <1> QED
    BY <1>3

\* Accumulated is the last of these results.
LEMMA StepsOf ==
  ASSUME NEW a, NEW vs, Len(vs) \in Nat
  PROVE  \E f : Steps(f, a, vs, Len(vs)) /\ Accumulated(a, vs) = f[Len(vs)]
  <1> DEFINE acc == CHOOSE f : Steps(f, a, vs, Len(vs))
  <1>1. Steps(acc, a, vs, Len(vs))
    BY StepsExist
  <1>2. Accumulated(a, vs) = acc[Len(vs)]
    BY DEF Accumulated, Steps
  <1> QED
    BY <1>1, <1>2

\* The first result, and every other one from the one before.
LEMMA StepsFacts ==
  ASSUME NEW a, NEW vs, NEW n \in Nat, NEW f, Steps(f, a, vs, n)
  PROVE  /\ f[0] = a
         /\ \A i \in 1 .. n : f[i] = ApplyValue(f[i - 1], vs[i].val, vs[i].cnt)
  <1>1. \A i \in 0 .. n : f[i] = IF i = 0 THEN a ELSE ApplyValue(f[i - 1], vs[i].val, vs[i].cnt)
    BY DEF Steps
  <1>2. 0 \in 0 .. n /\ \A i \in 1 .. n : i \in 0 .. n /\ i # 0
    OBVIOUS
  <1> QED
    BY <1>1, <1>2

\* No value leaves the accumulator as it is.
LEMMA AccumulatedNone ==
  ASSUME NEW a
  PROVE  Accumulated(a, << >>) = a
  <1>1. Len(<< >>) = 0
    OBVIOUS
  <1>2. PICK f : Steps(f, a, << >>, 0) /\ Accumulated(a, << >>) = f[0]
    BY <1>1, StepsOf
  <1>3. f[0] = a
    BY ONLY <1>2 DEF Steps
  <1> QED
    BY ONLY <1>2, <1>3

\* The results for the first n of n + 1 values are the same.
LEMMA StepsAgree ==
  ASSUME NEW a, NEW vs, NEW ws, NEW n \in Nat, \A i \in 1 .. n : ws[i] = vs[i],
         NEW f, Steps(f, a, vs, n), NEW g, Steps(g, a, ws, n + 1)
  PROVE  f[n] = g[n] /\ g[n + 1] = ApplyValue(g[n], ws[n + 1].val, ws[n + 1].cnt)
  <1>1. f[0] = a /\ \A i \in 1 .. n : f[i] = ApplyValue(f[i - 1], vs[i].val, vs[i].cnt)
    BY StepsFacts
  <1>2. g[0] = a /\ \A i \in 1 .. n + 1 : g[i] = ApplyValue(g[i - 1], ws[i].val, ws[i].cnt)
    BY StepsFacts
  <1> DEFINE T == {m \in Nat : m <= n => f[m] = g[m]}
  <1>3. 0 \in T
    BY <1>1, <1>2
  <1>4. ASSUME NEW m \in Nat, m \in T
        PROVE  m + 1 \in T
    <2> SUFFICES ASSUME m + 1 <= n
                 PROVE  f[m + 1] = g[m + 1]
      OBVIOUS
    <2>1. m + 1 \in 1 .. n /\ m + 1 \in 1 .. n + 1 /\ m + 1 - 1 = m /\ m <= n
      OBVIOUS
    <2>2. f[m] = g[m]
      BY <1>4, <2>1
    <2>3. f[m + 1] = ApplyValue(f[m], vs[m + 1].val, vs[m + 1].cnt)
      BY <1>1, <2>1
    <2>4. g[m + 1] = ApplyValue(g[m], ws[m + 1].val, ws[m + 1].cnt)
      BY <1>2, <2>1
    <2> QED
      BY <2>1, <2>2, <2>3, <2>4
  <1>5. T = Nat
    <2> HIDE DEF T
    <2>1. T \subseteq Nat
      BY DEF T
    <2> QED
      BY <1>3, <1>4, <2>1, AllNumbers
  <1>6. f[n] = g[n]
    BY <1>5
  <1>7. n + 1 \in 1 .. n + 1 /\ n + 1 - 1 = n
    OBVIOUS
  <1> QED
    BY <1>2, <1>6, <1>7

\* A last value is applied to what the others have made.
LEMMA AccumulatedOne ==
  ASSUME NEW a, NEW S, NEW vs \in Seq(S), NEW v \in S
  PROVE  Accumulated(a, Append(vs, v)) = ApplyValue(Accumulated(a, vs), v.val, v.cnt)
  <1>1. PICK n, ws : n = Len(vs) /\ ws = Append(vs, v)
    OBVIOUS
  <1>2. n \in Nat /\ Len(ws) = n + 1 /\ ws[n + 1] = v /\ \A i \in 1 .. n : ws[i] = vs[i]
    BY <1>1
  <1>3. PICK f : Steps(f, a, vs, Len(vs)) /\ Accumulated(a, vs) = f[Len(vs)]
    BY <1>1, <1>2, StepsOf
  <1>4. PICK g : Steps(g, a, ws, Len(ws)) /\ Accumulated(a, ws) = g[Len(ws)]
    <2>1. Len(ws) \in Nat
      BY <1>2
    <2> QED
      BY ONLY <2>1, StepsOf
  <1>5. Steps(f, a, vs, n) /\ Steps(g, a, ws, n + 1)
    BY <1>1, <1>2, <1>3, <1>4
  <1>6. f[n] = g[n] /\ g[n + 1] = ApplyValue(g[n], ws[n + 1].val, ws[n + 1].cnt)
    BY ONLY <1>2, <1>5, StepsAgree
  <1> QED
    BY <1>1, <1>2, <1>3, <1>4, <1>6

-----------------------------------------------------------------------------
(* Parts put together.                                                      *)

\* The intermediate results of FlattenSeq.
Join(s, t) == s \o t
Flats(f, ps, n) == f = [i \in 1 .. n |-> IF i = 1 THEN ps[i] ELSE Join(f[i - 1], ps[i])]

\* There are such results for any number of parts.
LEMMA FlatsExist ==
  ASSUME NEW ps, NEW n \in Nat
  PROVE  \E f : Flats(f, ps, n)
  <1> DEFINE T == {m \in Nat : \E f : Flats(f, ps, m)}
  <1>1. 0 \in T
    <2>1. PICK f : f = [i \in 1 .. 0 |-> ps[i]]
      OBVIOUS
    <2>2. f = [i \in 1 .. 0 |-> IF i = 1 THEN ps[i] ELSE Join(f[i - 1], ps[i])]
      BY <2>1
    <2> QED
      BY <2>2 DEF Flats
  <1>2. ASSUME NEW m \in Nat, m \in T
        PROVE  m + 1 \in T
    <2>1. PICK f : Flats(f, ps, m)
      BY <1>2
    <2> DEFINE last == IF m = 0 THEN ps[m + 1] ELSE Join(f[m], ps[m + 1])
    <2>2. PICK g : g = [i \in 1 .. m + 1 |-> IF i <= m THEN f[i] ELSE last]
      OBVIOUS
    <2> HIDE DEF last
    <2>3. (\A i \in 1 .. m : g[i] = f[i]) /\ g[m + 1] = last
      BY <2>2
    <2>4. \A i \in 1 .. m : f[i] = IF i = 1 THEN ps[i] ELSE Join(f[i - 1], ps[i])
      BY <2>1 DEF Flats
    <2>5. \A i \in 1 .. m + 1 : g[i] = IF i = 1 THEN ps[i] ELSE Join(g[i - 1], ps[i])
      <3> SUFFICES ASSUME NEW i \in 1 .. m + 1
                   PROVE  g[i] = IF i = 1 THEN ps[i] ELSE Join(g[i - 1], ps[i])
        OBVIOUS
      <3>1. CASE i = m + 1
        <4>1. i = 1 <=> m = 0
          BY <3>1
        <4>2. i # 1 => m \in 1 .. m /\ i - 1 = m
          BY <3>1
        <4> QED
          BY <2>3, <3>1, <4>1, <4>2 DEF last
      <3>2. CASE i = 1 /\ i \in 1 .. m
        BY <2>3, <2>4, <3>2
      <3>3. CASE i # 1 /\ i \in 1 .. m
        <4>1. i - 1 \in 1 .. m
          BY <3>3
        <4> QED
          BY <2>3, <2>4, <3>3, <4>1
      <3> QED
        BY <3>1, <3>2, <3>3
    <2>6. g = [i \in 1 .. m + 1 |-> IF i = 1 THEN ps[i] ELSE Join(g[i - 1], ps[i])]
      BY <2>2, <2>5
    <2> QED
      BY <2>6 DEF Flats
  <1>3. T = Nat
    <2> HIDE DEF T
    <2>1. T \subseteq Nat
      BY DEF T
    <2> QED
      BY <1>1, <1>2, <2>1, AllNumbers
  <1> QED
    BY <1>3

\* FlattenSeq gives the last of these results.
LEMMA FlatsOf ==
  ASSUME NEW ps, Len(ps) \in Nat, Len(ps) # 0
  PROVE  \E f : Flats(f, ps, Len(ps)) /\ FlattenSeq(ps) = f[Len(ps)]
  <1> DEFINE flatten == CHOOSE f : Flats(f, ps, Len(ps))
  <1>1. Flats(flatten, ps, Len(ps))
    BY FlatsExist
  <1>2. FlattenSeq(ps) = flatten[Len(ps)]
    BY DEF FlattenSeq, Flats, Join
  <1> QED
    BY <1>1, <1>2

\* The first result, and every other one from the one before.
LEMMA FlatsFacts ==
  ASSUME NEW ps, NEW n \in Nat, n # 0, NEW f, Flats(f, ps, n)
  PROVE  f[1] = ps[1] /\ \A i \in 1 .. n : i # 1 => f[i] = Join(f[i - 1], ps[i])
  <1>1. \A i \in 1 .. n : f[i] = IF i = 1 THEN ps[i] ELSE Join(f[i - 1], ps[i])
    BY DEF Flats
  <1>2. 1 \in 1 .. n
    OBVIOUS
  <1> QED
    BY <1>1, <1>2

\* The first n parts are the same.
SameParts(qs, ps, n) == \A i \in 1 .. n : qs[i] = ps[i]

\* The results for the first n of n + 1 parts are the same.
LEMMA FlatsAgree ==
  ASSUME NEW ps, NEW qs, NEW n \in Nat, n # 0, SameParts(qs, ps, n),
         NEW f, Flats(f, ps, n), NEW k, k = n + 1, NEW g, Flats(g, qs, k)
  PROVE  f[n] = g[n] /\ g[k] = Join(g[n], qs[k])
  <1>1. f[1] = ps[1] /\ \A i \in 1 .. n : i # 1 => f[i] = Join(f[i - 1], ps[i])
    BY FlatsFacts
  <1>2. g[1] = qs[1] /\ \A i \in 1 .. n + 1 : i # 1 => g[i] = Join(g[i - 1], qs[i])
    BY FlatsFacts
  <1> DEFINE T == {m \in Nat : m + 1 <= n => f[m + 1] = g[m + 1]}
  <1>3. 0 \in T
    <2>1. 1 \in 1 .. n
      OBVIOUS
    <2> QED
      BY <1>1, <1>2, <2>1 DEF SameParts
  <1>4. ASSUME NEW m \in Nat, m \in T
        PROVE  m + 1 \in T
    <2> SUFFICES ASSUME m + 2 <= n
                 PROVE  f[m + 2] = g[m + 2]
      OBVIOUS
    <2>1. /\ m + 2 \in 1 .. n /\ m + 2 \in 1 .. n + 1 /\ m + 2 - 1 = m + 1 /\ m + 1 <= n
          /\ m + 2 # 1
      OBVIOUS
    <2>2. f[m + 1] = g[m + 1]
      BY <1>4, <2>1
    <2>3. f[m + 2] = Join(f[m + 1], ps[m + 2])
      BY <1>1, <2>1
    <2>4. g[m + 2] = Join(g[m + 1], qs[m + 2])
      BY <1>2, <2>1
    <2> QED
      BY <2>1, <2>2, <2>3, <2>4 DEF SameParts
  <1>5. T = Nat
    <2> HIDE DEF T
    <2>1. T \subseteq Nat
      BY DEF T
    <2> QED
      BY <1>3, <1>4, <2>1, AllNumbers
  <1>6. f[n] = g[n]
    <2>1. n - 1 \in Nat /\ n - 1 + 1 = n /\ n <= n
      OBVIOUS
    <2>2. n - 1 \in T
      BY <1>5, <2>1
    <2> QED
      BY <2>1, <2>2
  <1>7. n + 1 \in 1 .. n + 1 /\ n + 1 - 1 = n /\ n + 1 # 1
    OBVIOUS
  <1> QED
    BY <1>2, <1>6, <1>7

\* A last part comes after all others.
LEMMA FlattenOne ==
  ASSUME NEW S, NEW ps \in Seq(Seq(S)), NEW p \in Seq(S)
  PROVE  FlattenSeq(Append(ps, p)) = FlattenSeq(ps) \o p
  <1>1. PICK n, qs : n = Len(ps) /\ qs = Append(ps, p)
    OBVIOUS
  <1>2. n \in Nat /\ Len(qs) = n + 1 /\ qs[n + 1] = p /\ \A i \in 1 .. n : qs[i] = ps[i]
    BY <1>1
  <1>3. PICK g : Flats(g, qs, Len(qs)) /\ FlattenSeq(qs) = g[Len(qs)]
    <2>1. Len(qs) \in Nat /\ Len(qs) # 0
      BY <1>2
    <2> QED
      BY ONLY <2>1, FlatsOf
  <1>4. CASE n = 0
    <2>1. ps = << >> /\ FlattenSeq(ps) = << >>
      <3>1. ps = << >> /\ Len(ps) = 0
        BY <1>1, <1>4, EmptySeq
      <3>2. FlattenSeq(ps) = ps
        BY ONLY <3>1 DEF FlattenSeq
      <3> QED
        BY <3>1, <3>2
    <2>2. g[1] = qs[1] /\ Len(qs) = 1 /\ qs[1] = p
      <3>1. Len(qs) \in Nat /\ Len(qs) # 0
        BY <1>2
      <3>2. g[1] = qs[1]
        BY ONLY <1>3, <3>1, FlatsFacts
      <3> QED
        BY <1>2, <1>4, <3>2
    <2>3. << >> \o p = p
      OBVIOUS
    <2> QED
      BY <1>1, <1>3, <2>1, <2>2, <2>3
  <1>5. CASE n # 0
    <2>1. PICK f : Flats(f, ps, Len(ps)) /\ FlattenSeq(ps) = f[Len(ps)]
      BY <1>1, <1>2, <1>5, FlatsOf
    <2>2. PICK k : k = n + 1 /\ Flats(f, ps, n) /\ Flats(g, qs, k)
      BY <1>1, <1>2, <1>3, <2>1
    <2>3. f[n] = g[n] /\ g[k] = Join(g[n], qs[k])
      <3>1. n \in Nat /\ n # 0 /\ SameParts(qs, ps, n)
        BY ONLY <1>2, <1>5 DEF SameParts
      <3> QED
        BY ONLY <2>2, <3>1, FlatsAgree
    <2> QED
      BY <1>1, <1>2, <1>3, <2>1, <2>2, <2>3 DEF Join
  <1> QED
    BY <1>4, <1>5

\* A value that is at one place at most of all parts, and of one sequence.
OnceIn(r, ps) ==
  \A i, j \in 1 .. Len(ps) : \A k \in 1 .. Len(ps[i]), l \in 1 .. Len(ps[j]) :
    ps[i][k] = r /\ ps[j][l] = r => i = j /\ k = l
Once(r, s) == \A p, q \in 1 .. Len(s) : s[p] = r /\ s[q] = r => p = q

\* What FlattenSeq makes of parts: the values of all of them, and none twice that they have once.
Flat(ps, all, S) ==
  /\ all \in Seq(S)
  /\ \A i \in 1 .. Len(ps) : \A k \in 1 .. Len(ps[i]) : \E p \in 1 .. Len(all) : all[p] = ps[i][k]
  /\ \A p \in 1 .. Len(all) : \E i \in 1 .. Len(ps) : \E k \in 1 .. Len(ps[i]) : all[p] = ps[i][k]
  /\ \A r : OnceIn(r, ps) => Once(r, all)

\* One part more.
LEMMA FlatAppend ==
  ASSUME NEW S, NEW ps \in Seq(Seq(S)), NEW p \in Seq(S), NEW all, Flat(ps, all, S)
  PROVE  Flat(Append(ps, p), all \o p, S)
  <1>1. PICK n, m, qs, two : n = Len(ps) /\ m = Len(all) /\ qs = Append(ps, p) /\ two = all \o p
    OBVIOUS
  <1>2. /\ n \in Nat /\ Len(qs) = n + 1 /\ qs[n + 1] = p
        /\ \A i \in 1 .. n : qs[i] = ps[i]
    BY <1>1
  <1>3. all \in Seq(S) /\ m \in Nat /\ Len(p) \in Nat
    BY <1>1 DEF Flat
  <1>4. /\ two \in Seq(S) /\ Len(two) = m + Len(p)
        /\ \A i \in 1 .. m : two[i] = all[i]
        /\ \A i \in 1 .. Len(p) : two[m + i] = p[i]
    BY <1>1, <1>3
  <1>5. /\ \A i \in 1 .. n : \A k \in 1 .. Len(ps[i]) : \E x \in 1 .. m : all[x] = ps[i][k]
        /\ \A x \in 1 .. m : \E i \in 1 .. n : \E k \in 1 .. Len(ps[i]) : all[x] = ps[i][k]
        /\ \A r : OnceIn(r, ps) => Once(r, all)
    BY <1>1 DEF Flat
  <1>6. /\ \A i \in 1 .. n + 1 : i \in 1 .. n \/ i = n + 1
        /\ \A i \in 1 .. n : i \in 1 .. n + 1 /\ i # n + 1
        /\ n + 1 \in 1 .. n + 1
        /\ \A x \in 1 .. m : x \in 1 .. m + Len(p)
        /\ \A k \in 1 .. Len(p) : m + k \in 1 .. m + Len(p)
    BY <1>2, <1>3
  <1>7. \A x \in 1 .. m + Len(p) : x \in 1 .. m \/ \E k \in 1 .. Len(p) : x = m + k
    <2> SUFFICES ASSUME NEW x \in 1 .. m + Len(p), x \notin 1 .. m
                 PROVE  \E k \in 1 .. Len(p) : x = m + k
      OBVIOUS
    <2>1. x - m \in 1 .. Len(p) /\ x = m + (x - m)
      BY <1>3
    <2> QED
      BY <2>1
  <1>8. ASSUME NEW i \in 1 .. n + 1, NEW k \in 1 .. Len(qs[i])
        PROVE  \E x \in 1 .. m + Len(p) : two[x] = qs[i][k]
    <2>1. CASE i = n + 1
      <3>1. k \in 1 .. Len(p) /\ qs[i][k] = p[k]
        BY <1>2, <1>8, <2>1
      <3> QED
        BY <1>4, <1>6, <3>1
    <2>2. CASE i \in 1 .. n
      <3>1. qs[i] = ps[i] /\ k \in 1 .. Len(ps[i])
        BY <1>2, <1>8, <2>2
      <3>2. PICK x \in 1 .. m : all[x] = ps[i][k]
        BY <1>5, <2>2, <3>1
      <3>3. two[x] = all[x] /\ x \in 1 .. m + Len(p)
        BY <1>4, <1>6
      <3> QED
        BY <3>1, <3>2, <3>3
    <2> QED
      BY <1>6, <2>1, <2>2
  <1>9. ASSUME NEW x \in 1 .. m + Len(p)
        PROVE  \E i \in 1 .. n + 1 : \E k \in 1 .. Len(qs[i]) : two[x] = qs[i][k]
    <2>1. CASE x \in 1 .. m
      <3>1. PICK i \in 1 .. n : \E k \in 1 .. Len(ps[i]) : all[x] = ps[i][k]
        BY <1>5, <2>1
      <3>2. two[x] = all[x] /\ qs[i] = ps[i] /\ i \in 1 .. n + 1
        BY <1>2, <1>4, <1>6, <2>1
      <3> QED
        BY <3>1, <3>2
    <2>2. CASE x \notin 1 .. m
      <3>1. PICK k \in 1 .. Len(p) : x = m + k
        BY <1>7, <2>2
      <3>2. two[x] = p[k]
        BY <1>4, <3>1
      <3> QED
        BY <1>2, <1>6, <3>1, <3>2
    <2> QED
      BY <2>1, <2>2
  <1>10. ASSUME NEW r, OnceIn(r, qs)
         PROVE  Once(r, two)
    <2>1. \A i, j \in 1 .. n + 1 : \A k \in 1 .. Len(qs[i]), l \in 1 .. Len(qs[j]) :
            qs[i][k] = r /\ qs[j][l] = r => i = j /\ k = l
      BY <1>2, <1>10 DEF OnceIn
    <2>2. OnceIn(r, ps)
      <3> SUFFICES ASSUME NEW i \in 1 .. n, NEW j \in 1 .. n,
                          NEW k \in 1 .. Len(ps[i]), NEW l \in 1 .. Len(ps[j]),
                          ps[i][k] = r, ps[j][l] = r
                   PROVE  i = j /\ k = l
        BY <1>1 DEF OnceIn
      <3>1. i \in 1 .. n + 1 /\ j \in 1 .. n + 1 /\ qs[i] = ps[i] /\ qs[j] = ps[j]
        BY <1>2, <1>6
      <3> QED
        BY <2>1, <3>1
    <2>3. \A x, y \in 1 .. m : all[x] = r /\ all[y] = r => x = y
      BY <1>1, <1>5, <2>2 DEF Once
    <2>4. \A k, l \in 1 .. Len(p) : p[k] = r /\ p[l] = r => k = l
      BY <1>2, <1>6, <2>1
    <2>5. \A x \in 1 .. m, k \in 1 .. Len(p) : ~ (all[x] = r /\ p[k] = r)
      <3> SUFFICES ASSUME NEW x \in 1 .. m, NEW k \in 1 .. Len(p), all[x] = r, p[k] = r
                   PROVE  FALSE
        OBVIOUS
      <3>1. PICK i \in 1 .. n : \E l \in 1 .. Len(ps[i]) : all[x] = ps[i][l]
        BY <1>5
      <3>2. i \in 1 .. n + 1 /\ qs[i] = ps[i] /\ i # n + 1
        BY <1>2, <1>6
      <3>3. PICK l \in 1 .. Len(qs[i]) : qs[i][l] = r
        BY <3>1, <3>2
      <3>4. n + 1 \in 1 .. n + 1 /\ k \in 1 .. Len(qs[n + 1]) /\ qs[n + 1][k] = r
        BY <1>2, <1>6
      <3> QED
        BY ONLY <2>1, <3>2, <3>3, <3>4, Zenon
    <2> SUFFICES ASSUME NEW x \in 1 .. m + Len(p), NEW y \in 1 .. m + Len(p), two[x] = r, two[y] = r
                 PROVE  x = y
      BY <1>4 DEF Once
    <2>6. CASE x \in 1 .. m /\ y \in 1 .. m
      BY <1>4, <2>3, <2>6
    <2>7. CASE x \notin 1 .. m /\ y \notin 1 .. m
      <3>1. PICK k \in 1 .. Len(p), l \in 1 .. Len(p) : x = m + k /\ y = m + l
        BY <1>7, <2>7
      <3> QED
        BY <1>4, <2>4, <3>1
    <2>8. CASE x \in 1 .. m /\ y \notin 1 .. m
      <3>1. PICK l \in 1 .. Len(p) : y = m + l
        BY <1>7, <2>8
      <3> QED
        BY <1>4, <2>5, <2>8, <3>1
    <2>9. CASE x \notin 1 .. m /\ y \in 1 .. m
      <3>1. PICK k \in 1 .. Len(p) : x = m + k
        BY <1>7, <2>9
      <3> QED
        BY <1>4, <2>5, <2>9, <3>1
    <2> QED
      BY <2>6, <2>7, <2>8, <2>9
  <1>11. Len(qs) = n + 1 /\ Len(two) = m + Len(p) /\ two \in Seq(S)
    BY <1>2, <1>4
  <1>12. ASSUME NEW i \in 1 .. Len(qs), NEW k \in 1 .. Len(qs[i])
         PROVE  \E x \in 1 .. Len(two) : two[x] = qs[i][k]
    <2>1. i \in 1 .. n + 1
      BY ONLY <1>11, <1>12
    <2>2. PICK x \in 1 .. m + Len(p) : two[x] = qs[i][k]
      BY ONLY <1>8, <1>12, <2>1, Zenon
    <2> QED
      BY ONLY <1>11, <2>2
  <1>13. ASSUME NEW x \in 1 .. Len(two)
         PROVE  \E i \in 1 .. Len(qs) : \E k \in 1 .. Len(qs[i]) : two[x] = qs[i][k]
    <2>1. x \in 1 .. m + Len(p)
      BY ONLY <1>11, <1>13
    <2>2. PICK i \in 1 .. n + 1 : \E k \in 1 .. Len(qs[i]) : two[x] = qs[i][k]
      BY ONLY <1>9, <2>1, Zenon
    <2>3. i \in 1 .. Len(qs)
      BY ONLY <1>11, <2>2
    <2> QED
      BY ONLY <2>2, <2>3, Zenon
  <1>14. Flat(qs, two, S)
    BY ONLY <1>10, <1>11, <1>12, <1>13, Zenon DEF Flat
  <1> QED
    BY <1>1, <1>14

\* FlattenSeq of any parts.
LEMMA Flattened ==
  ASSUME NEW S, NEW ps \in Seq(Seq(S))
  PROVE  Flat(ps, FlattenSeq(ps), S)
  <1> DEFINE T == {n \in Nat : \A qs \in Seq(Seq(S)) : Len(qs) = n => Flat(qs, FlattenSeq(qs), S)}
  <1>1. 0 \in T
    <2> SUFFICES ASSUME NEW qs \in Seq(Seq(S)), Len(qs) = 0
                 PROVE  Flat(qs, FlattenSeq(qs), S)
      OBVIOUS
    <2>1. qs = << >>
      BY EmptySeq
    <2>2. FlattenSeq(qs) = << >> /\ Len(qs) = 0 /\ Len(<< >>) = 0
      BY ONLY <2>1 DEF FlattenSeq
    <2>3. << >> \in Seq(S) /\ 1 .. 0 = {}
      OBVIOUS
    <2> QED
      BY <2>2, <2>3 DEF Flat, Once
  <1>2. ASSUME NEW n \in Nat, n \in T
        PROVE  n + 1 \in T
    <2> SUFFICES ASSUME NEW qs \in Seq(Seq(S)), Len(qs) = n + 1
                 PROVE  Flat(qs, FlattenSeq(qs), S)
      OBVIOUS
    <2>1. PICK rs \in Seq(Seq(S)), p \in Seq(S) : qs = Append(rs, p)
      <3>1. qs # << >>
        OBVIOUS
      <3> QED
        BY <3>1, SequenceEmptyOrAppend
    <2>2. Len(rs) = n
      BY <2>1
    <2>3. Flat(rs, FlattenSeq(rs), S)
      BY <1>2, <2>2
    <2> QED
      BY <2>1, <2>3, FlatAppend, FlattenOne
  <1>3. T = Nat
    <2> HIDE DEF T
    <2>1. T \subseteq Nat
      BY DEF T
    <2> QED
      BY <1>1, <1>2, <2>1, AllNumbers
  <1>4. Len(ps) \in Nat
    OBVIOUS
  <1> QED
    BY <1>3, <1>4

\* The numbers of k parts.
LEMMA CountNumbers ==
  ASSUME NEW k \in Nat
  PROVE  Cardinality(1 .. k) = k /\ IsFiniteSet(1 .. k)
  <1>1. Cardinality(1 .. k) = (IF 1 > k THEN 0 ELSE k - 1 + 1) /\ IsFiniteSet(1 .. k)
    BY ONLY FS_Interval, SMT
  <1>2. (IF 1 > k THEN 0 ELSE k - 1 + 1) = k
    OBVIOUS
  <1> QED
    BY ONLY <1>1, <1>2

-----------------------------------------------------------------------------
(* Sorting.                                                                 *)

\* What the elements of s are compared by are numbers.
Keyed(c, s) == \A i \in 1 .. Len(s) : Key(c, s[i]) \in Int

\* A place is one of the sequence.
LEMMA PlaceBounded ==
  ASSUME NEW c, NEW s \in Seq(Int), Keyed(c, s), NEW i \in 1 .. Len(s)
  PROVE  Place(c, s, i) \in 1 .. Len(s)
  <1> DEFINE B == {j \in DOMAIN s : \/ Key(c, s[j]) < Key(c, s[i])
                                    \/ Key(c, s[j]) = Key(c, s[i]) /\ j <= i}
  <1>1. Place(c, s, i) = Cardinality(B)
    BY DEF Place
  <1>2. Len(s) \in Nat /\ Cardinality(1 .. Len(s)) = Len(s) /\ IsFiniteSet(1 .. Len(s))
    BY CountNumbers
  <1>3. i \in B /\ B \subseteq 1 .. Len(s)
    OBVIOUS
  <1> HIDE DEF B
  <1>4. IsFiniteSet(B) /\ Cardinality(B) <= Len(s)
    BY <1>2, <1>3, FS_Subset
  <1>5. Cardinality(B) \in Nat /\ Cardinality(B) # 0
    BY <1>3, <1>4, FS_CardinalityType, FS_EmptySet
  <1> QED
    BY <1>1, <1>2, <1>4, <1>5

\* A greater element, or a later one with the same key, has a later place.
LEMMA PlaceGrows ==
  ASSUME NEW c, NEW s \in Seq(Int), Keyed(c, s), NEW i \in 1 .. Len(s), NEW j \in 1 .. Len(s),
         Key(c, s[i]) < Key(c, s[j]) \/ (Key(c, s[i]) = Key(c, s[j]) /\ i < j)
  PROVE  Place(c, s, i) < Place(c, s, j)
  <1>1. PICK f : f = [k \in 1 .. Len(s) |-> Key(c, s[k])]
    OBVIOUS
  <1>2. Len(s) \in Nat /\ DOMAIN s = 1 .. Len(s) /\ \A k \in 1 .. Len(s) : f[k] = Key(c, s[k])
    BY <1>1
  <1>3. \A k \in 1 .. Len(s) : f[k] \in Int
    BY <1>2 DEF Keyed
  <1> DEFINE B == {k \in 1 .. Len(s) : f[k] < f[i] \/ (f[k] = f[i] /\ k <= i)}
             C == {k \in 1 .. Len(s) : f[k] < f[j] \/ (f[k] = f[j] /\ k <= j)}
  <1>4. Place(c, s, i) = Cardinality(B) /\ Place(c, s, j) = Cardinality(C)
    <2>1. B = {k \in DOMAIN s : \/ Key(c, s[k]) < Key(c, s[i])
                                \/ Key(c, s[k]) = Key(c, s[i]) /\ k <= i}
      BY <1>2
    <2>2. C = {k \in DOMAIN s : \/ Key(c, s[k]) < Key(c, s[j])
                                \/ Key(c, s[k]) = Key(c, s[j]) /\ k <= j}
      BY <1>2
    <2> QED
      BY <2>1, <2>2 DEF Place
  <1>5. f[i] < f[j] \/ (f[i] = f[j] /\ i < j)
    BY <1>2
  <1>6. B \subseteq C
    BY ONLY <1>2, <1>3, <1>5, i \in 1 .. Len(s), j \in 1 .. Len(s)
  <1>7. j \in C /\ j \notin B /\ C \subseteq 1 .. Len(s)
    BY ONLY <1>2, <1>3, <1>5, i \in 1 .. Len(s), j \in 1 .. Len(s)
  <1> HIDE DEF B, C
  <1>8. IsFiniteSet(C)
    BY <1>2, <1>7, FS_Subset, CountNumbers
  <1>9. /\ Cardinality(B) \in Nat /\ Cardinality(C) \in Nat
        /\ Cardinality(B) <= Cardinality(C) /\ (Cardinality(B) = Cardinality(C) => B = C)
    BY <1>6, <1>8, FS_Subset, FS_CardinalityType
  <1> QED
    BY <1>4, <1>7, <1>9

\* Places are different, and in the order of the keys.
LEMMA PlaceOrders ==
  ASSUME NEW c, NEW s \in Seq(Int), Keyed(c, s), NEW i \in 1 .. Len(s), NEW j \in 1 .. Len(s)
  PROVE  /\ Place(c, s, i) = Place(c, s, j) => i = j
         /\ Place(c, s, i) <= Place(c, s, j) => Key(c, s[i]) <= Key(c, s[j])
  <1>1. Place(c, s, i) \in 1 .. Len(s) /\ Place(c, s, j) \in 1 .. Len(s)
    BY PlaceBounded
  <1>2. /\ Key(c, s[i]) \in Int /\ Key(c, s[j]) \in Int
        /\ Place(c, s, i) \in Nat /\ Place(c, s, j) \in Nat
    BY <1>1 DEF Keyed
  <1>3. CASE Key(c, s[i]) < Key(c, s[j]) \/ (Key(c, s[i]) = Key(c, s[j]) /\ i < j)
    BY <1>2, <1>3, PlaceGrows
  <1>4. CASE Key(c, s[j]) < Key(c, s[i]) \/ (Key(c, s[j]) = Key(c, s[i]) /\ j < i)
    BY <1>2, <1>4, PlaceGrows
  <1> QED
    BY <1>2, <1>3, <1>4

\* A sequence that has the values of s, each at another place.
Permutes(h, t, s) ==
  /\ h \in [1 .. Len(s) -> 1 .. Len(s)]
  /\ \A k \in 1 .. Len(s) : t[k] = s[h[k]]
  /\ \A k, l \in 1 .. Len(s) : h[k] = h[l] => k = l
  /\ \A i \in 1 .. Len(s) : \E k \in 1 .. Len(s) : h[k] = i

\* Sorted gives a sequence in the order of the keys that has the same values.
LEMMA SortedFacts ==
  ASSUME NEW c, NEW s \in Seq(Int), Keyed(c, s)
  PROVE  /\ Sorted(c, s) \in Seq(Int) /\ Len(Sorted(c, s)) = Len(s)
         /\ \A k, l \in 1 .. Len(s) : k < l => Key(c, Sorted(c, s)[k]) <= Key(c, Sorted(c, s)[l])
         /\ \E h : Permutes(h, Sorted(c, s), s)
  <1>1. PICK n : n = Len(s) /\ n \in Nat
    OBVIOUS
  <1>2. PICK f : f = [i \in 1 .. n |-> Place(c, s, i)]
    OBVIOUS
  <1>3. f \in [1 .. n -> 1 .. n] /\ \A i \in 1 .. n : f[i] = Place(c, s, i)
    BY <1>1, <1>2, PlaceBounded
  <1>4. \A i, j \in 1 .. n : f[i] = f[j] => i = j
    BY <1>1, <1>3, PlaceOrders
  <1>5. f \in Injection(1 .. n, 1 .. n)
    BY <1>3, <1>4 DEF Injection, IsInjective
  <1>6. f \in Surjection(1 .. n, 1 .. n)
    BY <1>1, <1>5, CountNumbers, FS_Injection
  <1>7. \A k \in 1 .. n : \E i \in 1 .. n : Place(c, s, i) = k
    BY <1>3, <1>6 DEF Surjection
  <1>8. PICK h : h = [k \in 1 .. n |-> CHOOSE i \in 1 .. n : Place(c, s, i) = k]
    OBVIOUS
  <1>9. \A k \in 1 .. n : h[k] \in 1 .. n /\ Place(c, s, h[k]) = k
    BY <1>7, <1>8
  <1>10. h \in [1 .. n -> 1 .. n]
    BY <1>8, <1>9
  <1>11. DOMAIN s = 1 .. n
    BY <1>1
  <1>12. Sorted(c, s) = [k \in 1 .. n |-> s[h[k]]]
    BY <1>8, <1>11 DEF Sorted
  <1>13. \A k \in 1 .. n : Sorted(c, s)[k] = s[h[k]] /\ s[h[k]] \in Int
    BY <1>1, <1>9, <1>12
  <1>14. Sorted(c, s) \in Seq(Int) /\ Len(Sorted(c, s)) = n
    BY <1>1, <1>12, <1>13
  <1>15. \A k, l \in 1 .. n : k < l => Key(c, Sorted(c, s)[k]) <= Key(c, Sorted(c, s)[l])
    <2> SUFFICES ASSUME NEW k \in 1 .. n, NEW l \in 1 .. n, k < l
                 PROVE  Key(c, s[h[k]]) <= Key(c, s[h[l]])
      BY <1>13
    <2>1. Place(c, s, h[k]) <= Place(c, s, h[l])
      BY <1>1, <1>9
    <2> QED
      BY <1>1, <1>9, <2>1, PlaceOrders
  <1>16. \A k, l \in 1 .. n : h[k] = h[l] => k = l
    BY <1>9
  <1>17. \A i \in 1 .. n : \E k \in 1 .. n : h[k] = i
    <2> SUFFICES ASSUME NEW i \in 1 .. n
                 PROVE  \E k \in 1 .. n : h[k] = i
      OBVIOUS
    <2>1. Place(c, s, i) \in 1 .. n
      BY <1>3
    <2>2. h[Place(c, s, i)] \in 1 .. n /\ Place(c, s, h[Place(c, s, i)]) = Place(c, s, i)
      BY <1>9, <2>1
    <2>3. h[Place(c, s, i)] = i
      BY <1>1, <2>2, PlaceOrders
    <2> QED
      BY <2>1, <2>3
  <1>18. Permutes(h, Sorted(c, s), s)
    BY <1>1, <1>10, <1>13, <1>16, <1>17 DEF Permutes
  <1> QED
    BY <1>1, <1>14, <1>15, <1>18

\* By the first column: the numbers themselves are in order.
LEMMA SortedFirst ==
  ASSUME NEW c, c # "other", NEW s \in Seq(Int)
  PROVE  /\ Keyed(c, s)
         /\ \A k, l \in 1 .. Len(s) : k < l => Sorted(c, s)[k] <= Sorted(c, s)[l]
  <1>1. \A r : Key(c, r) = r
    BY DEF Key
  <1>2. Keyed(c, s)
    BY <1>1 DEF Keyed
  <1>3. \A k, l \in 1 .. Len(s) : k < l => Key(c, Sorted(c, s)[k]) <= Key(c, Sorted(c, s)[l])
    BY <1>2, SortedFacts
  <1> QED
    BY <1>1, <1>2, <1>3

-----------------------------------------------------------------------------
(* Rows in order.                                                           *)

\* The sequence w has the numbers of W, each once and in order.
Lists(w, W) ==
  /\ w \in Seq(Int)
  /\ \A i, j \in 1 .. Len(w) : i < j => w[i] < w[j]
  /\ \A i \in 1 .. Len(w) : w[i] \in W
  /\ \A x \in W : \E i \in 1 .. Len(w) : w[i] = x

\* The sequence s has the numbers of S, each once.
Enumerates(s, S) ==
  /\ s \in Seq(Int)
  /\ \A i \in 1 .. Len(s) : s[i] \in S
  /\ \A x \in S : \E i \in 1 .. Len(s) : s[i] = x
  /\ \A i, j \in 1 .. Len(s) : s[i] = s[j] => i = j

\* Sorting a sequence without duplicates.
LEMMA SortedLists ==
  ASSUME NEW c, c # "other", NEW s, NEW W, Enumerates(s, W)
  PROVE  Lists(Sorted(c, s), W)
  <1>1. s \in Seq(Int)
    BY DEF Enumerates
  <1>2. /\ Sorted(c, s) \in Seq(Int) /\ Len(Sorted(c, s)) = Len(s)
        /\ \A k, l \in 1 .. Len(s) : k < l => Sorted(c, s)[k] <= Sorted(c, s)[l]
    BY <1>1, SortedFacts, SortedFirst
  <1>3. PICK h : Permutes(h, Sorted(c, s), s)
    BY <1>1, SortedFacts, SortedFirst
  <1>4. PICK t, n : t = Sorted(c, s) /\ n = Len(s) /\ n \in Nat
    BY <1>1
  <1>5. /\ \A k \in 1 .. n : h[k] \in 1 .. n /\ t[k] = s[h[k]]
        /\ \A k, l \in 1 .. n : h[k] = h[l] => k = l
        /\ \A i \in 1 .. n : \E k \in 1 .. n : h[k] = i
    BY <1>3, <1>4 DEF Permutes
  <1>6. t \in Seq(Int) /\ Len(t) = n /\ (\A k, l \in 1 .. n : k < l => t[k] <= t[l])
          /\ \A k \in 1 .. n : t[k] \in Int
    BY <1>2, <1>4
  <1>7. /\ \A i, j \in 1 .. n : s[i] = s[j] => i = j
        /\ \A i \in 1 .. n : s[i] \in W
        /\ \A x \in W : \E i \in 1 .. n : s[i] = x
    BY <1>4 DEF Enumerates
  <1>8. \A k, l \in 1 .. n : k < l => t[k] # t[l]
    <2>1. ASSUME NEW k \in 1 .. n, NEW l \in 1 .. n, t[k] = t[l]
          PROVE  k = l
      <3>1. h[k] \in 1 .. n /\ h[l] \in 1 .. n /\ s[h[k]] = s[h[l]]
        BY ONLY <1>5, <2>1, Zenon
      <3>2. h[k] = h[l]
        BY ONLY <1>7, <3>1, Zenon
      <3> QED
        BY ONLY <1>5, <3>2, Zenon
    <2> QED
      BY ONLY <1>4, <2>1
  <1>9. \A k, l \in 1 .. n : k < l => t[k] < t[l]
    BY <1>6, <1>8
  <1>10. \A k \in 1 .. n : t[k] \in W
    <2> SUFFICES ASSUME NEW k \in 1 .. n
                 PROVE  t[k] \in W
      OBVIOUS
    <2>1. h[k] \in 1 .. n /\ t[k] = s[h[k]]
      BY ONLY <1>5, Zenon
    <2>2. s[h[k]] \in W
      BY ONLY <1>7, <2>1, Zenon
    <2> QED
      BY ONLY <2>1, <2>2, Zenon
  <1>11. \A x \in W : \E k \in 1 .. n : t[k] = x
    <2> SUFFICES ASSUME NEW x \in W
                 PROVE  \E k \in 1 .. n : t[k] = x
      OBVIOUS
    <2>1. PICK i \in 1 .. n : s[i] = x
      BY ONLY <1>7, Zenon
    <2>2. PICK k \in 1 .. n : h[k] = i
      BY ONLY <1>5, Zenon
    <2>3. t[k] = s[h[k]]
      BY ONLY <1>5, Zenon
    <2> QED
      BY ONLY <2>1, <2>2, <2>3, Zenon
  <1>12. Lists(t, W)
    BY <1>6, <1>9, <1>10, <1>11 DEF Lists
  <1> QED
    BY <1>4, <1>12

\* What SetToSeq makes of a finite set.
LEMMA SetToSeqFacts ==
  ASSUME NEW S, IsFiniteSet(S), S \subseteq Int, NEW s, s = SetToSeq(S)
  PROVE  Enumerates(s, S)
  <1>1. PICK n : n = Cardinality(S)
    OBVIOUS
  <1>2. n \in Nat /\ ExistsBijection(1 .. n, S)
    BY <1>1, FS_CardinalityType
  <1>3. \E f \in [1 .. n -> S] : IsInjective(f)
    BY <1>2 DEF ExistsBijection, Bijection, Injection
  <1>4. s \in [1 .. n -> S] /\ IsInjective(s)
    BY <1>1, <1>3 DEF SetToSeq
  <1>5. s \in Injection(1 .. n, S)
    BY <1>4 DEF Injection
  <1>6. s \in Surjection(1 .. n, S)
    BY <1>1, <1>2, <1>5, CountNumbers, FS_Injection
  <1>7. s \in Seq(Int) /\ Len(s) = n /\ DOMAIN s = 1 .. n
    <2>1. s \in [1 .. n -> Int]
      BY <1>4
    <2> QED
      BY <1>2, <2>1
  <1>8. \A x \in S : \E i \in 1 .. n : s[i] = x
    BY <1>6 DEF Surjection
  <1>9. \A i, j \in 1 .. n : s[i] = s[j] => i = j
    BY <1>4, <1>7 DEF IsInjective
  <1>10. \A i \in 1 .. n : s[i] \in S
    BY <1>4
  <1> QED
    BY <1>7, <1>8, <1>9, <1>10 DEF Enumerates

\* A finite set in order.
LEMMA OrderedSet ==
  ASSUME NEW c, c # "other", NEW S, IsFiniteSet(S), S \subseteq Int
  PROVE  Lists(InOrder(c, S), S)
  <1>1. PICK s : s = SetToSeq(S)
    OBVIOUS
  <1>2. Enumerates(s, S)
    BY <1>1, SetToSeqFacts
  <1>3. Lists(Sorted(c, s), S)
    BY ONLY <1>2, SortedLists, c # "other"
  <1> QED
    BY <1>1, <1>3 DEF InOrder

\* A finite set in the order of any key.
LEMMA ArrangedSet ==
  ASSUME NEW c, NEW S, IsFiniteSet(S), S \subseteq Int, \A x \in S : Key(c, x) \in Int
  PROVE  Enumerates(InOrder(c, S), S)
  <1>1. PICK s : s = SetToSeq(S)
    OBVIOUS
  <1>2. Enumerates(s, S)
    BY <1>1, SetToSeqFacts
  <1>3. s \in Seq(Int) /\ Keyed(c, s)
    BY <1>2 DEF Enumerates, Keyed
  <1>4. PICK t, n : t = Sorted(c, s) /\ n = Len(s)
    OBVIOUS
  <1>5. t \in Seq(Int) /\ Len(t) = n
    BY <1>3, <1>4, SortedFacts
  <1>6. PICK h : Permutes(h, t, s)
    BY <1>3, <1>4, SortedFacts
  <1>7. /\ \A k \in 1 .. n : h[k] \in 1 .. n /\ t[k] = s[h[k]]
        /\ \A k, l \in 1 .. n : h[k] = h[l] => k = l
        /\ \A i \in 1 .. n : \E k \in 1 .. n : h[k] = i
    BY <1>4, <1>6 DEF Permutes
  <1>8. /\ \A i \in 1 .. n : s[i] \in S
        /\ \A x \in S : \E i \in 1 .. n : s[i] = x
        /\ \A i, j \in 1 .. n : s[i] = s[j] => i = j
    BY <1>2, <1>4 DEF Enumerates
  <1>9. \A k \in 1 .. n : t[k] \in S
    BY ONLY <1>7, <1>8
  <1>10. ASSUME NEW x \in S
         PROVE  \E k \in 1 .. n : t[k] = x
    <2>1. PICK i \in 1 .. n : s[i] = x
      BY ONLY <1>8, Zenon
    <2>2. PICK k \in 1 .. n : h[k] = i
      BY ONLY <1>7, Zenon
    <2>3. t[k] = s[h[k]]
      BY ONLY <1>7, Zenon
    <2> QED
      BY ONLY <2>1, <2>2, <2>3, Zenon
  <1>11. ASSUME NEW k \in 1 .. n, NEW l \in 1 .. n, t[k] = t[l]
         PROVE  k = l
    <2>1. h[k] \in 1 .. n /\ h[l] \in 1 .. n /\ s[h[k]] = s[h[l]]
      BY ONLY <1>7, <1>11, Zenon
    <2>2. h[k] = h[l]
      BY ONLY <1>8, <2>1, Zenon
    <2> QED
      BY ONLY <1>7, <2>2, Zenon
  <1>12. Enumerates(t, S)
    BY <1>5, <1>9, <1>10, <1>11 DEF Enumerates
  <1> QED
    BY <1>1, <1>4, <1>12 DEF InOrder

\* What a smaller list has stands no later in it.
LEMMA NotLater ==
  ASSUME NEW A, NEW a, Lists(a, A), NEW W, NEW w, Lists(w, W), A \subseteq W,
         NEW k \in 1 .. Len(a), NEW i \in 1 .. Len(w), a[k] = w[i]
  PROVE  k <= i
  <1>1. /\ Len(a) \in Nat /\ Len(w) \in Nat
        /\ \A m \in 1 .. Len(a) : a[m] \in W /\ a[m] \in Int
        /\ \A m, l \in 1 .. Len(a) : m < l => a[m] < a[l]
        /\ \A m, l \in 1 .. Len(w) : m < l => w[m] < w[l]
        /\ \A x \in W : \E m \in 1 .. Len(w) : w[m] = x
        /\ \A m \in 1 .. Len(w) : w[m] \in Int
    <2>1. \A m \in 1 .. Len(a) : a[m] \in A
      BY DEF Lists
    <2>2. a \in Seq(Int) /\ w \in Seq(Int)
      BY DEF Lists
    <2>3. /\ Len(a) \in Nat /\ Len(w) \in Nat
          /\ \A m \in 1 .. Len(a) : a[m] \in W /\ a[m] \in Int
          /\ \A m \in 1 .. Len(w) : w[m] \in Int
      BY <2>1, <2>2
    <2> QED
      BY <2>3 DEF Lists
  <1> DEFINE T == {m \in Nat : m \in 1 .. Len(a) /\ \E l \in 1 .. Len(w) : a[m] = w[l] /\ l < m}
  <1> SUFFICES ASSUME ~ (k <= i)
               PROVE  FALSE
    OBVIOUS
  <1>2. PICK m \in T : \A y \in T : m <= y
    <2>1. k \in Nat /\ i \in Nat
      BY <1>1
    <2>2. k \in T
      BY ONLY <2>1, k \in 1 .. Len(a), i \in 1 .. Len(w), a[k] = w[i], ~ (k <= i)
    <2>3. T \subseteq Nat
      OBVIOUS
    <2> HIDE DEF T
    <2> QED
      BY <2>2, <2>3, Least
  <1>3. PICK l \in 1 .. Len(w) : a[m] = w[l] /\ l < m
    OBVIOUS
  <1>4. m \in 1 .. Len(a) /\ m - 1 \in 1 .. Len(a) /\ m - 1 < m
    BY <1>1, <1>3
  <1>5. PICK j \in 1 .. Len(w) : w[j] = a[m - 1]
    BY <1>1, <1>4
  <1>6. w[j] < w[l]
    BY <1>1, <1>3, <1>4, <1>5
  <1>7. j < l
    <2>1. j \in Int /\ l \in Int /\ w[j] \in Int /\ w[l] \in Int
      BY <1>1
    <2>2. l < j => w[l] < w[j]
      BY <1>1
    <2>3. j # l
      BY <1>6, <2>1
    <2> QED
      BY ONLY <1>6, <2>1, <2>2, <2>3
  <1>8. j < m - 1
    BY <1>1, <1>3, <1>4, <1>7
  <1>9. m - 1 \in T
    BY <1>1, <1>4, <1>5, <1>8
  <1>10. m <= m - 1
    BY <1>2, <1>9
  <1> QED
    BY ONLY <1>1, <1>4, <1>10

\* A part of a list that has its first n numbers begins with them.
LEMMA SamePrefix ==
  ASSUME NEW A, NEW a, Lists(a, A), NEW W, NEW w, Lists(w, W), A \subseteq W,
         NEW n \in Nat, n <= Len(w), \A i \in 1 .. n : w[i] \in A
  PROVE  n <= Len(a) /\ \A i \in 1 .. n : a[i] = w[i]
  <1>1. /\ Len(a) \in Nat /\ Len(w) \in Nat
        /\ \A m \in 1 .. Len(a) : a[m] \in W /\ a[m] \in Int
        /\ \A m, l \in 1 .. Len(a) : m < l => a[m] < a[l]
        /\ \A m, l \in 1 .. Len(w) : m < l => w[m] < w[l]
        /\ \A x \in W : \E m \in 1 .. Len(w) : w[m] = x
        /\ \A x \in A : \E m \in 1 .. Len(a) : a[m] = x
        /\ \A m \in 1 .. Len(w) : w[m] \in Int
    BY DEF Lists
  <1> DEFINE T == {i \in Nat : i \in 1 .. n /\ ~ (i \in 1 .. Len(a) /\ a[i] = w[i])}
  <1>2. ASSUME T # {}
        PROVE  FALSE
    <2>1. PICK i \in T : \A y \in T : i <= y
      BY <1>2, Least
    <2>2. i \in 1 .. n /\ i \in 1 .. Len(w) /\ i \in Nat
      BY <1>1
    <2>3. \A j \in 1 .. i - 1 : j \in 1 .. Len(a) /\ a[j] = w[j]
      <3> SUFFICES ASSUME NEW j \in 1 .. i - 1, ~ (j \in 1 .. Len(a) /\ a[j] = w[j])
                   PROVE  FALSE
        OBVIOUS
      <3>1. j \in T
        BY <2>2
      <3>2. i <= j
        BY <2>1, <3>1
      <3> QED
        BY <2>2, <3>2
    <2>4. PICK k \in 1 .. Len(a) : a[k] = w[i]
      BY <1>1, <2>2
    <2>5. ~ (k < i)
      <3> SUFFICES ASSUME k < i
                   PROVE  FALSE
        OBVIOUS
      <3>1. k \in 1 .. i - 1 /\ k \in 1 .. Len(w)
        BY <1>1, <2>2
      <3>2. a[k] = w[k] /\ w[k] < w[i] /\ w[k] \in Int
        BY <1>1, <2>2, <2>3, <3>1
      <3> QED
        BY <2>4, <3>2
    <2>6. i \in 1 .. Len(a)
      BY <1>1, <2>2, <2>5
    <2>7. PICK m \in 1 .. Len(w) : w[m] = a[i]
      BY <1>1, <2>6
    <2>8. ~ (m < i)
      <3> SUFFICES ASSUME m < i
                   PROVE  FALSE
        OBVIOUS
      <3>1. m \in 1 .. i - 1 /\ m \in 1 .. Len(a)
        BY <1>1, <2>2, <2>3
      <3>2. a[m] = w[m] /\ a[m] < a[i] /\ a[m] \in Int
        BY <1>1, <2>3, <2>6, <3>1
      <3> QED
        BY <2>7, <3>2
    <2>9. w[i] <= w[m]
      BY <1>1, <2>2, <2>8
    <2>10. a[i] <= a[k]
      BY <1>1, <2>5, <2>6
    <2>11. a[i] = w[i]
      <3>1. a[i] \in Int /\ w[i] \in Int
        BY <1>1, <2>2, <2>6
      <3> QED
        BY <2>4, <2>7, <2>9, <2>10, <3>1
    <2> QED
      BY <2>6, <2>11
  <1>3. \A i \in 1 .. n : i \in 1 .. Len(a) /\ a[i] = w[i]
    BY <1>2
  <1>4. n = 0 \/ n \in 1 .. n
    OBVIOUS
  <1> QED
    BY <1>1, <1>3, <1>4

\* There is one list of a set only.
LEMMA SameList ==
  ASSUME NEW W, NEW a, Lists(a, W), NEW w, Lists(w, W)
  PROVE  a = w
  <1>1. a \in Seq(Int) /\ w \in Seq(Int) /\ Len(a) \in Nat /\ Len(w) \in Nat
    BY DEF Lists
  <1>2. Len(w) <= Len(a) /\ \A i \in 1 .. Len(w) : a[i] = w[i]
    <2>1. PICK n : n = Len(w) /\ n \in Nat /\ n <= Len(w)
      BY <1>1
    <2>2. \A i \in 1 .. n : w[i] \in W
      BY <2>1 DEF Lists
    <2>3. n <= Len(a) /\ \A i \in 1 .. n : a[i] = w[i]
      BY ONLY <2>1, <2>2, SamePrefix, Lists(a, W), Lists(w, W)
    <2> QED
      BY <2>1, <2>3
  <1>3. Len(a) <= Len(w)
    <2>1. \A i \in 1 .. Len(a) : a[i] \in W
      BY DEF Lists
    <2> QED
      BY ONLY <1>1, <2>1, SamePrefix, Lists(a, W), Lists(w, W)
  <1>4. Len(a) = Len(w)
    BY <1>1, <1>2, <1>3
  <1> QED
    BY <1>1, <1>2, <1>4, SeqEqual

\* The greatest number comes last.
LEMMA GreatestLast ==
  ASSUME NEW S, IsFiniteSet(S), S \subseteq Int, NEW x \in Int, \A y \in S : y < x
  PROVE  InOrder("first", S \cup {x}) = Append(InOrder("first", S), x)
  <1>1. PICK w, v : w = InOrder("first", S) /\ v = Append(w, x)
    OBVIOUS
  <1>2. Lists(w, S)
    BY <1>1, OrderedSet
  <1>3. PICK n : n = Len(w)
    OBVIOUS
  <1>4. /\ w \in Seq(Int) /\ n \in Nat
        /\ \A i, j \in 1 .. n : i < j => w[i] < w[j]
        /\ \A i \in 1 .. n : w[i] \in S
        /\ \A y \in S : \E i \in 1 .. n : w[i] = y
    BY <1>2, <1>3 DEF Lists
  <1>5. /\ v \in Seq(Int) /\ Len(v) = n + 1 /\ v[n + 1] = x
        /\ \A i \in 1 .. n : v[i] = w[i]
    BY <1>1, <1>3, <1>4
  <1>6. /\ \A i \in 1 .. n + 1 : i \in 1 .. n \/ i = n + 1
        /\ \A i \in 1 .. n : i \in 1 .. n + 1
        /\ n + 1 \in 1 .. n + 1
    BY <1>4
  <1>7. \A i, j \in 1 .. n + 1 : i < j => v[i] < v[j]
    <2> SUFFICES ASSUME NEW i \in 1 .. n + 1, NEW j \in 1 .. n + 1, i < j
                 PROVE  v[i] < v[j]
      OBVIOUS
    <2>1. i \in 1 .. n
      BY <1>4
    <2>2. v[i] = w[i] /\ w[i] \in S
      BY <1>4, <1>5, <2>1
    <2>3. CASE j \in 1 .. n
      <3>1. w[i] < w[j] /\ v[j] = w[j]
        BY <1>4, <1>5, <2>1, <2>3
      <3> QED
        BY <2>2, <3>1
    <2>4. CASE j = n + 1
      BY <1>5, <2>2, <2>4
    <2> QED
      BY <1>6, <2>3, <2>4
  <1>8. \A i \in 1 .. n + 1 : v[i] \in S \cup {x}
    BY <1>4, <1>5, <1>6
  <1>9. \A y \in S \cup {x} : \E i \in 1 .. n + 1 : v[i] = y
    BY <1>4, <1>5, <1>6
  <1>10. Lists(v, S \cup {x})
    BY <1>5, <1>7, <1>8, <1>9 DEF Lists
  <1>11. Lists(InOrder("first", S \cup {x}), S \cup {x})
    <2>1. IsFiniteSet(S \cup {x}) /\ S \cup {x} \subseteq Int
      BY FS_AddElement
    <2> QED
      BY <2>1, OrderedSet
  <1> QED
    BY <1>1, <1>10, <1>11, SameList

-----------------------------------------------------------------------------
(* The limit.                                                               *)

\* The smaller of two numbers.
Smaller(m, n) == IF m <= n THEN m ELSE n

\* Without an offset, what is left is a prefix as long as the limit allows.
LEMMA CutFacts ==
  ASSUME NEW S, NEW s \in Seq(S), NEW limit \in Int
  PROVE  LET c == Cut(s, 0, limit) IN
         /\ c \in Seq(S) /\ Len(c) <= Len(s)
         /\ \A i \in 1 .. Len(c) : c[i] = s[i]
         /\ limit < 0 => c = s
         /\ limit >= 0 => Len(c) = Smaller(limit, Len(s))
  <1>1. Len(s) \in Nat /\ 0 + 1 = 1
    OBVIOUS
  <1>2. SubSeq(s, 0 + 1, Len(s)) = s
    BY <1>1, SubSeqFull
  <1>3. PICK c : c = Cut(s, 0, limit)
    OBVIOUS
  <1>4. CASE limit < 0
    <2>1. c = s
      BY <1>2, <1>3, <1>4 DEF Cut
    <2> QED
      BY <1>3, <1>4, <2>1
  <1>5. CASE ~ (limit < 0)
    <2>1. Min({limit, Len(s)}) = Smaller(limit, Len(s)) /\ Smaller(limit, Len(s)) \in 0 .. Len(s)
      BY <1>1, <1>5 DEF Min, Smaller
    <2>2. PICK m : m = Smaller(limit, Len(s))
      OBVIOUS
    <2>3. c = SubSeq(s, 1, m) /\ m \in 0 .. Len(s)
      BY <1>2, <1>3, <1>5, <2>1, <2>2 DEF Cut
    <2>4. c \in Seq(S) /\ Len(c) = m /\ \A i \in 1 .. m : c[i] = s[i]
      BY <1>1, <2>3
    <2> QED
      BY <1>1, <1>3, <1>5, <2>2, <2>3, <2>4
  <1> QED
    BY <1>4, <1>5

\* A smaller list that still has the first numbers of a list is cut to the same.
LEMMA SameCut ==
  ASSUME NEW A, NEW a, Lists(a, A), NEW W, NEW w, Lists(w, W), A \subseteq W,
         NEW limit \in Nat, \A i \in 1 .. Len(w) : i <= limit => w[i] \in A
  PROVE  Smaller(limit, Len(a)) = Smaller(limit, Len(w)) /\ Cut(a, 0, limit) = Cut(w, 0, limit)
  <1>1. a \in Seq(Int) /\ w \in Seq(Int) /\ Len(a) \in Nat /\ Len(w) \in Nat
    BY DEF Lists
  <1>2. PICK n : n = Smaller(limit, Len(w)) /\ n \in Nat /\ n <= limit /\ n <= Len(w)
                   /\ (n < limit => n = Len(w))
    <2>1. PICK l : l = Len(w) /\ l \in Nat
      BY <1>1
    <2>2. \E n : n = Smaller(limit, l) /\ n \in Nat /\ n <= limit /\ n <= l /\ (n < limit => n = l)
      BY ONLY <2>1, limit \in Nat DEF Smaller
    <2> QED
      BY ONLY <2>1, <2>2, Zenon
  <1>3. \A i \in 1 .. n : w[i] \in A
    BY <1>1, <1>2
  <1>4. n <= Len(a) /\ \A i \in 1 .. n : a[i] = w[i]
    BY ONLY <1>2, <1>3, SamePrefix, Lists(a, A), Lists(w, W), A \subseteq W
  <1>5. Len(w) < limit => Len(a) <= Len(w)
    <2> SUFFICES ASSUME Len(w) < limit
                 PROVE  Len(a) <= Len(w)
      OBVIOUS
    <2>1. n = Len(w)
      BY <1>1, <1>2 DEF Smaller
    <2>2. W \subseteq A
      <3> SUFFICES ASSUME NEW x \in W
                   PROVE  x \in A
        OBVIOUS
      <3>1. PICK i \in 1 .. Len(w) : w[i] = x
        BY DEF Lists
      <3> QED
        BY <1>3, <2>1, <3>1
    <2>3. \A i \in 1 .. Len(a) : a[i] \in W
      BY DEF Lists
    <2> QED
      BY ONLY <1>1, <2>2, <2>3, SamePrefix, Lists(a, A), Lists(w, W)
  <1>6. Smaller(limit, Len(a)) = n
    BY <1>1, <1>2, <1>4, <1>5 DEF Smaller
  <1>7. PICK c, d : c = Cut(a, 0, limit) /\ d = Cut(w, 0, limit)
    OBVIOUS
  <1>8. /\ c \in Seq(Int) /\ Len(c) = n /\ (\A i \in 1 .. n : c[i] = a[i])
        /\ d \in Seq(Int) /\ Len(d) = n /\ (\A i \in 1 .. n : d[i] = w[i])
    <2>1. limit \in Int /\ limit >= 0
      OBVIOUS
    <2>2. /\ c \in Seq(Int) /\ Len(c) = Smaller(limit, Len(a))
          /\ \A i \in 1 .. Len(c) : c[i] = a[i]
      BY ONLY <1>1, <1>7, <2>1, CutFacts
    <2>3. /\ d \in Seq(Int) /\ Len(d) = Smaller(limit, Len(w))
          /\ \A i \in 1 .. Len(d) : d[i] = w[i]
      BY ONLY <1>1, <1>7, <2>1, CutFacts
    <2> QED
      BY <1>2, <1>6, <2>2, <2>3
  <1>9. c = d
    BY <1>4, <1>8, SeqEqual
  <1> QED
    BY <1>2, <1>6, <1>7, <1>9

-----------------------------------------------------------------------------
(* Stats over a set of rows.                                                *)

\* The types of stats whose parts can be merged, and an accumulator of one of them.
Kinds == {"counter", "sum", "avg", "max"}
IsAcc(a, t) ==
  /\ a = [stats |-> t, val |-> a.val, cnt |-> a.cnt]
  /\ a.val \in Int /\ a.cnt \in Nat /\ (t = "max" => a.val >= 0)

\* The value x of an accumulator after the value v of n rows.
Combined(t, x, v, n) ==
  IF t = "counter" THEN x + n ELSE IF t = "max" THEN (IF x < v THEN v ELSE x) ELSE x + v

\* ApplyValue on an accumulator.
LEMMA Applied ==
  ASSUME NEW t \in Kinds, NEW a, IsAcc(a, t), NEW v \in Int, NEW n \in Nat
  PROVE  /\ ApplyValue(a, v, n) =
              [stats |-> t, val |-> Combined(t, a.val, v, n), cnt |-> a.cnt + n]
         /\ IsAcc(ApplyValue(a, v, n), t)
  <1>1. PICK x, c : x = a.val /\ c = a.cnt
    OBVIOUS
  <1>2. a = [stats |-> t, val |-> x, cnt |-> c] /\ x \in Int /\ c \in Nat /\ (t = "max" => x >= 0)
    BY <1>1 DEF IsAcc
  <1>3. ApplyValue(a, v, n) = [stats |-> t, val |-> Combined(t, x, v, n), cnt |-> c + n]
    <2>1. a.stats = t /\ a.val = x /\ a.cnt = c
      BY <1>2
    <2>2. PICK new : new = CASE a.stats = "counter"       -> a.val + n
               [] a.stats \in {"avg", "sum"} -> a.val + v
               [] a.stats = "min" -> IF a.val > v \/ a.val = -1 THEN v ELSE a.val
               [] a.stats = "max" -> IF a.val < v THEN v ELSE a.val
      OBVIOUS
    <2>3. ApplyValue(a, v, n) = [a EXCEPT !.val = new, !.cnt = @ + n]
      BY <2>2 DEF ApplyValue
    <2>4. [a EXCEPT !.val = new, !.cnt = @ + n] = [stats |-> t, val |-> new, cnt |-> c + n]
      <3>1. PICK r : r = [stats |-> t, val |-> x, cnt |-> c]
        OBVIOUS
      <3>2. [r EXCEPT !.val = new, !.cnt = c + n] = [stats |-> t, val |-> new, cnt |-> c + n]
        <4>1. PICK q : q = [r EXCEPT !.val = new, !.cnt = c + n]
          OBVIOUS
        <4>2. q.stats = t /\ q.val = new /\ q.cnt = c + n /\ DOMAIN q = {"stats", "val", "cnt"}
          BY ONLY <3>1, <4>1
        <4>3. q = [f \in {"stats", "val", "cnt"} |-> q[f]]
          BY ONLY <3>1, <4>1, <4>2
        <4> QED
          BY ONLY <4>1, <4>2, <4>3
      <3>3. [a EXCEPT !.val = new, !.cnt = @ + n] = [a EXCEPT !.val = new, !.cnt = c + n]
        BY <2>1
      <3> QED
        BY <1>2, <3>1, <3>2, <3>3
    <2>5. new = Combined(t, x, v, n)
      BY <2>1, <2>2 DEF Kinds, Combined
    <2> QED
      BY <2>3, <2>4, <2>5
  <1>4. Combined(t, x, v, n) \in Int /\ (t = "max" => Combined(t, x, v, n) >= 0) /\ c + n \in Nat
    BY <1>2 DEF Combined
  <1> QED
    BY <1>1, <1>3, <1>4 DEF IsAcc

\* The order of two values does not matter.
LEMMA AppliedTwice ==
  ASSUME NEW t \in Kinds, NEW a, IsAcc(a, t), NEW v \in Int, NEW w \in Int,
         NEW n \in Nat, NEW m \in Nat
  PROVE  ApplyValue(ApplyValue(a, v, n), w, m) = ApplyValue(ApplyValue(a, w, m), v, n)
  <1>1. PICK b, c : b = ApplyValue(a, v, n) /\ c = ApplyValue(a, w, m)
    OBVIOUS
  <1>2. /\ b = [stats |-> t, val |-> Combined(t, a.val, v, n), cnt |-> a.cnt + n] /\ IsAcc(b, t)
        /\ c = [stats |-> t, val |-> Combined(t, a.val, w, m), cnt |-> a.cnt + m] /\ IsAcc(c, t)
    BY <1>1, Applied
  <1>3. /\ b.val = Combined(t, a.val, v, n) /\ b.cnt = a.cnt + n
        /\ c.val = Combined(t, a.val, w, m) /\ c.cnt = a.cnt + m
    BY <1>2
  <1>4. /\ ApplyValue(b, w, m) = [stats |-> t, val |-> Combined(t, b.val, w, m), cnt |-> b.cnt + m]
        /\ ApplyValue(c, v, n) = [stats |-> t, val |-> Combined(t, c.val, v, n), cnt |-> c.cnt + n]
    BY <1>2, Applied
  <1>5. a.val \in Int /\ a.cnt \in Nat
    BY DEF IsAcc
  <1>6. b.cnt + m = c.cnt + n
    BY <1>3, <1>5
  <1>7. Combined(t, b.val, w, m) = Combined(t, c.val, v, n)
    BY <1>3, <1>5 DEF Combined
  <1> QED
    BY <1>1, <1>4, <1>6, <1>7

\* An accumulator that is merged into another one, with one value more.
LEMMA MergedOne ==
  ASSUME NEW t \in Kinds, NEW a, IsAcc(a, t), NEW b, IsAcc(b, t), NEW v \in Int
  PROVE  LET c == ApplyValue(b, v, 1)
         IN  ApplyValue(a, c.val, c.cnt) = ApplyValue(ApplyValue(a, b.val, b.cnt), v, 1)
  <1>1. PICK c, d : c = ApplyValue(b, v, 1) /\ d = ApplyValue(a, b.val, b.cnt)
    OBVIOUS
  <1>2. a.val \in Int /\ a.cnt \in Nat /\ b.val \in Int /\ b.cnt \in Nat
    BY DEF IsAcc
  <1>3. /\ c = [stats |-> t, val |-> Combined(t, b.val, v, 1), cnt |-> b.cnt + 1] /\ IsAcc(c, t)
        /\ d = [stats |-> t, val |-> Combined(t, a.val, b.val, b.cnt), cnt |-> a.cnt + b.cnt]
        /\ IsAcc(d, t)
    BY <1>1, <1>2, Applied
  <1>4. /\ c.val = Combined(t, b.val, v, 1) /\ c.cnt = b.cnt + 1
        /\ d.val = Combined(t, a.val, b.val, b.cnt) /\ d.cnt = a.cnt + b.cnt
    BY <1>3
  <1>5. c.val \in Int /\ c.cnt \in Nat
    BY <1>3 DEF IsAcc
  <1>6. /\ ApplyValue(a, c.val, c.cnt) =
             [stats |-> t, val |-> Combined(t, a.val, c.val, c.cnt), cnt |-> a.cnt + c.cnt]
        /\ ApplyValue(d, v, 1) = [stats |-> t, val |-> Combined(t, d.val, v, 1), cnt |-> d.cnt + 1]
    <2>1. ApplyValue(a, c.val, c.cnt) =
            [stats |-> t, val |-> Combined(t, a.val, c.val, c.cnt), cnt |-> a.cnt + c.cnt]
      BY <1>5, Applied
    <2>2. ApplyValue(d, v, 1) = [stats |-> t, val |-> Combined(t, d.val, v, 1), cnt |-> d.cnt + 1]
      BY <1>3, Applied
    <2> QED
      BY <2>1, <2>2
  <1>7. a.cnt + c.cnt = d.cnt + 1
    BY <1>2, <1>4
  <1>8. Combined(t, a.val, c.val, c.cnt) = Combined(t, d.val, v, 1)
    BY <1>2, <1>4 DEF Combined
  <1> QED
    BY <1>1, <1>6, <1>7, <1>8

\* The accumulator of no row.
Empty(t) == [stats |-> t, val |-> 0, cnt |-> 0]

\* Merging it changes nothing.
LEMMA MergedEmpty ==
  ASSUME NEW t \in Kinds, NEW a, IsAcc(a, t)
  PROVE  ApplyValue(a, Empty(t).val, Empty(t).cnt) = a
  <1>1. Empty(t).val = 0 /\ Empty(t).cnt = 0
    BY DEF Empty
  <1>2. ApplyValue(a, 0, 0) = [stats |-> t, val |-> Combined(t, a.val, 0, 0), cnt |-> a.cnt + 0]
    BY Applied
  <1>3. Combined(t, a.val, 0, 0) = a.val /\ a.cnt + 0 = a.cnt
    BY DEF IsAcc, Combined
  <1> QED
    BY <1>1, <1>2, <1>3 DEF IsAcc

\* The accumulator of type t over the rows S.
StatOver(t, S) == Accumulated(Empty(t), Single(InOrder("first", S)))

\* The sets of n numbers, for induction.
FiniteInts(n) == {S \in SUBSET Int : IsFiniteSet(S) /\ Cardinality(S) = n}

\* The greatest number of a finite set, and the others.
LEMMA Greatest ==
  ASSUME NEW n \in Nat, NEW S \in FiniteInts(n + 1)
  PROVE  \E m \in S : /\ S \ {m} \in FiniteInts(n) /\ S = (S \ {m}) \cup {m}
                      /\ \A y \in S \ {m} : y < m
  <1>1. S \subseteq Int /\ IsFiniteSet(S) /\ Cardinality(S) = n + 1
    BY DEF FiniteInts
  <1>2. PICK w : Lists(w, S)
    <2>1. Lists(InOrder("first", S), S)
      BY <1>1, OrderedSet
    <2> QED
      BY <2>1
  <1>3. w \in Seq(Int) /\ Len(w) \in Nat
    BY <1>2 DEF Lists
  <1>4. S # {}
    BY <1>1, FS_EmptySet
  <1>5. PICK k : k = Len(w) /\ k \in 1 .. Len(w)
    BY <1>2, <1>3, <1>4 DEF Lists
  <1>6. PICK m : m = w[k] /\ m \in S
    BY <1>2, <1>5 DEF Lists
  <1>7. \A y \in S \ {m} : y < m
    <2> SUFFICES ASSUME NEW y \in S \ {m}
                 PROVE  y < m
      OBVIOUS
    <2>1. PICK i \in 1 .. Len(w) : w[i] = y
      BY <1>2 DEF Lists
    <2>2. i < k
      BY <1>3, <1>5, <1>6, <2>1
    <2> QED
      BY <1>2, <1>5, <1>6, <2>1, <2>2 DEF Lists
  <1>8. IsFiniteSet(S \ {m}) /\ Cardinality(S \ {m}) = n
    <2>1. IsFiniteSet(S \ {m}) /\ Cardinality(S \ {m}) = Cardinality(S) - 1
      BY ONLY <1>1, <1>6, FS_RemoveElement, Zenon
    <2> QED
      BY ONLY <1>1, <2>1
  <1>9. S \ {m} \in FiniteInts(n) /\ S = (S \ {m}) \cup {m}
    BY <1>1, <1>6, <1>8 DEF FiniteInts
  <1> QED
    BY <1>6, <1>7, <1>9

\* No rows.
LEMMA StatOverNone ==
  ASSUME NEW t
  PROVE  StatOver(t, {}) = Empty(t)
  <1>1. Lists(<< >>, {}) /\ Lists(InOrder("first", {}), {})
    <2>1. << >> \in Seq(Int) /\ Len(<< >>) = 0 /\ 1 .. 0 = {}
      OBVIOUS
    <2> QED
      BY <2>1, FS_EmptySet, OrderedSet DEF Lists
  <1>2. InOrder("first", {}) = << >>
    BY <1>1, SameList
  <1>3. Single(<< >>) = << >>
    BY DEF Single
  <1> QED
    BY <1>2, <1>3, AccumulatedNone DEF StatOver

\* One row more, that comes last.
LEMMA StatOverGreatest ==
  ASSUME NEW t, NEW S, S \subseteq Int, IsFiniteSet(S), NEW m \in Int, \A y \in S : y < m
  PROVE  StatOver(t, S \cup {m}) = ApplyValue(StatOver(t, S), m, 1)
  <1>1. PICK w, v : w = InOrder("first", S) /\ v = InOrder("first", S \cup {m})
    OBVIOUS
  <1>2. w \in Seq(Int) /\ v = Append(w, m)
    BY <1>1, OrderedSet, GreatestLast DEF Lists
  <1>3. PICK one : one = [val |-> m, cnt |-> 1]
    OBVIOUS
  <1> DEFINE R == [val : Int, cnt : Nat]
  <1>4. Single(w) \in Seq(R) /\ Len(Single(w)) = Len(w) /\ one \in R
    <2>1. Single(w) = [i \in 1 .. Len(w) |-> [val |-> w[i], cnt |-> 1]] /\ Len(w) \in Nat
      BY <1>2 DEF Single
    <2>2. \A i \in 1 .. Len(w) : [val |-> w[i], cnt |-> 1] \in R
      BY <1>2
    <2>3. Single(w) \in [1 .. Len(w) -> R]
      BY <2>1, <2>2
    <2> HIDE DEF R
    <2>4. Single(w) \in Seq(R) /\ Len(Single(w)) = Len(w)
      BY <2>1, <2>3
    <2> QED
      BY <1>3, <2>4 DEF R
  <1>5. Single(v) = Append(Single(w), one)
    <2>1. /\ DOMAIN v = 1 .. Len(w) + 1 /\ v[Len(w) + 1] = m /\ DOMAIN w = 1 .. Len(w)
          /\ Len(w) \in Nat /\ \A i \in 1 .. Len(w) : v[i] = w[i]
      BY <1>2
    <2>2. /\ Single(v) = [i \in 1 .. Len(w) + 1 |-> [val |-> v[i], cnt |-> 1]]
          /\ Single(w) = [i \in 1 .. Len(w) |-> [val |-> w[i], cnt |-> 1]]
      BY <2>1 DEF Single
    <2>3. Single(v) \in Seq(R) /\ Len(Single(v)) = Len(w) + 1
      <3>1. v \in Seq(Int) /\ Len(v) = Len(w) + 1
        BY <1>2
      <3> QED
        BY <3>1 DEF Single
    <2>4. PICK a, b : a = Single(v) /\ b = Append(Single(w), one)
      OBVIOUS
    <2>5. b \in Seq(R) /\ Len(b) = Len(w) + 1
      BY <1>4, <2>4
    <2>6. \A i \in 1 .. Len(w) + 1 : a[i] = b[i]
      <3> SUFFICES ASSUME NEW i \in 1 .. Len(w) + 1
                   PROVE  a[i] = b[i]
        OBVIOUS
      <3>1. a[i] = [val |-> v[i], cnt |-> 1]
        BY <2>2, <2>4
      <3>2. CASE i = Len(w) + 1
        BY <1>3, <1>4, <2>1, <2>4, <3>1, <3>2
      <3>3. CASE i \in 1 .. Len(w)
        <4>1. b[i] = Single(w)[i]
          BY <1>4, <2>4, <3>3
        <4>2. Single(w)[i] = [val |-> w[i], cnt |-> 1]
          BY <2>2, <3>3
        <4> QED
          BY <2>1, <3>1, <3>3, <4>1, <4>2
      <3> QED
        BY <2>1, <3>2, <3>3
    <2>7. a = b
      BY ONLY <2>3, <2>4, <2>5, <2>6, SeqEqual
    <2> QED
      BY <2>4, <2>7
  <1>6. Accumulated(Empty(t), Append(Single(w), one)) =
          ApplyValue(Accumulated(Empty(t), Single(w)), one.val, one.cnt)
    BY ONLY <1>4, AccumulatedOne
  <1> QED
    BY <1>1, <1>3, <1>5, <1>6 DEF StatOver

\* What comes of any rows is an accumulator.
LEMMA StatOverType ==
  ASSUME NEW t \in Kinds, NEW S, S \subseteq Int, IsFiniteSet(S)
  PROVE  IsAcc(StatOver(t, S), t)
  <1> DEFINE T == {n \in Nat : \A R \in FiniteInts(n) : IsAcc(StatOver(t, R), t)}
  <1>1. 0 \in T
    <2>1. \A R \in FiniteInts(0) : R = {}
      BY FS_EmptySet DEF FiniteInts
    <2>2. IsAcc(StatOver(t, {}), t)
      BY StatOverNone DEF Empty, IsAcc
    <2> QED
      BY <2>1, <2>2
  <1>2. ASSUME NEW n \in Nat, n \in T
        PROVE  n + 1 \in T
    <2> SUFFICES ASSUME NEW R \in FiniteInts(n + 1)
                 PROVE  IsAcc(StatOver(t, R), t)
      OBVIOUS
    <2>1. PICK m \in R : /\ R \ {m} \in FiniteInts(n) /\ R = (R \ {m}) \cup {m}
                         /\ \A y \in R \ {m} : y < m
      BY Greatest
    <2>2. PICK Q : Q = R \ {m}
      OBVIOUS
    <2>3. IsAcc(StatOver(t, Q), t) /\ R = Q \cup {m} /\ \A y \in Q : y < m
      BY <1>2, <2>1, <2>2
    <2>4. Q \subseteq Int /\ IsFiniteSet(Q) /\ m \in Int
      BY <2>1, <2>2 DEF FiniteInts
    <2>5. StatOver(t, R) = ApplyValue(StatOver(t, Q), m, 1)
      BY <2>3, <2>4, StatOverGreatest
    <2> QED
      BY <2>3, <2>4, <2>5, Applied
  <1>3. T = Nat
    <2> HIDE DEF T
    <2>1. T \subseteq Nat
      BY DEF T
    <2> QED
      BY <1>1, <1>2, <2>1, AllNumbers
  <1>4. Cardinality(S) \in Nat /\ S \in FiniteInts(Cardinality(S))
    BY FS_CardinalityType DEF FiniteInts
  <1> QED
    BY <1>3, <1>4

\* Any row may be the last.
LEMMA StatOverOne ==
  ASSUME NEW t \in Kinds, NEW S, S \subseteq Int, IsFiniteSet(S), NEW x \in Int, x \notin S
  PROVE  StatOver(t, S \cup {x}) = ApplyValue(StatOver(t, S), x, 1)
  <1> DEFINE P(R) == \A y \in Int \ R : StatOver(t, R \cup {y}) = ApplyValue(StatOver(t, R), y, 1)
             T == {n \in Nat : \A R \in FiniteInts(n) : P(R)}
  <1>1. 0 \in T
    <2>1. \A R \in FiniteInts(0) : R = {}
      BY FS_EmptySet DEF FiniteInts
    <2>2. ASSUME NEW y \in Int
          PROVE  StatOver(t, {} \cup {y}) = ApplyValue(StatOver(t, {}), y, 1)
      BY FS_EmptySet, StatOverGreatest
    <2> QED
      BY <2>1, <2>2
  <1>2. ASSUME NEW n \in Nat, n \in T
        PROVE  n + 1 \in T
    <2> SUFFICES ASSUME NEW R \in FiniteInts(n + 1), NEW y \in Int \ R
                 PROVE  StatOver(t, R \cup {y}) = ApplyValue(StatOver(t, R), y, 1)
      OBVIOUS
    <2>1. PICK m \in R : /\ R \ {m} \in FiniteInts(n) /\ R = (R \ {m}) \cup {m}
                         /\ \A z \in R \ {m} : z < m
      BY Greatest
    <2>2. PICK Q : Q = R \ {m}
      OBVIOUS
    <2>3. Q \in FiniteInts(n) /\ R = Q \cup {m} /\ (\A z \in Q : z < m) /\ y \notin Q /\ y # m
      BY <2>1, <2>2
    <2>4. Q \subseteq Int /\ IsFiniteSet(Q) /\ m \in Int /\ R \subseteq Int /\ IsFiniteSet(R)
      BY <2>1, <2>2 DEF FiniteInts
    <2>5. CASE m < y
      <3>1. \A z \in R : z < y
        BY <2>3, <2>4, <2>5
      <3> QED
        BY <2>4, <3>1, StatOverGreatest
    <2>6. CASE y < m
      <3>1. PICK U : U = Q \cup {y}
        OBVIOUS
      <3>2. U \subseteq Int /\ (\A z \in U : z < m) /\ R \cup {y} = U \cup {m}
        BY <2>3, <2>4, <2>6, <3>1
      <3>3. IsFiniteSet(U)
        BY <2>4, <3>1, FS_AddElement
      <3>4. StatOver(t, R \cup {y}) = ApplyValue(StatOver(t, U), m, 1)
        BY <2>4, <3>2, <3>3, StatOverGreatest
      <3>5. StatOver(t, U) = ApplyValue(StatOver(t, Q), y, 1)
        BY <1>2, <2>3, <3>1
      <3>6. StatOver(t, R) = ApplyValue(StatOver(t, Q), m, 1)
        BY <2>3, <2>4, StatOverGreatest
      <3>7. IsAcc(StatOver(t, Q), t)
        BY <2>4, StatOverType
      <3>8. ApplyValue(ApplyValue(StatOver(t, Q), y, 1), m, 1) =
              ApplyValue(ApplyValue(StatOver(t, Q), m, 1), y, 1)
        BY <2>4, <3>7, AppliedTwice
      <3> QED
        BY <3>4, <3>5, <3>6, <3>8
    <2> QED
      BY <2>3, <2>4, <2>5, <2>6
  <1>3. T = Nat
    <2> HIDE DEF T
    <2>1. T \subseteq Nat
      BY DEF T
    <2> QED
      BY <1>1, <1>2, <2>1, AllNumbers
  <1>4. Cardinality(S) \in Nat /\ S \in FiniteInts(Cardinality(S))
    BY FS_CardinalityType DEF FiniteInts
  <1> QED
    BY <1>3, <1>4

\* The accumulators of two sets of rows are merged to that of both.
LEMMA StatOverBoth ==
  ASSUME NEW t \in Kinds, NEW S, S \subseteq Int, IsFiniteSet(S),
         NEW U, U \subseteq Int, IsFiniteSet(U), S \cap U = {}
  PROVE  ApplyValue(StatOver(t, S), StatOver(t, U).val, StatOver(t, U).cnt) = StatOver(t, S \cup U)
  <1> DEFINE P(R) == S \cap R = {} =>
               ApplyValue(StatOver(t, S), StatOver(t, R).val, StatOver(t, R).cnt) =
                 StatOver(t, S \cup R)
             T == {n \in Nat : \A R \in FiniteInts(n) : P(R)}
  <1>1. IsAcc(StatOver(t, S), t)
    BY StatOverType
  <1>2. 0 \in T
    <2>1. \A R \in FiniteInts(0) : R = {}
      BY FS_EmptySet DEF FiniteInts
    <2>2. ApplyValue(StatOver(t, S), Empty(t).val, Empty(t).cnt) = StatOver(t, S)
      BY <1>1, MergedEmpty
    <2>3. StatOver(t, {}) = Empty(t) /\ S \cup {} = S
      BY StatOverNone
    <2>4. P({})
      BY ONLY <2>2, <2>3
    <2> HIDE DEF P
    <2> QED
      BY <2>1, <2>4
  <1>3. ASSUME NEW n \in Nat, n \in T
        PROVE  n + 1 \in T
    <2> SUFFICES ASSUME NEW R \in FiniteInts(n + 1), S \cap R = {}
                 PROVE  ApplyValue(StatOver(t, S), StatOver(t, R).val, StatOver(t, R).cnt) =
                          StatOver(t, S \cup R)
      OBVIOUS
    <2>1. PICK m \in R : R \ {m} \in FiniteInts(n) /\ R = (R \ {m}) \cup {m}
      BY Greatest
    <2>2. PICK Q : Q = R \ {m}
      OBVIOUS
    <2>3. Q \in FiniteInts(n) /\ R = Q \cup {m} /\ m \notin Q /\ S \cap Q = {}
      BY <2>1, <2>2
    <2>4. Q \subseteq Int /\ IsFiniteSet(Q) /\ m \in Int
      BY <2>1, <2>2 DEF FiniteInts
    <2>5. PICK a, b, c : a = StatOver(t, S) /\ b = StatOver(t, Q) /\ c = StatOver(t, R)
      OBVIOUS
    <2>6. c = ApplyValue(b, m, 1)
      BY <2>3, <2>4, <2>5, StatOverOne
    <2>7. ApplyValue(a, b.val, b.cnt) = StatOver(t, S \cup Q)
      BY <1>3, <2>3, <2>5
    <2>8. IsAcc(a, t) /\ IsAcc(b, t)
      BY <1>1, <2>4, <2>5, StatOverType
    <2>9. ApplyValue(a, c.val, c.cnt) = ApplyValue(ApplyValue(a, b.val, b.cnt), m, 1)
      BY ONLY <2>4, <2>6, <2>8, MergedOne, t \in Kinds
    <2>10. StatOver(t, (S \cup Q) \cup {m}) = ApplyValue(StatOver(t, S \cup Q), m, 1)
      <3>1. S \cup Q \subseteq Int /\ m \notin S \cup Q
        BY <2>1, <2>3, <2>4
      <3>2. IsFiniteSet(S \cup Q)
        BY <2>4, FS_Union
      <3> QED
        BY <2>4, <3>1, <3>2, StatOverOne
    <2>11. S \cup R = (S \cup Q) \cup {m}
      BY <2>3
    <2> QED
      BY <2>5, <2>7, <2>9, <2>10, <2>11
  <1>4. T = Nat
    <2> HIDE DEF T
    <2>1. T \subseteq Nat
      BY DEF T
    <2> QED
      BY <1>2, <1>3, <2>1, AllNumbers
  <1>5. Cardinality(U) \in Nat /\ U \in FiniteInts(Cardinality(U))
    BY FS_CardinalityType DEF FiniteInts
  <1> QED
    BY <1>4, <1>5

-----------------------------------------------------------------------------
(* The rows of backends.                                                    *)

\* The rows of a backend are its own.
LEMMA RowFacts ==
  ASSUME NEW b \in Backends
  PROVE  /\ ToSet(Rows[b]) \subseteq Int /\ IsFiniteSet(ToSet(Rows[b]))
         /\ \A c \in Backends : b # c => ToSet(Rows[b]) \cap ToSet(Rows[c]) = {}
  <1>1. Rows[b] \in Seq(Int)
    BY RowsAssumption
  <1>2. PICK s : s = Rows[b]
    OBVIOUS
  <1>3. s \in Seq(Int) /\ Len(s) \in Nat /\ DOMAIN s = 1 .. Len(s)
    BY <1>1, <1>2
  <1>4. ToSet(s) = {s[i] : i \in 1 .. Len(s)}
    BY <1>3 DEF ToSet
  <1>5. s \in Surjection(1 .. Len(s), ToSet(s))
    <2>1. s \in [1 .. Len(s) -> ToSet(s)]
      BY <1>3, <1>4
    <2> QED
      BY <1>4, <2>1 DEF Surjection
  <1>6. IsFiniteSet(ToSet(s))
    BY <1>3, <1>5, CountNumbers, FS_Surjection
  <1>7. ToSet(s) \subseteq Int
    BY <1>3, <1>4
  <1>8. \A c \in Backends : b # c => ToSet(Rows[b]) \cap ToSet(Rows[c]) = {}
    BY RowsAssumption
  <1> QED
    BY <1>2, <1>6, <1>7, <1>8

\* The rows of some backends are a finite set.
LEMMA RowSetFacts ==
  ASSUME NEW B, B \subseteq Backends
  PROVE  RowSet(B) \subseteq Int /\ IsFiniteSet(RowSet(B))
  <1>1. PICK F : F = {ToSet(Rows[b]) : b \in B}
    OBVIOUS
  <1>2. RowSet(B) = UNION F
    BY <1>1 DEF RowSet
  <1>3. \A f \in F : IsFiniteSet(f) /\ f \subseteq Int
    BY <1>1, RowFacts
  <1>4. PICK g : g = [b \in B |-> ToSet(Rows[b])]
    OBVIOUS
  <1>5. g \in Surjection(B, F)
    BY <1>1, <1>4 DEF Surjection
  <1>6. IsFiniteSet(B)
    BY RowsAssumption, FS_Subset
  <1>7. IsFiniteSet(F)
    BY <1>5, <1>6, FS_Surjection
  <1> QED
    BY <1>2, <1>3, <1>7, FS_UNION

\* Which backend a row comes from.
LEMMA RowSetOf ==
  ASSUME NEW B, NEW r
  PROVE  r \in RowSet(B) <=> \E b \in B : r \in ToSet(Rows[b])
  BY DEF RowSet

\* The rows of two groups of backends together.
LEMMA RowSetUnion ==
  ASSUME NEW B, NEW C
  PROVE  RowSet(B \cup C) = RowSet(B) \cup RowSet(C)
  BY DEF RowSet

\* Groups without a common backend have no common row.
LEMMA RowSetDisjoint ==
  ASSUME NEW B, B \subseteq Backends, NEW C, C \subseteq Backends, B \cap C = {}
  PROVE  RowSet(B) \cap RowSet(C) = {}
  <1> SUFFICES ASSUME NEW r, r \in RowSet(B), r \in RowSet(C)
               PROVE  FALSE
    OBVIOUS
  <1>1. PICK b \in B : r \in ToSet(Rows[b])
    BY RowSetOf
  <1>2. PICK c \in C : r \in ToSet(Rows[c])
    BY RowSetOf
  <1> QED
    BY <1>1, <1>2, RowFacts

\* The rows that one node with these backends would send, in order.
LEMMA RowsListed ==
  ASSUME NEW c, c # "other", NEW B, B \subseteq Backends
  PROVE  Lists(InOrder(c, RowSet(B)), RowSet(B))
  BY RowSetFacts, OrderedSet

\* The same by any key.
LEMMA RowsArranged ==
  ASSUME NEW c, NEW B, B \subseteq Backends
  PROVE  Enumerates(InOrder(c, RowSet(B)), RowSet(B))
  <1>1. ASSUME NEW r \in RowSet(B)
        PROVE  Key(c, r) \in Int
    <2>1. PICK b \in B : r \in ToSet(Rows[b])
      BY RowSetOf
    <2>2. PICK i \in DOMAIN Rows[b] : r = Rows[b][i]
      BY <2>1 DEF ToSet
    <2>3. Other[r] \in Int
      BY <2>2, RowsAssumption
    <2>4. r \in Int
      BY RowSetFacts
    <2> QED
      BY <2>3, <2>4 DEF Key
  <1> QED
    BY <1>1, RowSetFacts, ArrangedSet

-----------------------------------------------------------------------------
(* Stats of parts.                                                          *)

\* The accumulators of type t, as a set.
AccSet(t) == [stats : {t}, val : Int, cnt : Nat]

\* The accumulator over the rows of some backends.
LEMMA StatOverInSet ==
  ASSUME NEW t \in Kinds, NEW B, B \subseteq Backends
  PROVE  StatOver(t, RowSet(B)) \in AccSet(t)
  <1>1. PICK a : a = StatOver(t, RowSet(B))
    OBVIOUS
  <1>2. IsAcc(a, t)
    BY <1>1, RowSetFacts, StatOverType
  <1>3. PICK x, c : x = a.val /\ c = a.cnt
    OBVIOUS
  <1>4. a = [stats |-> t, val |-> x, cnt |-> c] /\ x \in Int /\ c \in Nat
    BY <1>2, <1>3 DEF IsAcc
  <1>5. a \in AccSet(t)
    BY ONLY <1>4 DEF AccSet
  <1> QED
    BY <1>1, <1>5

\* The accumulator of B, or nothing when there are no rows.
StatPart(t, B, p) ==
  B \subseteq Backends /\ (p = <<StatOver(t, RowSet(B))>> \/ (RowSet(B) = {} /\ p = << >>))

\* Parts ps over groups bs of backends, none of them in two groups.
StatParts(t, bs, ps) ==
  /\ \A i \in 1 .. Len(ps) : StatPart(t, bs[i], ps[i])
  /\ \A i, j \in 1 .. Len(ps) : i # j => bs[i] \cap bs[j] = {}

\* The parts of nodes, merged, are the accumulator over the rows of all of them.
LEMMA StatsMerged ==
  ASSUME NEW t \in Kinds, NEW ps \in Seq(Seq(AccSet(t))), NEW bs, StatParts(t, bs, ps)
  PROVE  Accumulated(Empty(t), FlattenSeq(ps)) =
           StatOver(t, RowSet(UNION {bs[i] : i \in 1 .. Len(ps)}))
  <1> DEFINE Q == Seq(Seq(AccSet(t)))
             P(qs, cs) == StatParts(t, cs, qs) =>
               Accumulated(Empty(t), FlattenSeq(qs)) =
                 StatOver(t, RowSet(UNION {cs[i] : i \in 1 .. Len(qs)}))
             T == {n \in Nat : \A qs \in Q : Len(qs) = n => \A cs : P(qs, cs)}
  <1>1. 0 \in T
    <2> SUFFICES ASSUME NEW qs \in Q, Len(qs) = 0, NEW cs
                 PROVE  P(qs, cs)
      OBVIOUS
    <2>1. qs = << >>
      BY EmptySeq
    <2>2. FlattenSeq(qs) = << >>
      BY ONLY <2>1 DEF FlattenSeq
    <2>3. UNION {cs[i] : i \in 1 .. Len(qs)} = {}
      OBVIOUS
    <2>4. RowSet({}) = {}
      BY DEF RowSet
    <2> QED
      BY <2>2, <2>3, <2>4, AccumulatedNone, StatOverNone
  <1>2. ASSUME NEW n \in Nat, n \in T
        PROVE  n + 1 \in T
    <2> HIDE DEF P
    <2> SUFFICES ASSUME NEW qs \in Q, Len(qs) = n + 1, NEW cs
                 PROVE  P(qs, cs)
      OBVIOUS
    <2> SUFFICES ASSUME StatParts(t, cs, qs)
                 PROVE  Accumulated(Empty(t), FlattenSeq(qs)) =
                          StatOver(t, RowSet(UNION {cs[i] : i \in 1 .. Len(qs)}))
      BY DEF P
    <2>1. PICK rs \in Q, p \in Seq(AccSet(t)) : qs = Append(rs, p)
      <3>1. qs # << >>
        OBVIOUS
      <3> QED
        BY <3>1, SequenceEmptyOrAppend
    <2>2. Len(rs) = n /\ qs[n + 1] = p /\ \A i \in 1 .. n : qs[i] = rs[i]
      BY <2>1
    <2>3. /\ \A i \in 1 .. n : i \in 1 .. n + 1 /\ i # n + 1
          /\ \A i \in 1 .. n + 1 : i \in 1 .. n \/ i = n + 1
          /\ n + 1 \in 1 .. n + 1
      OBVIOUS
    <2>4. /\ \A i \in 1 .. n + 1 : StatPart(t, cs[i], qs[i])
          /\ \A i, j \in 1 .. n + 1 : i # j => cs[i] \cap cs[j] = {}
      BY DEF StatParts
    <2>5. StatParts(t, cs, rs)
      BY <2>2, <2>3, <2>4 DEF StatParts
    <2>6. PICK B : B = UNION {cs[i] : i \in 1 .. n}
      OBVIOUS
    <2>7. Accumulated(Empty(t), FlattenSeq(rs)) = StatOver(t, RowSet(B))
      <3>1. P(rs, cs)
        BY <1>2, <2>2
      <3> QED
        BY <2>2, <2>5, <2>6, <3>1 DEF P
    <2>8. PICK C : C = cs[n + 1]
      OBVIOUS
    <2>9. UNION {cs[i] : i \in 1 .. Len(qs)} = B \cup C
      BY <2>3, <2>6, <2>8
    <2>10. B \cap C = {}
      BY <2>3, <2>4, <2>6, <2>8
    <2>11. StatPart(t, C, p)
      BY <2>2, <2>3, <2>4, <2>8
    <2>12. C \subseteq Backends /\ B \subseteq Backends
      BY <2>3, <2>4, <2>6, <2>11 DEF StatPart
    <2>13. PICK all : all = FlattenSeq(rs) /\ all \in Seq(AccSet(t))
      BY Flattened DEF Flat
    <2>14. FlattenSeq(qs) = all \o p
      BY <2>1, <2>13, FlattenOne
    <2>15. CASE RowSet(C) = {} /\ p = << >>
      <3>1. all \o p = all
        BY <2>13, <2>15
      <3>2. RowSet(B \cup C) = RowSet(B)
        <4>1. RowSet(B \cup C) = RowSet(B) \cup RowSet(C)
          BY ONLY RowSetUnion
        <4> QED
          BY ONLY <2>15, <4>1
      <3> QED
        BY <2>7, <2>9, <2>13, <2>14, <3>1, <3>2
    <2>16. CASE p = <<StatOver(t, RowSet(C))>>
      <3>1. PICK v : v = StatOver(t, RowSet(C)) /\ v \in AccSet(t)
        BY <2>12, StatOverInSet
      <3>2. all \o p = Append(all, v)
        BY <2>13, <2>16, <3>1
      <3>3. Accumulated(Empty(t), Append(all, v)) =
              ApplyValue(Accumulated(Empty(t), all), v.val, v.cnt)
        BY ONLY <2>13, <3>1, AccumulatedOne
      <3>4. PICK X, Y : X = RowSet(B) /\ Y = RowSet(C)
        OBVIOUS
      <3>5. /\ X \subseteq Int /\ IsFiniteSet(X) /\ Y \subseteq Int /\ IsFiniteSet(Y)
            /\ X \cap Y = {} /\ RowSet(B \cup C) = X \cup Y
        BY <2>10, <2>12, <3>4, RowSetFacts, RowSetDisjoint, RowSetUnion
      <3>6. ApplyValue(StatOver(t, X), StatOver(t, Y).val, StatOver(t, Y).cnt) =
              StatOver(t, X \cup Y)
        BY <3>5, StatOverBoth
      <3> QED
        BY ONLY <2>7, <2>9, <2>13, <2>14, <3>1, <3>2, <3>3, <3>4, <3>5, <3>6
    <2> QED
      BY <2>11, <2>15, <2>16 DEF StatPart
  <1>3. T = Nat
    <2> HIDE DEF T
    <2>1. T \subseteq Nat
      BY DEF T
    <2> QED
      BY <1>1, <1>2, <2>1, AllNumbers
  <1>4. Len(ps) \in Nat
    OBVIOUS
  <1> QED
    BY <1>3, <1>4

-----------------------------------------------------------------------------
(* Rows of parts.                                                           *)

\* The rows of B in the order asked for, cut no shorter than the limit of the query.
RowPart(q, B, p) ==
  /\ B \subseteq Backends
  /\ \E lim \in Int : /\ p = Cut(InOrder(q.sort, RowSet(B)), 0, lim)
                      /\ q.limit < 0 => lim < 0
                      /\ lim < 0 \/ lim >= q.limit

\* The rows of a part are rows of its backends, each once, and all when there is no limit.
LEMMA RowPartFacts ==
  ASSUME NEW q, q.limit \in Int, NEW B, NEW p, RowPart(q, B, p)
  PROVE  /\ p \in Seq(Int)
         /\ \A k \in 1 .. Len(p) : p[k] \in RowSet(B)
         /\ \A k, l \in 1 .. Len(p) : p[k] = p[l] => k = l
         /\ q.limit < 0 => \A r \in RowSet(B) : \E k \in 1 .. Len(p) : p[k] = r
  <1>1. PICK lim \in Int : /\ p = Cut(InOrder(q.sort, RowSet(B)), 0, lim)
                           /\ q.limit < 0 => lim < 0
    BY DEF RowPart
  <1>2. PICK a : a = InOrder(q.sort, RowSet(B)) /\ Enumerates(a, RowSet(B))
    BY RowsArranged DEF RowPart
  <1>3. /\ a \in Seq(Int) /\ Len(a) \in Nat
        /\ \A i \in 1 .. Len(a) : a[i] \in RowSet(B)
        /\ \A r \in RowSet(B) : \E i \in 1 .. Len(a) : a[i] = r
        /\ \A i, j \in 1 .. Len(a) : a[i] = a[j] => i = j
    BY <1>2 DEF Enumerates
  <1>4. /\ p \in Seq(Int) /\ Len(p) <= Len(a)
        /\ \A i \in 1 .. Len(p) : p[i] = a[i]
        /\ lim < 0 => p = a
    BY <1>1, <1>2, <1>3, CutFacts
  <1>5. Len(p) \in Nat
    BY <1>4
  <1>6. \A k \in 1 .. Len(p) : k \in 1 .. Len(a) /\ p[k] = a[k]
    BY <1>3, <1>4, <1>5
  <1>7. \A k \in 1 .. Len(p) : p[k] \in RowSet(B)
    BY ONLY <1>3, <1>6
  <1>8. \A k, l \in 1 .. Len(p) : p[k] = p[l] => k = l
    BY ONLY <1>3, <1>6, Zenon
  <1>9. q.limit < 0 => \A r \in RowSet(B) : \E k \in 1 .. Len(p) : p[k] = r
    BY <1>1, <1>3, <1>4
  <1> QED
    BY <1>4, <1>7, <1>8, <1>9

\* It has those of the first rows of a longer list that are rows of B.
LEMMA RowPartHas ==
  ASSUME NEW q, q.limit \in Int, q.sort # "other", NEW B, NEW p, RowPart(q, B, p),
         NEW W, NEW w, Lists(w, W), RowSet(B) \subseteq W,
         NEW i \in 1 .. Len(w), i <= q.limit, w[i] \in RowSet(B)
  PROVE  \E k \in 1 .. Len(p) : p[k] = w[i]
  <1>1. PICK lim \in Int : /\ p = Cut(InOrder(q.sort, RowSet(B)), 0, lim)
                           /\ lim < 0 \/ lim >= q.limit
    BY DEF RowPart
  <1>2. PICK a : a = InOrder(q.sort, RowSet(B)) /\ Lists(a, RowSet(B))
    BY RowsListed DEF RowPart
  <1>3. a \in Seq(Int) /\ Len(a) \in Nat /\ \A r \in RowSet(B) : \E k \in 1 .. Len(a) : a[k] = r
    BY <1>2 DEF Lists
  <1>4. /\ p \in Seq(Int)
        /\ \A k \in 1 .. Len(p) : p[k] = a[k]
        /\ lim < 0 => p = a
        /\ lim >= 0 => Len(p) = Smaller(lim, Len(a))
    BY <1>1, <1>2, <1>3, CutFacts
  <1>5. PICK k \in 1 .. Len(a) : a[k] = w[i]
    BY <1>3
  <1>6. k <= i
    BY <1>2, <1>5, NotLater
  <1>7. i \in Nat /\ Len(p) \in Nat
    <2>1. Len(w) \in Nat
      BY DEF Lists
    <2> QED
      BY <1>4, <2>1
  <1>8. k <= q.limit
    BY ONLY <1>3, <1>5, <1>6, <1>7, i <= q.limit, q.limit \in Int
  <1>9. k \in 1 .. Len(p)
    BY ONLY <1>1, <1>3, <1>4, <1>7, <1>5, <1>8, q.limit \in Int DEF Smaller
  <1> QED
    BY ONLY <1>4, <1>5, <1>9

\* The merged rows, sorted or as they are.
LEMMA Arranged ==
  ASSUME NEW all \in Seq(Int), NEW t, t = Sorted("first", all) \/ t = all
  PROVE  /\ t \in Seq(Int) /\ Len(t) = Len(all)
         /\ \A i \in 1 .. Len(t) : \E k \in 1 .. Len(t) : t[i] = all[k]
         /\ \A k \in 1 .. Len(t) : \E i \in 1 .. Len(t) : t[i] = all[k]
         /\ \A r : Once(r, all) => Once(r, t)
  <1>1. CASE t = Sorted("first", all)
    <2>1. t \in Seq(Int) /\ Len(t) = Len(all)
      BY <1>1, SortedFacts, SortedFirst
    <2>2. PICK h : Permutes(h, t, all)
      BY <1>1, SortedFacts, SortedFirst
    <2>3. PICK n : n = Len(all)
      OBVIOUS
    <2>4. /\ \A k \in 1 .. n : h[k] \in 1 .. n /\ t[k] = all[h[k]]
          /\ \A k, l \in 1 .. n : h[k] = h[l] => k = l
          /\ \A i \in 1 .. n : \E k \in 1 .. n : h[k] = i
      BY <2>2, <2>3 DEF Permutes
    <2>5. \A i \in 1 .. n : \E k \in 1 .. n : t[i] = all[k]
      BY ONLY <2>4
    <2>6. \A k \in 1 .. n : \E i \in 1 .. n : t[i] = all[k]
      <3> SUFFICES ASSUME NEW k \in 1 .. n
                   PROVE  \E i \in 1 .. n : t[i] = all[k]
        OBVIOUS
      <3>1. PICK i \in 1 .. n : h[i] = k
        BY ONLY <2>4
      <3>2. t[i] = all[h[i]]
        BY ONLY <2>4
      <3> QED
        BY ONLY <3>1, <3>2
    <2>7. ASSUME NEW r, Once(r, all)
          PROVE  Once(r, t)
      <3>1. \A x, y \in 1 .. n : all[x] = r /\ all[y] = r => x = y
        BY <2>3, <2>7 DEF Once
      <3> SUFFICES ASSUME NEW x \in 1 .. n, NEW y \in 1 .. n, t[x] = r, t[y] = r
                   PROVE  x = y
        BY <2>1, <2>3 DEF Once
      <3>2. h[x] \in 1 .. n /\ h[y] \in 1 .. n /\ all[h[x]] = r /\ all[h[y]] = r
        BY ONLY <2>4, t[x] = r, t[y] = r
      <3>3. h[x] = h[y]
        BY ONLY <3>1, <3>2
      <3> QED
        BY ONLY <2>4, <3>3
    <2> QED
      BY <2>1, <2>3, <2>5, <2>6, <2>7
  <1>2. CASE t = all
    BY <1>2
  <1> QED
    BY <1>1, <1>2

\* Parts that together have the backends W and perhaps some of M, the others each once.
Divided(bs, n, W, M) ==
  /\ \A i \in 1 .. n : bs[i] \subseteq Backends /\ bs[i] \subseteq W \cup M
  /\ \A b \in W : b \in Backends /\ b \notin M /\ \E i \in 1 .. n : b \in bs[i]
  /\ \A i, j \in 1 .. n : \A b \in bs[i] \cap bs[j] : b \in M \/ i = j

\* What RowsOrError says of rows.
RightRows(q, W, M, rows) ==
  LET cut == Cut(InOrder("first", RowSet(W)), q.offset, q.limit)
  IN /\ q.sort = "first" => \A i, j \in DOMAIN rows : i < j => rows[i] <= rows[j]
     /\ q.limit < 0 =>
          \A r \in RowSet(W) : \E i \in DOMAIN rows : \A j \in DOMAIN rows : rows[j] = r <=> i = j
     /\ q.limit >= 0 /\ M = {} /\ q.sort = "first" => rows = cut
     /\ q.limit >= 0 /\ M = {} /\ q.sort = "none" =>
          /\ Len(rows) = Len(cut) /\ ToSet(rows) \subseteq RowSet(W)
          /\ \A i, j \in DOMAIN rows : rows[i] = rows[j] => i = j

\* A row of a backend that did not move comes once.
LEMMA RowOnce ==
  ASSUME NEW q, q.limit \in Int, NEW ps, NEW bs, NEW W, NEW M, Divided(bs, Len(ps), W, M),
         \A i \in 1 .. Len(ps) : RowPart(q, bs[i], ps[i]), NEW r \in RowSet(W)
  PROVE  OnceIn(r, ps)
  <1>1. PICK b \in W : r \in ToSet(Rows[b])
    BY RowSetOf
  <1>2. b \in Backends /\ b \notin M
    BY DEF Divided
  <1>3. \A i \in 1 .. Len(ps) : \A k \in 1 .. Len(ps[i]) : ps[i][k] = r => b \in bs[i]
    <2> SUFFICES ASSUME NEW i \in 1 .. Len(ps), NEW k \in 1 .. Len(ps[i]), ps[i][k] = r
                 PROVE  b \in bs[i]
      OBVIOUS
    <2>1. r \in RowSet(bs[i])
      BY RowPartFacts
    <2>2. PICK c \in bs[i] : r \in ToSet(Rows[c])
      BY <2>1, RowSetOf
    <2>3. c \in Backends
      BY DEF Divided
    <2> QED
      BY <1>1, <1>2, <2>2, <2>3, RowFacts
  <1> SUFFICES ASSUME NEW i \in 1 .. Len(ps), NEW j \in 1 .. Len(ps),
                      NEW k \in 1 .. Len(ps[i]), NEW l \in 1 .. Len(ps[j]),
                      ps[i][k] = r, ps[j][l] = r
               PROVE  i = j /\ k = l
    BY DEF OnceIn
  <1>4. i = j
    BY <1>2, <1>3 DEF Divided
  <1>5. k = l
    BY <1>4, RowPartFacts
  <1> QED
    BY <1>4, <1>5

\* Parts that are put together, sorted and cut are the right rows.
LEMMA MergedRight ==
  ASSUME NEW q, q.limit \in Int, q.offset = 0,
         NEW S, NEW ps \in Seq(S), NEW bs, NEW W, NEW M, Divided(bs, Len(ps), W, M),
         \A i \in 1 .. Len(ps) : RowPart(q, bs[i], ps[i]), NEW rows,
         rows = Cut(IF q.sort = "none" THEN FlattenSeq(ps) ELSE Sorted("first", FlattenSeq(ps)),
                    q.offset, q.limit)
  PROVE  RightRows(q, W, M, rows)
  <1>1. PICK limit, n : limit = q.limit /\ n = Len(ps) /\ n \in Nat
    OBVIOUS
  <1>2. \A i \in 1 .. n : RowPart(q, bs[i], ps[i])
    BY <1>1
  <1>3. \A i \in 1 .. n :
          /\ ps[i] \in Seq(Int)
          /\ \A k \in 1 .. Len(ps[i]) : ps[i][k] \in RowSet(bs[i])
    BY <1>1, <1>2, RowPartFacts
  <1>4. PICK qs : qs = ps /\ qs \in Seq(Seq(Int))
    BY <1>1, <1>3
  <1>5. PICK all : all = FlattenSeq(qs) /\ Flat(qs, all, Int)
    BY <1>4, Flattened
  <1>6. /\ all \in Seq(Int) /\ Len(all) \in Nat
        /\ \A i \in 1 .. n : \A k \in 1 .. Len(ps[i]) : \E x \in 1 .. Len(all) : all[x] = ps[i][k]
        /\ \A x \in 1 .. Len(all) : \E i \in 1 .. n : \E k \in 1 .. Len(ps[i]) : all[x] = ps[i][k]
    BY <1>1, <1>4, <1>5 DEF Flat
  <1>7. \A r \in RowSet(W) : Once(r, all)
    BY <1>1, <1>4, <1>5, RowOnce DEF Flat
  <1>8. PICK t : t = IF q.sort = "none" THEN all ELSE Sorted("first", all)
    OBVIOUS
  <1>9. /\ t \in Seq(Int) /\ Len(t) = Len(all)
        /\ q.sort = "first" => \A i, j \in 1 .. Len(t) : i < j => t[i] <= t[j]
        /\ \A i \in 1 .. Len(t) : \E k \in 1 .. Len(t) : t[i] = all[k]
        /\ \A k \in 1 .. Len(t) : \E i \in 1 .. Len(t) : t[i] = all[k]
        /\ \A r \in RowSet(W) : Once(r, t)
    <2>1. all \in Seq(Int) /\ (t = Sorted("first", all) \/ t = all)
      BY <1>6, <1>8
    <2>2. q.sort = "first" => \A i, j \in 1 .. Len(t) : i < j => t[i] <= t[j]
      BY <1>6, <1>8, SortedFacts, SortedFirst
    <2>3. /\ t \in Seq(Int) /\ Len(t) = Len(all)
          /\ \A i \in 1 .. Len(t) : \E k \in 1 .. Len(t) : t[i] = all[k]
          /\ \A k \in 1 .. Len(t) : \E i \in 1 .. Len(t) : t[i] = all[k]
          /\ \A r : Once(r, all) => Once(r, t)
      BY ONLY <2>1, Arranged
    <2> QED
      BY ONLY <1>7, <2>3, <2>2
  <1>10. rows = Cut(t, 0, limit)
    BY <1>1, <1>4, <1>5, <1>8
  <1>11. /\ rows \in Seq(Int) /\ Len(rows) <= Len(t) /\ Len(rows) \in Nat
         /\ \A i \in 1 .. Len(rows) : rows[i] = t[i]
         /\ limit < 0 => rows = t
         /\ limit >= 0 => Len(rows) = Smaller(limit, Len(t))
    <2>1. limit \in Int
      BY <1>1
    <2>2. /\ rows \in Seq(Int) /\ Len(rows) <= Len(t)
          /\ \A i \in 1 .. Len(rows) : rows[i] = t[i]
          /\ limit < 0 => rows = t
          /\ limit >= 0 => Len(rows) = Smaller(limit, Len(t))
      <3>1. PICK R : R = Int /\ t \in Seq(R)
        BY ONLY <1>9, Zenon
      <3>2. /\ rows \in Seq(R) /\ Len(rows) <= Len(t)
            /\ \A i \in 1 .. Len(rows) : rows[i] = t[i]
            /\ limit < 0 => rows = t
            /\ limit >= 0 => Len(rows) = Smaller(limit, Len(t))
        BY ONLY <1>10, <2>1, <3>1, CutFacts
      <3> QED
        BY ONLY <3>1, <3>2, Zenon
    <2> QED
      BY <2>2
  <1>12. \A i \in 1 .. Len(rows) : i \in 1 .. Len(t) /\ rows[i] = t[i]
    <2>1. Len(t) \in Nat /\ Len(rows) \in Nat /\ Len(rows) <= Len(t)
      BY ONLY <1>6, <1>9, <1>11
    <2>2. \A i \in 1 .. Len(rows) : i \in 1 .. Len(t)
      BY ONLY <2>1
    <2> QED
      BY ONLY <1>11, <2>2
  <1>13. DOMAIN rows = 1 .. Len(rows)
    BY <1>11
  <1>14. q.sort = "first" => \A i, j \in 1 .. Len(rows) : i < j => rows[i] <= rows[j]
    BY ONLY <1>9, <1>12
  <1>15. ASSUME limit < 0, NEW r \in RowSet(W)
         PROVE  \E i \in 1 .. Len(rows) : \A j \in 1 .. Len(rows) : rows[j] = r <=> i = j
    <2>1. PICK b \in W : r \in ToSet(Rows[b])
      BY RowSetOf
    <2>2. PICK i \in 1 .. n : b \in bs[i]
      BY <1>1 DEF Divided
    <2>3. r \in RowSet(bs[i])
      BY <2>1, <2>2, RowSetOf
    <2>4. PICK k \in 1 .. Len(ps[i]) : ps[i][k] = r
      <3>1. RowPart(q, bs[i], ps[i]) /\ q.limit \in Int /\ q.limit < 0
        BY ONLY <1>1, <1>2, <1>15, q.limit \in Int, Zenon
      <3>2. \A x \in RowSet(bs[i]) : \E k \in 1 .. Len(ps[i]) : ps[i][k] = x
        BY ONLY <3>1, RowPartFacts
      <3> QED
        BY ONLY <2>3, <3>2, Zenon
    <2>5. PICK x \in 1 .. Len(all) : all[x] = r
      BY ONLY <1>6, <2>4, Zenon
    <2>6. PICK y \in 1 .. Len(t) : t[y] = r
      BY <1>9, <2>5
    <2>7. Once(r, t) /\ rows = t
      BY <1>9, <1>11, <1>15
    <2> QED
      BY <2>6, <2>7 DEF Once
  <1>16. ASSUME limit >= 0, M = {}, q.sort # "other"
         PROVE  LET cut == Cut(InOrder("first", RowSet(W)), q.offset, q.limit)
                IN /\ q.sort # "none" => rows = cut
                   /\ q.sort = "none" =>
                        /\ Len(rows) = Len(cut)
                        /\ \A i \in 1 .. Len(rows) : rows[i] \in RowSet(W)
                        /\ \A i, j \in 1 .. Len(rows) : rows[i] = rows[j] => i = j
    <2>1. limit \in Nat /\ limit \in Int
      BY <1>1, <1>16
    <2>2. PICK A : A = {all[x] : x \in 1 .. Len(all)}
      OBVIOUS
    <2>3. A \subseteq RowSet(W)
      <3> SUFFICES ASSUME NEW x \in 1 .. Len(all)
                   PROVE  all[x] \in RowSet(W)
        BY <2>2
      <3>1. PICK i \in 1 .. n : \E k \in 1 .. Len(ps[i]) : all[x] = ps[i][k]
        BY <1>6
      <3>2. all[x] \in RowSet(bs[i])
        BY <1>3, <3>1
      <3>3. bs[i] \subseteq W
        BY <1>1, <1>16 DEF Divided
      <3> QED
        BY <3>2, <3>3, RowSetOf
    <2>4. \A x, y \in 1 .. Len(all) : all[x] = all[y] => x = y
      <3> SUFFICES ASSUME NEW x \in 1 .. Len(all), NEW y \in 1 .. Len(all), all[x] = all[y]
                   PROVE  x = y
        OBVIOUS
      <3>1. all[x] \in RowSet(W)
        BY ONLY <2>2, <2>3
      <3>2. Once(all[x], all)
        BY ONLY <1>7, <3>1, Zenon
      <3> QED
        BY ONLY <3>2, all[x] = all[y], Zenon DEF Once
    <2>5. Lists(Sorted("first", all), A)
      <3>1. /\ \A i \in 1 .. Len(all) : all[i] \in A
            /\ \A x \in A : \E i \in 1 .. Len(all) : all[i] = x
        BY ONLY <2>2
      <3>2. Enumerates(all, A)
        BY ONLY <1>6, <2>4, <3>1 DEF Enumerates
      <3> QED
        BY ONLY <3>2, SortedLists
    <2>6. PICK w : w = InOrder("first", RowSet(W)) /\ Lists(w, RowSet(W))
      BY RowsListed DEF Divided
    <2>7. \A i \in 1 .. Len(w) : i <= limit => w[i] \in A
      <3> SUFFICES ASSUME NEW i \in 1 .. Len(w), i <= limit
                   PROVE  w[i] \in A
        OBVIOUS
      <3>1. w[i] \in RowSet(W)
        BY <2>6 DEF Lists
      <3>2. PICK b \in W : w[i] \in ToSet(Rows[b])
        BY <3>1, RowSetOf
      <3>3. PICK j \in 1 .. n : b \in bs[j]
        BY <1>1 DEF Divided
      <3>4. w[i] \in RowSet(bs[j])
        BY <3>2, <3>3, RowSetOf
      <3>5. RowSet(bs[j]) \subseteq RowSet(W)
        <4>1. bs[j] \subseteq W
          BY <1>1, <1>16 DEF Divided
        <4> QED
          BY <4>1, RowSetOf
      <3>6. RowPart(q, bs[j], ps[j])
        BY <1>2
      <3>7. PICK k \in 1 .. Len(ps[j]) : ps[j][k] = w[i]
        BY ONLY <1>1, <1>16, <2>1, <2>6, <3>4, <3>5, <3>6, RowPartHas, i \in 1 .. Len(w), i <= limit
      <3>8. \E x \in 1 .. Len(all) : all[x] = ps[j][k]
        BY ONLY <1>6, <3>7
      <3> QED
        BY ONLY <2>2, <3>7, <3>8
    <2>8. PICK s : s = Sorted("first", all) /\ Len(s) = Len(all)
      BY <1>6, SortedFacts, SortedFirst
    <2>9. Smaller(limit, Len(s)) = Smaller(limit, Len(w)) /\ Cut(s, 0, limit) = Cut(w, 0, limit)
      BY ONLY <2>1, <2>3, <2>5, <2>6, <2>7, <2>8, SameCut
    <2>10. CASE q.sort # "none"
      BY <1>1, <1>8, <1>10, <2>6, <2>8, <2>9, <2>10
    <2>11. CASE q.sort = "none"
      <3>1. t = all
        BY <1>8, <2>11
      <3>2. w \in Seq(Int)
        BY <2>6 DEF Lists
      <3>3. Len(Cut(w, 0, limit)) = Smaller(limit, Len(w))
        BY ONLY <1>16, <2>1, <3>2, CutFacts
      <3>4. Len(rows) = Len(Cut(w, 0, limit))
        BY <1>11, <1>16, <2>8, <2>9, <3>1, <3>3
      <3>5. \A i \in 1 .. Len(rows) : i \in 1 .. Len(all) /\ rows[i] = all[i]
        BY ONLY <1>12, <3>1
      <3>6. \A i \in 1 .. Len(rows) : rows[i] \in RowSet(W)
        BY ONLY <2>2, <2>3, <3>5
      <3>7. \A i, j \in 1 .. Len(rows) : rows[i] = rows[j] => i = j
        BY ONLY <2>4, <3>5
      <3> QED
        BY <1>1, <2>6, <2>11, <3>4, <3>6, <3>7
    <2> QED
      BY <2>10, <2>11
  <1>17. ToSet(rows) \subseteq RowSet(W) <=> \A i \in 1 .. Len(rows) : rows[i] \in RowSet(W)
    BY <1>13 DEF ToSet
  <1>18. q.sort = "first" => \A i, j \in DOMAIN rows : i < j => rows[i] <= rows[j]
    BY ONLY <1>1, <1>13, <1>14
  <1>19. q.limit < 0 =>
           \A r \in RowSet(W) : \E i \in DOMAIN rows : \A j \in DOMAIN rows : rows[j] = r <=> i = j
    BY ONLY <1>1, <1>13, <1>15
  <1>20. q.limit >= 0 /\ M = {} /\ q.sort = "first" =>
           rows = Cut(InOrder("first", RowSet(W)), q.offset, q.limit)
    BY ONLY <1>1, <1>16
  <1>21. q.limit >= 0 /\ M = {} /\ q.sort = "none" =>
           /\ Len(rows) = Len(Cut(InOrder("first", RowSet(W)), q.offset, q.limit))
           /\ ToSet(rows) \subseteq RowSet(W)
           /\ \A i, j \in DOMAIN rows : rows[i] = rows[j] => i = j
    BY ONLY <1>1, <1>13, <1>16, <1>17
  <1> QED
    BY ONLY <1>18, <1>19, <1>20, <1>21 DEF RightRows

\* A node that answers alone.
LEMMA AloneRight ==
  ASSUME NEW q, q.limit \in Int, q.offset = 0, NEW B, B \subseteq Backends, NEW W, NEW M,
         W \subseteq B, M = {} => W = B,
         NEW rows, rows = Cut(InOrder(q.sort, RowSet(B)), q.offset, q.limit)
  PROVE  RightRows(q, W, M, rows)
  <1>1. RowPart(q, B, rows)
    BY DEF RowPart
  <1>2. PICK limit : limit = q.limit /\ limit \in Int
    OBVIOUS
  <1>3. /\ rows \in Seq(Int)
        /\ \A k \in 1 .. Len(rows) : rows[k] \in RowSet(B)
        /\ \A k, l \in 1 .. Len(rows) : rows[k] = rows[l] => k = l
        /\ limit < 0 => \A r \in RowSet(B) : \E k \in 1 .. Len(rows) : rows[k] = r
    BY ONLY <1>1, <1>2, RowPartFacts
  <1>4. DOMAIN rows = 1 .. Len(rows) /\ Len(rows) \in Nat
    BY <1>3
  <1>5. ASSUME q.sort = "first"
        PROVE  \A i, j \in DOMAIN rows : i < j => rows[i] <= rows[j]
    <2>1. PICK a : a = InOrder("first", RowSet(B)) /\ Lists(a, RowSet(B))
      BY RowsListed
    <2>2. a \in Seq(Int) /\ Len(a) \in Nat
      BY <2>1 DEF Lists
    <2>3. /\ \A i, j \in 1 .. Len(a) : i < j => a[i] < a[j]
          /\ \A i \in 1 .. Len(a) : a[i] \in Int
      BY <2>1, <2>2 DEF Lists
    <2>4. Len(rows) <= Len(a) /\ \A i \in 1 .. Len(rows) : rows[i] = a[i]
      BY <1>2, <1>5, <2>1, <2>2, CutFacts
    <2> SUFFICES ASSUME NEW i \in 1 .. Len(rows), NEW j \in 1 .. Len(rows), i < j
                 PROVE  rows[i] <= rows[j]
      BY <1>4
    <2>5. i \in 1 .. Len(a) /\ j \in 1 .. Len(a) /\ rows[i] = a[i] /\ rows[j] = a[j]
      BY <1>4, <2>2, <2>4
    <2>6. a[i] < a[j] /\ a[i] \in Int /\ a[j] \in Int
      BY <2>3, <2>5
    <2> QED
      BY ONLY <2>5, <2>6
  <1>6. RowSet(W) \subseteq RowSet(B)
    BY RowSetOf
  <1>7. q.limit < 0 =>
          \A r \in RowSet(W) : \E i \in DOMAIN rows : \A j \in DOMAIN rows : rows[j] = r <=> i = j
    <2> SUFFICES ASSUME limit < 0, NEW r \in RowSet(W)
                 PROVE  \E i \in DOMAIN rows : \A j \in DOMAIN rows : rows[j] = r <=> i = j
      BY <1>2
    <2>1. r \in RowSet(B)
      BY ONLY <1>6, r \in RowSet(W), Zenon
    <2>2. PICK i \in 1 .. Len(rows) : rows[i] = r
      BY ONLY <1>3, <2>1, limit < 0, Zenon
    <2>3. \A j \in 1 .. Len(rows) : rows[j] = r <=> i = j
      BY ONLY <1>3, <2>2, Zenon
    <2> QED
      BY ONLY <1>4, <2>2, <2>3
  <1>8. M = {} => ToSet(rows) \subseteq RowSet(W)
    BY <1>3, <1>4 DEF ToSet
  <1>9. q.sort = "none" => InOrder(q.sort, RowSet(B)) = InOrder("first", RowSet(B))
    <2>1. \A c \in {"none", "first"} : Lists(InOrder(c, RowSet(B)), RowSet(B))
      BY RowsListed
    <2> QED
      BY <2>1, SameList
  <1>10. M = {} /\ q.sort \in {"none", "first"} =>
           rows = Cut(InOrder("first", RowSet(W)), q.offset, q.limit)
    BY <1>9
  <1>11. \A i, j \in DOMAIN rows : rows[i] = rows[j] => i = j
    BY ONLY <1>3, <1>4
  <1> QED
    BY ONLY <1>5, <1>7, <1>8, <1>10, <1>11 DEF RightRows

-----------------------------------------------------------------------------
(* The inductive invariant.                                                 *)

\* What the variables hold; parts are sequences of anything.
ClusterTypes ==
  /\ moved \subseteq Backends /\ has \in [Nodes -> SUBSET Backends]
  /\ DOMAIN routes \subseteq Nodes /\ routes \in [DOMAIN routes -> SUBSET Backends]
  /\ Me \in DOMAIN routes
  /\ DOMAIN LoopMap \subseteq Nodes /\ LoopMap \in [DOMAIN LoopMap -> SUBSET Backends]
  /\ Me \in DOMAIN LoopMap
  /\ gone \subseteq Nodes \ {Me} /\ added \subseteq Nodes

LoopTypes ==
  /\ keys \subseteq Nodes
  /\ pc \in {"start", "made", "loop", "done", "panic", "blocked"}
  /\ asked \in [Nodes -> {"no", "wait", "held", "pushed", "bad", "failed", "stuck"}]
  /\ sent \in [Nodes -> SUBSET Backends]
  /\ got = [n \in Nodes |-> got[n]]

ChannelTypes ==
  /\ hashes \in Seq(SUBSET Backends)
  /\ \E S : parts \in Seq(S)
  /\ Len(parts) = Len(hashes)

IsAnswer(a) == a = [ok |-> a.ok, rows |-> a.rows, bare |-> a.bare, failed |-> a.failed,
                    stat |-> a.stat]

Types ==
  /\ query \in Queries /\ down \subseteq Backends
  /\ ClusterTypes /\ LoopTypes /\ ChannelTypes
  /\ IsAnswer(answer) /\ answer.failed \subseteq Backends

\* A backend that stays has one node, and the map that the loop ranges over tells the truth.
RouteInv ==
  \A b \in Backends \ moved :
    /\ \E n \in DOMAIN LoopMap \ added : b \in has[n]
    /\ \A m, n \in Nodes : b \in has[m] /\ b \in has[n] => m = n
    /\ \A n \in DOMAIN LoopMap : b \in LoopMap[n] <=> b \in has[n]

\* Nothing has happened before the loop, a node that failed has ended the query, and a loop
\* that blocks has met a new node.
LoopInv ==
  /\ pc \in {"start", "made"} => added = {} /\ old = << >> /\ \A n \in Nodes : asked[n] = "no"
  /\ \A n \in Nodes : asked[n] \in {"failed", "stuck"} => Ended
  /\ pc = "blocked" => ~ Visited \subseteq keys

\* The backends that node n has to report about.
Mine(n) == {b \in Requested \ moved : b \in has[n]}
\* A report of node n is complete and true.
Reports(n, failed) == failed \subseteq down /\ Mine(n) \cap down \subseteq failed
\* The queries that the merging gets right.
Plain(q) == q.offset = 0 /\ q.stats # "min" /\ ~ q.nocase
\* The part p is what a node makes of the backends B.
Holds(q, B, p) ==
  Plain(q) => IF q.stats = "none" THEN RowPart(q, B, p) ELSE StatPart(q.stats, B, p)
\* The part p of node n is made of its backends that are up, and maybe of some that moved.
Brings(n, p) == \E B \in SUBSET Backends : B \ moved = Mine(n) \ down /\ Holds(query, B, p)

\* Node n is asked for all that it has, and has answered that.
AskedAll(n) ==
  /\ asked[n] = "wait" => Mine(n) \subseteq sent[n] /\ sent[n] \subseteq Requested
  /\ asked[n] = "held" => Reports(n, got[n].failed) /\ Brings(n, got[n].part)
AskInv == \A n \in Nodes : AskedAll(n)

\* The nodes that have added a part.
Pushed == {n \in Nodes : asked[n] = "pushed"}
\* Part i comes from node g[i], every such node has added one, and none two.
From(g) ==
  /\ g \in [1 .. Len(hashes) -> Pushed]
  /\ \A i, j \in 1 .. Len(hashes) : g[i] = g[j] => i = j
  /\ \A n \in Pushed : \E i \in 1 .. Len(hashes) : g[i] = n
  /\ \A i \in 1 .. Len(hashes) : Reports(g[i], hashes[i]) /\ Brings(g[i], parts[i])
\* Every part comes from a node of its own.
PartInv == \E g : From(g)

\* Nothing can change the answer any more.
Settled == pc = "done" /\ \A n \in Nodes : asked[n] \notin {"wait", "held"}
\* The answer is given at the end, and it is right.
AnswerInv == (answer.ok => Settled) /\ FailuresReported /\ AnswerOrError

\* The inductive invariant.
IInv == Types /\ RouteInv /\ LoopInv /\ AskInv /\ PartInv /\ AnswerInv

-----------------------------------------------------------------------------
(* Parts.                                                                   *)

\* A function on the first k numbers, with one value more.
LEMMA LongerFunction ==
  ASSUME NEW S, NEW k \in Nat, NEW g \in [1 .. k -> S], NEW n
  PROVE  LET h == [i \in 1 .. k + 1 |-> IF i <= k THEN g[i] ELSE n]
         IN  (\A i \in 1 .. k : h[i] = g[i] /\ h[i] \in S) /\ h[k + 1] = n
  <1>1. k + 1 \in 1 .. k + 1 /\ ~ (k + 1 <= k)
    OBVIOUS
  <1>2. \A i \in 1 .. k : i \in 1 .. k + 1 /\ i <= k /\ g[i] \in S
    OBVIOUS
  <1> QED
    BY ONLY <1>1, <1>2, Zenon

\* One part more, from a node that had none.
LEMMA PartAdded ==
  ASSUME Types, PartInv, NEW n \in Nodes, n \notin Pushed, Pushed' = Pushed \cup {n},
         NEW failed \in SUBSET Backends, hashes' = Append(hashes, failed),
         NEW x, parts' = Append(parts, x),
         UNCHANGED <<query, has, down, moved>>, Reports(n, failed), Brings(n, x)
  PROVE  PartInv' /\ hashes' \in Seq(SUBSET Backends) /\ Len(hashes') = Len(hashes) + 1
  <1>1. PICK g : From(g)
    BY DEF PartInv
  <1>2. hashes \in Seq(SUBSET Backends) /\ Len(hashes) \in Nat /\ Len(parts) = Len(hashes)
    BY DEF Types, ChannelTypes
  <1>3. /\ hashes' \in Seq(SUBSET Backends) /\ Len(hashes') = Len(hashes) + 1
        /\ \A i \in 1 .. Len(hashes) : hashes'[i] = hashes[i]
        /\ hashes'[Len(hashes) + 1] = failed
    BY <1>2
  <1>4. /\ \A i \in 1 .. Len(hashes) : parts'[i] = parts[i]
        /\ parts'[Len(hashes) + 1] = x
    <2>1. PICK S : parts \in Seq(S)
      BY DEF Types, ChannelTypes
    <2>2. parts \in Seq(S \cup {x})
      BY <2>1
    <2> QED
      BY <1>2, <2>2
  <1> DEFINE h == [i \in 1 .. Len(hashes) + 1 |-> IF i <= Len(hashes) THEN g[i] ELSE n]
  <1>5. \A m, f : (Reports(m, f)' <=> Reports(m, f)) /\ (Brings(m, f)' <=> Brings(m, f))
    <2>1. \A m : Mine(m)' = Mine(m)
      BY DEF Mine, Requested, AllRequested
    <2> QED
      BY <2>1 DEF Reports, Brings
  <1>6. /\ g \in [1 .. Len(hashes) -> Pushed]
        /\ \A i, j \in 1 .. Len(hashes) : g[i] = g[j] => i = j
        /\ \A m \in Pushed : \E i \in 1 .. Len(hashes) : g[i] = m
        /\ \A i \in 1 .. Len(hashes) : Reports(g[i], hashes[i]) /\ Brings(g[i], parts[i])
    BY <1>1 DEF From
  <1>7. \A i \in 1 .. Len(hashes) + 1 :
          i \in 1 .. Len(hashes) \/ (i = Len(hashes) + 1 /\ ~ (i <= Len(hashes)))
    BY <1>2
  <1>8. /\ \A i \in 1 .. Len(hashes) : h[i] = g[i] /\ h[i] \in Pushed
        /\ h[Len(hashes) + 1] = n
    BY ONLY <1>2, <1>6, LongerFunction, SMT
  <1>9. h \in [1 .. Len(hashes) + 1 -> Pushed']
    BY <1>6, <1>7
  <1> HIDE DEF h
  <1>10. \A i, j \in 1 .. Len(hashes) + 1 : h[i] = h[j] => i = j
    BY <1>6, <1>7, <1>8
  <1>11. \A i \in 1 .. Len(hashes) + 1 : Reports(h[i], hashes'[i]) /\ Brings(h[i], parts'[i])
    <2> SUFFICES ASSUME NEW i \in 1 .. Len(hashes) + 1
                 PROVE  Reports(h[i], hashes'[i]) /\ Brings(h[i], parts'[i])
      OBVIOUS
    <2>1. CASE i \in 1 .. Len(hashes)
      <3>1. h[i] = g[i] /\ hashes'[i] = hashes[i] /\ parts'[i] = parts[i]
        BY ONLY <1>3, <1>8, <1>4, <2>1, Zenon
      <3>2. Reports(g[i], hashes[i]) /\ Brings(g[i], parts[i])
        BY ONLY <1>6, <2>1, Zenon
      <3> QED
        BY ONLY <3>1, <3>2, Zenon
    <2>2. CASE i = Len(hashes) + 1
      BY ONLY <1>3, <1>8, <1>4, <2>2, Reports(n, failed), Brings(n, x), Zenon
    <2> QED
      BY ONLY <1>7, <2>1, <2>2
  <1>12. \A m \in Pushed' : \E i \in 1 .. Len(hashes) + 1 : h[i] = m
    <2> SUFFICES ASSUME NEW m \in Pushed \cup {n}
                 PROVE  \E i \in 1 .. Len(hashes) + 1 : h[i] = m
      OBVIOUS
    <2>1. CASE m = n
      <3>1. Len(hashes) + 1 \in 1 .. Len(hashes) + 1
        BY <1>2
      <3> QED
        BY <1>8, <2>1, <3>1
    <2>2. CASE m \in Pushed
      <3>1. PICK i \in 1 .. Len(hashes) : g[i] = m
        BY <1>6, <2>2
      <3>2. i \in 1 .. Len(hashes) + 1 /\ h[i] = m
        BY <1>2, <1>8, <3>1
      <3> QED
        BY <3>2
    <2> QED
      BY <2>1, <2>2
  <1>13. PICK k : k = h
    OBVIOUS
  <1>14. From(k)'
    <2>1. \A i \in 1 .. Len(hashes) + 1 : Reports(k[i], hashes[i])' /\ Brings(k[i], parts[i])'
      BY ONLY <1>5, <1>11, <1>13, Zenon
    <2> QED
      BY <1>3, <1>9, <1>10, <1>12, <1>13, <2>1 DEF From
  <1> QED
    BY <1>3, <1>14 DEF PartInv

\* What a node has sent stays what it is, also when backends move.
LEMMA SentKept ==
  ASSUME UNCHANGED <<query, down>>, moved \subseteq moved',
         \A n \in Nodes : Mine(n)' = Mine(n) \ moved', NEW n \in Nodes, NEW f
  PROVE  (Reports(n, f) => Reports(n, f)') /\ (Brings(n, f) => Brings(n, f)')
  <1>1. Reports(n, f) => Reports(n, f)'
    BY DEF Reports
  <1>2. ASSUME Brings(n, f)
        PROVE  Brings(n, f)'
    <2>1. PICK B \in SUBSET Backends : B \ moved = Mine(n) \ down /\ Holds(query, B, f)
      BY <1>2 DEF Brings
    <2>2. B \ moved' = Mine(n)' \ down'
      BY <2>1
    <2>3. Holds(query', B, f)
      BY <2>1
    <2> QED
      BY <2>2, <2>3 DEF Brings
  <1> QED
    BY <1>1, <1>2

\* So do the parts that are collected.
LEMMA PartsKept ==
  ASSUME PartInv, UNCHANGED <<query, hashes, parts, down>>, Pushed' = Pushed,
         moved \subseteq moved', \A n \in Nodes : Mine(n)' = Mine(n) \ moved'
  PROVE  PartInv'
  <1>1. PICK g : From(g)
    BY DEF PartInv
  <1>2. \A n \in Nodes : \A f : (Reports(n, f) => Reports(n, f)') /\ (Brings(n, f) => Brings(n, f)')
    BY SentKept
  <1>3. /\ g \in [1 .. Len(hashes) -> Pushed]
        /\ \A i, j \in 1 .. Len(hashes) : g[i] = g[j] => i = j
        /\ \A m \in Pushed : \E i \in 1 .. Len(hashes) : g[i] = m
        /\ \A i \in 1 .. Len(hashes) :
             Reports(g[i], hashes[i]) /\ Brings(g[i], parts[i]) /\ g[i] \in Nodes
    BY <1>1 DEF From, Pushed
  <1>4. \A i \in 1 .. Len(hashes) : Reports(g[i], hashes[i])' /\ Brings(g[i], parts[i])'
    BY <1>2, <1>3
  <1>5. From(g)'
    BY <1>3, <1>4 DEF From
  <1> QED
    BY <1>5 DEF PartInv

\* There are as many parts as nodes that have added one.
LEMMA PartsOfNodes ==
  ASSUME Types, PartInv, NEW S, S \subseteq Nodes, Pushed \subseteq S
  PROVE  /\ IsFiniteSet(S) /\ Cardinality(S) \in Nat /\ Len(parts) \in Nat
         /\ Len(parts) <= Cardinality(S)
         /\ Len(parts) = Cardinality(S) => S \subseteq Pushed
  <1>1. PICK g : From(g)
    BY DEF PartInv
  <1>2. Len(hashes) \in Nat /\ Len(parts) = Len(hashes)
    BY DEF Types, ChannelTypes
  <1>3. IsFiniteSet(S) /\ Cardinality(S) \in Nat
    BY MeAssumption, FS_Subset, FS_CardinalityType
  <1>4. g \in [1 .. Len(hashes) -> S]
    BY <1>1 DEF From
  <1>5. g \in Injection(1 .. Len(hashes), S)
    BY <1>1, <1>4 DEF From, Injection, IsInjective
  <1>6. Cardinality(1 .. Len(hashes)) = Len(hashes)
    BY ONLY <1>2, CountNumbers, Zenon
  <1>7. /\ Len(hashes) <= Cardinality(S)
        /\ Len(hashes) = Cardinality(S) => g \in Surjection(1 .. Len(hashes), S)
    BY <1>3, <1>5, <1>6, FS_Injection
  <1>8. g \in Surjection(1 .. Len(hashes), S) => S \subseteq Pushed
    <2> SUFFICES ASSUME g \in Surjection(1 .. Len(hashes), S), NEW n \in S
                 PROVE  n \in Pushed
      OBVIOUS
    <2>1. PICK i \in 1 .. Len(hashes) : g[i] = n
      BY DEF Surjection
    <2> QED
      BY <1>1, <2>1 DEF From
  <1> QED
    BY <1>2, <1>3, <1>7, <1>8

\* One part more.
LEMMA Appended ==
  ASSUME ChannelTypes, NEW x, parts' = Append(parts, x)
  PROVE  (\E S : parts' \in Seq(S)) /\ Len(parts') = Len(parts) + 1
  <1>1. PICK S : parts \in Seq(S)
    BY DEF ChannelTypes
  <1>2. parts \in Seq(S \cup {x})
    BY <1>1
  <1>3. parts' \in Seq(S \cup {x}) /\ Len(parts') = Len(parts) + 1
    BY <1>2
  <1> QED
    BY <1>3

\* Without a change of query and cluster their names stay the same.
LEMMA SameCluster ==
  ASSUME UNCHANGED <<request, cluster>>
  PROVE  /\ UNCHANGED <<query, down, has, routes, gone, moved, old, added>>
         /\ Requested' = Requested /\ IsStats' = IsStats /\ LoopMap' = LoopMap
         /\ \A n : Mine(n)' = Mine(n) /\ Mine(n)' = Mine(n) \ moved'
         /\ ClusterTypes => ClusterTypes'
         /\ RouteInv => RouteInv'
  <1>1. UNCHANGED <<query, down, has, routes, gone, moved, old, added>>
    BY DEF request, cluster
  <1>2. Requested' = Requested /\ IsStats' = IsStats /\ LoopMap' = LoopMap
    BY <1>1 DEF Requested, AllRequested, IsStats, LoopMap
  <1>3. \A n : Mine(n)' = Mine(n) /\ Mine(n)' = Mine(n) \ moved'
    BY <1>1, <1>2 DEF Mine
  <1>4. ClusterTypes => ClusterTypes'
    BY <1>1, <1>2 DEF ClusterTypes
  <1>5. RouteInv => RouteInv'
    BY <1>1, <1>2 DEF RouteInv
  <1> QED
    BY <1>1, <1>2, <1>3, <1>4, <1>5

\* What is requested are backends.
LEMMA Asked ==
  ASSUME Types
  PROVE  Requested \subseteq Backends /\ \A n \in Nodes : Mine(n) \subseteq Backends \ moved
  BY QueriesAssumption DEF Types, Requested, Mine

\* What the loop finds for a node.
LEMMA RoutesFind ==
  ASSUME Types, RouteInv, NEW n \in DOMAIN LoopMap
  PROVE  /\ n \in Nodes
         /\ Mine(n) \subseteq getSubBackends(n) /\ getSubBackends(n) \subseteq Backends
         /\ getSubBackends(n) \subseteq Requested
  <1>1. n \in Nodes /\ LoopMap[n] \subseteq Backends
    BY DEF Types, ClusterTypes
  <1>2. \A b \in Mine(n) : b \in Backends \ moved /\ b \in has[n] /\ b \in Requested
    BY <1>1, Asked DEF Mine
  <1>3. \A b \in Mine(n) : b \in LoopMap[n]
    BY <1>2 DEF RouteInv
  <1> QED
    BY <1>1, <1>2, <1>3 DEF getSubBackends, Requested

-----------------------------------------------------------------------------
(* The answer.                                                              *)

\* What AnswerInv says of an answer, to use it before the answer is given.
RightAnswer(a) ==
  /\ Countable /\ ~ IsStats => a.failed \cap (Requested \ moved) = down \cap (Requested \ moved)
  /\ Countable /\ Mergeable /\ ~ IsStats =>
       RightRows(query, (Requested \ moved) \ a.failed, moved, a.rows)
  /\ Countable /\ Mergeable /\ IsStats /\ moved = {} =>
       a.stat = finalStatsApply(StatOf(RowSet(Requested \ down)))

\* A right answer is given.
LEMMA AnswerIsRight ==
  ASSUME UNCHANGED <<request, cluster, asked>>, RightAnswer(answer')
  PROVE  FailuresReported' /\ AnswerOrError'
  <1>1. UNCHANGED <<query, down, routes, moved>> /\ Requested' = Requested /\ IsStats' = IsStats
    BY SameCluster
  <1>2. Countable' = Countable /\ Mergeable' = Mergeable
    BY <1>1 DEF Countable, Visited, Mergeable
  <1>3. \A R : StatOf(R)' = StatOf(R)
    BY <1>1 DEF StatOf, Blank
  <1>4. FailuresReported'
    BY <1>1, <1>2 DEF RightAnswer, FailuresReported
  <1>5. RowsOrError'
    BY <1>1, <1>2 DEF RightAnswer, RightRows, RowsOrError
  <1>6. StatOrError'
    BY <1>1, <1>2, <1>3 DEF RightAnswer, StatOrError
  <1> QED
    BY <1>4, <1>5, <1>6 DEF AnswerOrError

\* There is no answer yet.
LEMMA NoAnswerYet ==
  ASSUME ~ answer.ok, answer' = answer
  PROVE  AnswerInv'
  <1>1. ~ answer'.ok
    OBVIOUS
  <1> QED
    BY <1>1 DEF AnswerInv, FailuresReported, AnswerOrError, RowsOrError, StatOrError

\* What the assumptions on the constants say of the query.
LEMMA QueryFacts ==
  ASSUME Types
  PROVE  /\ query.limit \in Int /\ query.offset \in Nat /\ (Mergeable <=> Plain(query))
         /\ query.stats # "none" /\ query.stats # "min" => query.stats \in Kinds
         /\ Requested \subseteq Backends
  BY QueriesAssumption DEF Types, Kinds, Requested, Mergeable, Plain

\* The stats of a node that answers alone are those over the rows of its backends.
LEMMA StatOfRows ==
  ASSUME NEW R
  PROVE  /\ query.stats # "min" => Blank = Empty(query.stats)
         /\ query.stats # "min" => StatOf(R) = StatOver(query.stats, R)
  <1>1. PICK f : f = [j \in DOMAIN <<query>> |->
           [stats |-> <<query>>[j].stats, val |-> IF <<query>>[j].stats = "min" THEN -1 ELSE 0,
            cnt |-> 0]]
    OBVIOUS
  <1>2. Blank = f[1]
    BY <1>1 DEF Blank, createLocalStatsCopy
  <1>3. 1 \in DOMAIN <<query>> /\ <<query>>[1] = query
    OBVIOUS
  <1>4. f[1] = [stats |-> query.stats, val |-> IF query.stats = "min" THEN -1 ELSE 0, cnt |-> 0]
    BY <1>1, <1>3
  <1>5. query.stats # "min" => Blank = Empty(query.stats)
    BY <1>2, <1>4 DEF Empty
  <1> QED
    BY <1>5 DEF StatOf, StatOver

\* What a node answers for the backends it serves.
LEMMA LocalHolds ==
  ASSUME Types, NEW n, NEW backends \in SUBSET Backends, NEW offset, offset \in {0, query.offset},
         NEW limit \in Int, query.limit < 0 => limit < 0,
         query.offset = 0 => limit < 0 \/ limit >= query.limit
  PROVE  /\ Served(n, backends) \in SUBSET Backends
         /\ Holds(query, Served(n, backends), LocalAnswer(n, backends, offset, limit))
  <1>1. PICK B, p : B = Served(n, backends) /\ p = LocalAnswer(n, backends, offset, limit)
    OBVIOUS
  <1>2. B \subseteq Backends
    BY <1>1 DEF Served
  <1>3. ASSUME Plain(query)
        PROVE  Holds(query, B, p)
    <2>1. Found(n, backends) = RowSet(B) /\ offset = 0 /\ query.stats # "min" /\ query.offset = 0
      BY <1>1, <1>3 DEF Found, Plain
    <2>2. CASE IsStats
      <3>1. \/ p = <<StatOf(RowSet(B))>>
            \/ RowSet(B) = {} /\ p = << >>
            \/ backends \cap has[n] = {} /\ p = << >>
        BY <1>1, <2>1, <2>2 DEF LocalAnswer
      <3>2. backends \cap has[n] = {} => RowSet(B) = {}
        BY <1>1 DEF Served, RowSet
      <3>3. StatOf(RowSet(B)) = StatOver(query.stats, RowSet(B))
        BY <2>1, StatOfRows
      <3>4. StatPart(query.stats, B, p)
        BY <1>2, <3>1, <3>2, <3>3 DEF StatPart
      <3> QED
        BY <2>2, <3>4 DEF Holds, IsStats
    <2>3. CASE ~ IsStats
      <3>1. p = Cut(InOrder(query.sort, RowSet(B)), 0, limit)
        BY <1>1, <2>1, <2>3 DEF LocalAnswer
      <3>2. RowPart(query, B, p)
        BY <1>2, <2>1, <3>1 DEF RowPart
      <3> QED
        BY <2>3, <3>2 DEF Holds, IsStats
    <2> QED
      BY <2>2, <2>3
  <1>4. Holds(query, B, p)
    BY <1>3 DEF Holds
  <1> QED
    BY <1>1, <1>2, <1>4

\* Every node that has a part to bring has brought it: the loop has met it, and were its answer
\* bad there would be fewer parts than nodes.
LEMMA AllBrought ==
  ASSUME Types, RouteInv, LoopInv, PartInv, AllCalledBack, Countable,
         Len(parts) = Cardinality(DOMAIN routes), NEW n \in Nodes, Mine(n) # {}
  PROVE  n \in Pushed
  <1>1. PICK b \in Mine(n) : b \in Backends \ moved /\ b \in has[n]
    BY Asked DEF Mine
  <1>2. PICK m \in DOMAIN LoopMap \ added : b \in has[m]
    BY <1>1 DEF RouteInv
  <1>3. m = n
    BY <1>1, <1>2 DEF RouteInv, Types, ClusterTypes
  <1>4. asked[n] # "no" /\ asked[n] # "wait" /\ asked[n] # "held" /\ ~ Ended
    BY <1>2, <1>3 DEF AllCalledBack, LoopOver, InSendQuery, Ended
  <1>5. asked[n] \in {"pushed", "bad"}
    BY <1>4 DEF LoopInv, Types, LoopTypes
  <1>6. ASSUME asked[n] = "bad"
        PROVE  FALSE
    <2>1. Visited \subseteq DOMAIN routes
      BY <1>6 DEF Countable
    <2>2. Pushed \subseteq DOMAIN routes /\ n \in DOMAIN routes
      BY <1>6, <2>1 DEF Visited, Pushed
    <2>3. DOMAIN routes \subseteq Nodes
      BY DEF Types, ClusterTypes
    <2>4. DOMAIN routes \subseteq Pushed
      BY <2>2, <2>3, PartsOfNodes
    <2> QED
      BY <1>6, <2>2, <2>4 DEF Pushed
  <1> QED
    BY <1>5, <1>6 DEF Pushed

\* The backends of the parts.
LEMMA Gathered ==
  ASSUME Types, RouteInv, PartInv, \A n \in Nodes : Mine(n) # {} => n \in Pushed
  PROVE  \E bs : /\ Divided(bs, Len(parts), (Requested \ moved) \ down, moved)
                 /\ \A i \in 1 .. Len(parts) : Holds(query, bs[i], parts[i])
  <1>1. PICK k : k = Len(hashes) /\ k = Len(parts)
    BY DEF Types, ChannelTypes
  <1>2. PICK g : From(g)
    BY DEF PartInv
  <1>3. \A i \in 1 .. k : /\ Brings(g[i], parts[i]) /\ g[i] \in Nodes
                          /\ \A j \in 1 .. k : g[i] = g[j] => i = j
    BY <1>1, <1>2 DEF From, Pushed
  <1> DEFINE Part(i, B) == B \ moved = Mine(g[i]) \ down /\ Holds(query, B, parts[i])
  <1>4. PICK bs : bs = [i \in 1 .. k |-> CHOOSE B \in SUBSET Backends : Part(i, B)]
    OBVIOUS
  <1>5. \A i \in 1 .. k : \E B \in SUBSET Backends : Part(i, B)
    BY <1>3 DEF Brings
  <1> HIDE DEF Part
  <1>6. \A i \in 1 .. k : bs[i] \in SUBSET Backends /\ Part(i, bs[i])
    BY ONLY <1>4, <1>5
  <1>7. \A i \in 1 .. k : /\ bs[i] \subseteq Backends /\ Holds(query, bs[i], parts[i])
                          /\ bs[i] \ moved = Mine(g[i]) \ down
    BY ONLY <1>6 DEF Part
  <1>8. \A i \in 1 .. k : bs[i] \subseteq ((Requested \ moved) \ down) \cup moved
    BY <1>7 DEF Mine
  <1>9. ASSUME NEW b \in (Requested \ moved) \ down
        PROVE  b \in Backends /\ b \notin moved /\ \E i \in 1 .. k : b \in bs[i]
    <2>1. b \in Backends \ moved
      BY <1>9, Asked
    <2>2. PICK n \in Nodes : b \in has[n]
      BY <2>1 DEF RouteInv, Types, ClusterTypes
    <2>3. b \in Mine(n) \ down
      BY <1>9, <2>2 DEF Mine
    <2>4. PICK i \in 1 .. k : g[i] = n
      BY <1>1, <1>2, <2>3 DEF From
    <2> QED
      BY <1>7, <2>1, <2>3, <2>4
  <1>10. ASSUME NEW i \in 1 .. k, NEW j \in 1 .. k, NEW b \in bs[i] \cap bs[j], b \notin moved
         PROVE  i = j
    <2>1. b \in Backends \ moved /\ b \in Mine(g[i]) /\ b \in Mine(g[j])
      BY <1>7, <1>10
    <2>2. b \in has[g[i]] /\ b \in has[g[j]]
      BY <2>1 DEF Mine
    <2>3. g[i] = g[j]
      BY <1>3, <2>1, <2>2 DEF RouteInv
    <2> QED
      BY <1>3, <2>3
  <1>11. Divided(bs, k, (Requested \ moved) \ down, moved)
    BY <1>7, <1>8, <1>9, <1>10 DEF Divided
  <1> QED
    BY <1>1, <1>7, <1>11

\* One accumulator, or none, as the part of a node.
LEMMA OnePart ==
  ASSUME NEW R, NEW v \in R, NEW p, p = <<v>> \/ p = << >>
  PROVE  p \in Seq(R)
  <1>1. <<v>> \in Seq(R)
    OBVIOUS
  <1>2. << >> \in Seq(R)
    OBVIOUS
  <1> QED
    BY ONLY <1>1, <1>2, p = <<v>> \/ p = << >>, Zenon

\* The backends behind the first n parts.
Behind(bs, n) == UNION {bs[i] : i \in 1 .. n}

\* The statistics of parts that have the backends of U behind them.
LEMMA StatsOfUnion ==
  ASSUME NEW t \in Kinds, NEW ps, ps \in Seq(Seq(AccSet(t))), NEW bs, StatParts(t, bs, ps),
         NEW U, Behind(bs, Len(ps)) = U
  PROVE  Accumulated(Empty(t), FlattenSeq(ps)) = StatOver(t, RowSet(U))
  <1>1. Accumulated(Empty(t), FlattenSeq(ps)) =
          StatOver(t, RowSet(UNION {bs[i] : i \in 1 .. Len(ps)}))
    BY StatsMerged
  <1> QED
    BY ONLY <1>1, Behind(bs, Len(ps)) = U, Zenon DEF Behind

\* The parts that are merged.
LEMMA MergedAnswer ==
  ASSUME Types, RouteInv, PartInv, Mergeable, \A n \in Nodes : Mine(n) # {} => n \in Pushed
  PROVE  /\ ~ IsStats => RightRows(query, (Requested \ moved) \ down, moved, MergedRows)
         /\ IsStats /\ moved = {} =>
              MergedStat = finalStatsApply(StatOf(RowSet(Requested \ down)))
  <1>1. PICK bs : /\ Divided(bs, Len(parts), (Requested \ moved) \ down, moved)
                  /\ \A i \in 1 .. Len(parts) : Holds(query, bs[i], parts[i])
    BY Gathered
  <1>2. PICK S : parts \in Seq(S)
    BY DEF Types, ChannelTypes
  <1>3. query.limit \in Int /\ query.offset = 0 /\ query.stats # "min" /\ Plain(query)
    BY QueryFacts DEF Mergeable
  <1>4. CASE ~ IsStats
    <2>1. \A i \in 1 .. Len(parts) : RowPart(query, bs[i], parts[i])
      BY <1>1, <1>3, <1>4 DEF Holds, IsStats
    <2>2. MergedRows =
            Cut(IF query.sort = "none" THEN FlattenSeq(parts) ELSE Sorted("first", FlattenSeq(parts)),
                query.offset, query.limit)
      BY DEF MergedRows
    <2>3. RightRows(query, (Requested \ moved) \ down, moved, MergedRows)
      BY ONLY <1>1, <1>2, <1>3, <2>1, <2>2, MergedRight
    <2> QED
      BY <1>4, <2>3
  <1>5. CASE IsStats /\ moved = {}
    <2>1. PICK t : t = query.stats /\ t \in Kinds
      BY <1>3, <1>5, QueryFacts DEF IsStats
    <2>2. \A i \in 1 .. Len(parts) : StatPart(t, bs[i], parts[i])
      BY <1>1, <1>3, <1>5, <2>1 DEF Holds, IsStats
    <2>3. \A i, j \in 1 .. Len(parts) : i # j => bs[i] \cap bs[j] = {}
      BY <1>1, <1>5 DEF Divided
    <2>4. StatParts(t, bs, parts)
      BY <2>2, <2>3 DEF StatParts
    <2>5. Behind(bs, Len(parts)) = Requested \ down
      BY <1>1, <1>5 DEF Divided, Behind
    <2>6. \A i \in 1 .. Len(parts) : parts[i] \in Seq(AccSet(t))
      <3> SUFFICES ASSUME NEW i \in 1 .. Len(parts)
                   PROVE  parts[i] \in Seq(AccSet(t))
        OBVIOUS
      <3>1. PICK B, p : B = bs[i] /\ p = parts[i] /\ StatPart(t, B, p)
        BY <2>2
      <3>2. PICK v : v = StatOver(t, RowSet(B)) /\ v \in AccSet(t)
        BY <2>1, <3>1, StatOverInSet DEF StatPart
      <3>3. p = <<v>> \/ p = << >>
        BY <3>1, <3>2 DEF StatPart
      <3>4. p \in Seq(AccSet(t))
        BY ONLY <3>2, <3>3, OnePart, Zenon
      <3> QED
        BY <3>1, <3>4
    <2>7. parts \in Seq(Seq(AccSet(t)))
      BY <1>2, <2>6
    <2>8. Accumulated(Empty(t), FlattenSeq(parts)) = StatOver(t, RowSet(Requested \ down))
      <3>1. PICK ps, U : ps = parts /\ U = Requested \ down
        OBVIOUS
      <3>2. /\ ps \in Seq(Seq(AccSet(t))) /\ StatParts(t, bs, ps)
            /\ Behind(bs, Len(ps)) = U
        BY ONLY <2>4, <2>5, <2>7, <3>1, Zenon
      <3>3. Accumulated(Empty(t), FlattenSeq(ps)) = StatOver(t, RowSet(U))
        BY ONLY <2>1, <3>2, StatsOfUnion
      <3> QED
        BY ONLY <3>1, <3>3, Zenon
    <2>9. /\ Blank = Empty(t)
          /\ StatOf(RowSet(Requested \ down)) = StatOver(t, RowSet(Requested \ down))
      BY <1>3, <2>1, StatOfRows
    <2> QED
      BY <1>5, <2>8, <2>9 DEF MergedStat
  <1> QED
    BY <1>4, <1>5


-----------------------------------------------------------------------------
(* Steps of the query.                                                      *)

\* A step of the query before there is an answer.
LEMMA QueryStep ==
  ASSUME IInv, ~ Settled, UNCHANGED <<request, cluster, answer>>,
         LoopTypes', ChannelTypes', LoopInv', AskInv', PartInv'
  PROVE  IInv'
  <1>1. UNCHANGED <<query, down>> /\ ClusterTypes' /\ RouteInv'
    BY SameCluster DEF IInv, Types
  <1>2. Types'
    BY <1>1 DEF IInv, Types, IsAnswer
  <1>3. AnswerInv'
    BY NoAnswerYet DEF IInv, AnswerInv
  <1> QED
    BY <1>1, <1>2, <1>3 DEF IInv

\* A node that the step does not touch, or that is through.
LEMMA AskKept ==
  ASSUME IInv, UNCHANGED <<request, cluster>>, NEW n \in Nodes,
         asked'[n] \in {"wait", "held"} =>
           asked'[n] = asked[n] /\ sent'[n] = sent[n] /\ got'[n] = got[n]
  PROVE  AskedAll(n)'
  <1>1. /\ UNCHANGED <<query, down>> /\ moved \subseteq moved' /\ Requested' = Requested
        /\ \A m : Mine(m)' = Mine(m) \ moved' /\ Mine(m)' = Mine(m)
    BY SameCluster
  <1>2. AskedAll(n)
    BY DEF IInv, AskInv
  <1>3. \A f : (Reports(n, f) => Reports(n, f)') /\ (Brings(n, f) => Brings(n, f)')
    BY <1>1, SentKept
  <1>4. (asked[n] = "wait")' => (Mine(n) \subseteq sent[n] /\ sent[n] \subseteq Requested)'
    BY <1>1, <1>2 DEF AskedAll
  <1>5. (asked[n] = "held")' => (Reports(n, got[n].failed) /\ Brings(n, got[n].part))'
    <2> SUFFICES ASSUME asked'[n] = "held"
                 PROVE  Reports(n, got[n].failed)' /\ Brings(n, got[n].part)'
      OBVIOUS
    <2>1. PICK f, p : f = got[n].failed /\ p = got[n].part /\ Reports(n, f) /\ Brings(n, p)
      BY <1>2 DEF AskedAll
    <2>2. f = got'[n].failed /\ p = got'[n].part
      BY <2>1
    <2>3. Reports(n, f)' /\ Brings(n, p)'
      BY <1>3, <2>1
    <2> QED
      BY ONLY <2>2, <2>3, Zenon
  <1> QED
    BY <1>4, <1>5 DEF AskedAll

\* Parts that stay, in an unchanged cluster.
LEMMA PartsStay ==
  ASSUME IInv, UNCHANGED <<request, cluster, channels>>, Pushed' = Pushed
  PROVE  ChannelTypes' /\ PartInv'
  <1>1. /\ UNCHANGED <<query, down, hashes, parts>> /\ moved \subseteq moved'
        /\ \A n : Mine(n)' = Mine(n) \ moved'
    BY SameCluster DEF channels
  <1>2. ChannelTypes'
    BY <1>1 DEF IInv, Types, ChannelTypes
  <1>3. PartInv'
    BY <1>1, PartsKept DEF IInv
  <1> QED
    BY <1>2, <1>3

\* The loop goes on to another place, and nothing else happens.
LEMMA PcStep ==
  ASSUME IInv, ~ Ended, UNCHANGED <<request, cluster, asked, replies, channels, answer>>,
         keys' \subseteq Nodes, pc' \in {"made", "loop", "done", "panic"},
         pc' = "made" => pc = "start"
  PROVE  IInv'
  <1>1. LoopTypes'
    BY DEF IInv, Types, LoopTypes, replies
  <1>2. Pushed' = Pushed /\ Visited' = Visited
    BY DEF Pushed, Visited
  <1>3. LoopInv'
    BY SameCluster DEF IInv, LoopInv, Ended
  <1>4. AskInv'
    BY AskKept DEF AskInv, replies
  <1>5. ~ Settled
    BY DEF Ended, Settled
  <1>6. ChannelTypes' /\ PartInv'
    BY <1>2, PartsStay
  <1> QED
    BY <1>1, <1>3, <1>4, <1>5, <1>6, QueryStep

\* The steps that only go on.
LEMMA GoesOn ==
  ASSUME IInv,
         \/ Distribute \/ StartLoop \/ MapWriteSeen \/ Timeout \/ WrongNumber \/ MergePanics
         \/ \E n \in Nodes : VisitPanics(n)
  PROVE  IInv'
  <1>1. DOMAIN routes \subseteq Nodes /\ keys \subseteq Nodes
    BY DEF IInv, Types, ClusterTypes, LoopTypes
  <1>2. CASE Distribute
    BY <1>1, <1>2, PcStep DEF Distribute, Ended
  <1>3. CASE StartLoop
    BY <1>1, <1>3, PcStep DEF StartLoop, Ended
  <1>4. CASE MapWriteSeen
    BY <1>1, <1>4, PcStep DEF MapWriteSeen, Ended
  <1>5. CASE Timeout
    BY <1>1, <1>5, PcStep DEF Timeout, LoopOver, Ended
  <1>6. CASE WrongNumber
    BY <1>1, <1>6, PcStep DEF WrongNumber, AllCalledBack, LoopOver, Ended
  <1>7. CASE MergePanics
    BY <1>1, <1>7, PcStep DEF MergePanics, AllCalledBack, LoopOver, Ended
  <1>8. CASE \E n \in Nodes : VisitPanics(n)
    BY <1>1, <1>8, PcStep DEF VisitPanics, Visiting, Ended
  <1> QED
    BY <1>2, <1>3, <1>4, <1>5, <1>6, <1>7, <1>8

\* A node without a part gets another mark.
LEMMA MarkStep ==
  ASSUME IInv, ~ Settled, UNCHANGED <<request, cluster, keys, channels, answer>>,
         NEW n \in Nodes, asked[n] \in {"no", "wait"}, pc \notin {"start", "made"},
         NEW mark \in {"wait", "held", "bad", "failed", "stuck"},
         asked' = [asked EXCEPT ![n] = mark], pc' \in {pc, "done", "blocked"},
         mark \in {"failed", "stuck"} => pc' \in {"done", "blocked"},
         pc' = "blocked" => pc = "blocked" \/ ~ Visited' \subseteq keys,
         sent' \in [Nodes -> SUBSET Backends], got' = [m \in Nodes |-> got'[m]],
         \A m \in Nodes \ {n} : sent'[m] = sent[m] /\ got'[m] = got[m],
         AskedAll(n)'
  PROVE  IInv'
  <1>1. /\ asked \in [Nodes -> {"no", "wait", "held", "pushed", "bad", "failed", "stuck"}]
        /\ pc \in {"start", "made", "loop", "done", "panic", "blocked"}
    BY DEF IInv, Types, LoopTypes
  <1>2. asked'[n] = mark /\ \A m \in Nodes \ {n} : asked'[m] = asked[m]
    BY <1>1
  <1>3. LoopTypes'
    BY <1>1 DEF IInv, Types, LoopTypes
  <1>4. Pushed' = Pushed /\ Visited \subseteq Visited'
    BY <1>2 DEF Pushed, Visited
  <1>5. LoopInv'
    BY <1>1, <1>2, <1>4 DEF IInv, LoopInv, Ended
  <1>6. AskInv'
    BY <1>2, AskKept DEF AskInv
  <1>7. ChannelTypes' /\ PartInv'
    BY <1>4, PartsStay
  <1> QED
    BY <1>3, <1>5, <1>6, <1>7, QueryStep

\* A node adds its part.
LEMMA PartStep ==
  ASSUME IInv, ~ Settled, UNCHANGED <<request, cluster, keys, pc, replies, answer>>,
         NEW n \in Nodes, asked[n] \in {"no", "held"}, pc \notin {"start", "made"},
         NEW x, NEW failed \in SUBSET Backends, Collect(n, x, failed),
         Reports(n, failed), Brings(n, x)
  PROVE  IInv'
  <1>1. /\ asked \in [Nodes -> {"no", "wait", "held", "pushed", "bad", "failed", "stuck"}]
        /\ asked' = [asked EXCEPT ![n] = "pushed"]
    BY DEF IInv, Types, LoopTypes, Collect
  <1>2. asked'[n] = "pushed" /\ \A m \in Nodes \ {n} : asked'[m] = asked[m]
    BY <1>1
  <1>3. LoopTypes'
    BY <1>1 DEF IInv, Types, LoopTypes, replies
  <1>4. n \notin Pushed /\ Pushed' = Pushed \cup {n} /\ Visited \subseteq Visited'
    BY <1>2 DEF Pushed, Visited
  <1>5. LoopInv'
    BY <1>2, <1>4 DEF IInv, LoopInv, Ended
  <1>6. AskInv'
    BY <1>2, AskKept DEF AskInv, replies
  <1>7. /\ UNCHANGED <<query, has, down, moved>>
        /\ parts' = Append(parts, x) /\ hashes' = Append(hashes, failed)
    BY SameCluster DEF Collect
  <1>8. PartInv' /\ hashes' \in Seq(SUBSET Backends) /\ Len(hashes') = Len(hashes) + 1
    BY <1>4, <1>7, PartAdded DEF IInv
  <1>9. ChannelTypes'
    <2>1. (\E S : parts' \in Seq(S)) /\ Len(parts') = Len(parts) + 1
      BY <1>7, Appended DEF IInv, Types
    <2> QED
      BY <1>8, <2>1 DEF IInv, Types, ChannelTypes
  <1> QED
    BY <1>3, <1>5, <1>6, <1>8, <1>9, QueryStep

\* A node that is asked for what it has, and maybe for more that moved.
LEMMA ServedMine ==
  ASSUME IInv, NEW n \in Nodes, NEW asks \in SUBSET Requested, Mine(n) \subseteq asks
  PROVE  /\ Served(n, asks) \ moved = Mine(n) \ down
         /\ Reports(n, FailedOf(n, asks)) /\ FailedOf(n, asks) \in SUBSET Backends
  <1>1. Requested \subseteq Backends /\ down \subseteq Backends
    BY Asked DEF IInv, Types
  <1> QED
    BY <1>1 DEF Served, Reports, FailedOf, Mine

\* What it answers is what it has to bring.
LEMMA AnswerBrings ==
  ASSUME IInv, NEW n \in Nodes, NEW asks \in SUBSET Requested, Mine(n) \subseteq asks,
         NEW offset, NEW limit,
         \/ offset = query.offset /\ limit = query.limit
         \/ offset = 0 /\ limit = PartLimit
  PROVE  Brings(n, LocalAnswer(n, asks, offset, limit))
  <1>1. asks \in SUBSET Backends
    BY Asked DEF IInv
  <1>2. query.limit \in Int /\ query.offset \in Nat
    BY QueryFacts DEF IInv
  <1>3. /\ limit \in Int /\ offset \in {0, query.offset}
        /\ query.limit < 0 => limit < 0
        /\ query.offset = 0 => limit < 0 \/ limit >= query.limit
    BY <1>2 DEF PartLimit
  <1>4. /\ Served(n, asks) \in SUBSET Backends
        /\ Holds(query, Served(n, asks), LocalAnswer(n, asks, offset, limit))
    BY <1>1, <1>3, LocalHolds DEF IInv
  <1> QED
    BY <1>4, ServedMine DEF Brings

\* A node without requested backends brings an empty part.
LEMMA NothingToBring ==
  ASSUME IInv, NEW n \in Nodes, Mine(n) = {}
  PROVE  Reports(n, {}) /\ Brings(n, << >>)
  <1>1. RowSet({}) = {}
    BY DEF RowSet
  <1>2. Plain(query) => Holds(query, {}, << >>)
    <2>1. RowPart(query, {}, << >>)
      <3>1. PICK a : a = InOrder(query.sort, RowSet({})) /\ Enumerates(a, RowSet({}))
        BY RowsArranged
      <3>2. a \in Seq(Int) /\ Len(a) = 0
        BY <1>1, <3>1 DEF Enumerates
      <3>3. a = << >>
        BY <3>2
      <3>4. -1 \in Int /\ -1 < 0
        OBVIOUS
      <3>5. Cut(a, 0, -1) = << >>
        BY ONLY <3>2, <3>3, <3>4, CutFacts
      <3> QED
        BY <3>1, <3>4, <3>5 DEF RowPart
    <2>2. StatPart(query.stats, {}, << >>)
      BY <1>1 DEF StatPart
    <2> QED
      BY <2>1, <2>2 DEF Holds
  <1>3. Holds(query, {}, << >>)
    BY <1>2 DEF Holds
  <1> QED
    BY <1>3 DEF Reports, Brings

\* The loop collects a part itself.
LEMMA LoopCollects ==
  ASSUME IInv, VisitMe \/ \E n \in Nodes : VisitSkip(n)
  PROVE  IInv'
  <1>1. CASE VisitMe
    <2>1. /\ Me \in Nodes /\ asked[Me] = "no" /\ pc = "loop"
          /\ UNCHANGED <<request, cluster, keys, pc, replies, answer>>
          /\ Collect(Me, LocalAnswer(Me, Requested, query.offset, query.limit),
                     FailedOf(Me, Requested))
      BY <1>1, MeAssumption DEF VisitMe, Visiting
    <2>2. Mine(Me) \subseteq Requested
      BY DEF Mine
    <2>3. /\ Reports(Me, FailedOf(Me, Requested)) /\ FailedOf(Me, Requested) \in SUBSET Backends
          /\ Brings(Me, LocalAnswer(Me, Requested, query.offset, query.limit))
      BY <2>1, <2>2, ServedMine, AnswerBrings
    <2> QED
      BY <2>1, <2>3, PartStep DEF Settled
  <1>2. ASSUME NEW n \in Nodes, VisitSkip(n)
        PROVE  IInv'
    <2>1. /\ asked[n] = "no" /\ pc = "loop" /\ n \in DOMAIN LoopMap /\ getSubBackends(n) = {}
          /\ UNCHANGED <<request, cluster, keys, pc, replies, answer>>
          /\ Collect(n, << >>, {})
      BY <1>2 DEF VisitSkip, Visiting
    <2>2. Mine(n) = {}
      BY <2>1, RoutesFind DEF IInv
    <2> QED
      BY <2>1, <2>2, NothingToBring, PartStep DEF Settled
  <1> QED
    BY <1>1, <1>2

\* A callback does.
LEMMA CallbackCollects ==
  ASSUME IInv, NEW n \in Nodes, Callback(n)
  PROVE  IInv'
  <1>1. /\ asked[n] = "held" /\ UNCHANGED <<request, cluster, keys, pc, replies, answer>>
        /\ Collect(n, got[n].part, got[n].failed)
    BY DEF Callback
  <1>2. Reports(n, got[n].failed) /\ Brings(n, got[n].part)
    BY <1>1 DEF IInv, AskInv, AskedAll
  <1>3. got[n].failed \in SUBSET Backends
    BY <1>2 DEF Reports, IInv, Types
  <1>4. ~ Settled /\ pc \notin {"start", "made"}
    BY <1>1 DEF IInv, LoopInv, Settled
  <1> QED
    BY <1>1, <1>2, <1>3, <1>4, PartStep

\* The loop blocks: it has met a node that was not there when the channels were made.
LEMMA LoopBlocks ==
  ASSUME IInv, NEW n \in Nodes, Blocks(n)
  PROVE  IInv'
  <1>1. /\ pc = "loop" /\ asked[n] = "no" /\ Len(parts) >= Cardinality(keys)
        /\ pc' = "blocked" /\ asked' = [asked EXCEPT ![n] = "stuck"]
        /\ UNCHANGED <<request, cluster, keys, replies, channels, answer>>
    BY DEF Blocks, Visiting
  <1>2. asked'[n] = "stuck" /\ \A m \in Nodes \ {n} : asked'[m] = asked[m]
    BY <1>1 DEF IInv, Types, LoopTypes
  <1>3. ASSUME Visited' \subseteq keys
        PROVE  FALSE
    <2>1. Pushed \subseteq keys /\ n \in keys /\ n \notin Pushed
      BY <1>1, <1>2, <1>3 DEF Visited, Pushed
    <2>2. keys \subseteq Nodes
      BY DEF IInv, Types, LoopTypes
    <2>3. /\ Cardinality(keys) \in Nat /\ Len(parts) \in Nat /\ Len(parts) <= Cardinality(keys)
          /\ Len(parts) = Cardinality(keys) => keys \subseteq Pushed
      BY <2>1, <2>2, PartsOfNodes DEF IInv
    <2> QED
      BY <1>1, <2>1, <2>3
  <1>4. AskedAll(n)'
    BY <1>2 DEF AskedAll
  <1>5. sent' \in [Nodes -> SUBSET Backends] /\ got' = [m \in Nodes |-> got'[m]]
    BY <1>1 DEF IInv, Types, LoopTypes, replies
  <1>6. UNCHANGED <<sent, got>> /\ ~ Settled
    BY <1>1 DEF replies, Settled
  <1> QED
    BY <1>1, <1>3, <1>4, <1>5, <1>6, MarkStep

\* SendQuery begins.
LEMMA LoopAsks ==
  ASSUME IInv, NEW n \in Nodes, VisitRemote(n)
  PROVE  IInv'
  <1>1. /\ pc = "loop" /\ asked[n] = "no" /\ n \in DOMAIN LoopMap
        /\ asked' = [asked EXCEPT ![n] = "wait"]
        /\ sent' = [sent EXCEPT ![n] = getSubBackends(n)]
        /\ UNCHANGED <<request, cluster, keys, pc, got, channels, answer>>
    BY DEF VisitRemote, Visiting
  <1>2. /\ Mine(n) \subseteq getSubBackends(n) /\ getSubBackends(n) \subseteq Backends
        /\ getSubBackends(n) \subseteq Requested
    BY <1>1, RoutesFind DEF IInv
  <1>3. /\ sent \in [Nodes -> SUBSET Backends] /\ got = [m \in Nodes |-> got[m]]
        /\ asked \in [Nodes -> {"no", "wait", "held", "pushed", "bad", "failed", "stuck"}]
    BY DEF IInv, Types, LoopTypes
  <1>4. /\ asked'[n] = "wait" /\ sent'[n] = getSubBackends(n)
        /\ sent' \in [Nodes -> SUBSET Backends]
        /\ \A m \in Nodes \ {n} : sent'[m] = sent[m]
    BY <1>1, <1>2, <1>3
  <1>5. Mine(n)' = Mine(n) /\ Requested' = Requested
    BY <1>1, SameCluster
  <1>6. AskedAll(n)'
    BY <1>2, <1>4, <1>5 DEF AskedAll
  <1>7. got' = [m \in Nodes |-> got'[m]]
    BY <1>1, <1>3
  <1> QED
    BY <1>1, <1>4, <1>6, <1>7, MarkStep DEF Settled

\* SendQuery returns.
LEMMA SendReturns ==
  ASSUME IInv, NEW n \in Nodes, Answer(n) \/ AnswerBad(n) \/ SendFails(n)
  PROVE  IInv'
  <1>1. /\ asked[n] = "wait" /\ UNCHANGED <<request, cluster, keys, sent, channels, answer>>
    BY DEF Answer, AnswerBad, SendFails, replies
  <1>2. ~ Settled /\ pc \notin {"start", "made"}
    BY <1>1 DEF IInv, LoopInv, Settled
  <1>3. /\ sent \in [Nodes -> SUBSET Backends] /\ got = [m \in Nodes |-> got[m]]
        /\ asked \in [Nodes -> {"no", "wait", "held", "pushed", "bad", "failed", "stuck"}]
    BY DEF IInv, Types, LoopTypes
  <1>4. CASE Answer(n)
    <2>1. /\ asked' = [asked EXCEPT ![n] = "held"] /\ pc' = pc
          /\ got' = [got EXCEPT ![n] = [part |-> LocalAnswer(n, sent[n], 0, PartLimit),
                                        failed |-> FailedOf(n, sent[n])]]
      BY <1>4 DEF Answer
    <2>2. Mine(n) \subseteq sent[n] /\ sent[n] \in SUBSET Requested
      BY <1>1 DEF IInv, AskInv, AskedAll
    <2>3. PICK p, f : /\ p = LocalAnswer(n, sent[n], 0, PartLimit) /\ f = FailedOf(n, sent[n])
                      /\ Brings(n, p) /\ Reports(n, f)
      BY <2>2, ServedMine, AnswerBrings
    <2>4. Brings(n, p)' /\ Reports(n, f)'
      BY <1>1, <2>3, SameCluster, SentKept
    <2>5. /\ got' = [m \in Nodes |-> got'[m]] /\ asked'[n] = "held"
          /\ got'[n] = [part |-> p, failed |-> f]
          /\ \A m \in Nodes \ {n} : got'[m] = got[m]
      BY <1>3, <2>1, <2>3
    <2>6. got'[n].part = p /\ got'[n].failed = f
      BY <2>5
    <2>7. Reports(n, got[n].failed)' /\ Brings(n, got[n].part)'
      BY ONLY <2>4, <2>6, Zenon
    <2>8. AskedAll(n)'
      BY <2>5, <2>7 DEF AskedAll
    <2> QED
      BY <1>1, <1>2, <1>3, <2>1, <2>5, <2>8, MarkStep
  <1>5. CASE AnswerBad(n)
    <2>1. asked' = [asked EXCEPT ![n] = "bad"] /\ pc' = pc /\ got' = got
      BY <1>5 DEF AnswerBad, replies
    <2>2. AskedAll(n)'
      BY <1>3, <2>1 DEF AskedAll
    <2> QED
      BY <1>1, <1>2, <1>3, <2>1, <2>2, MarkStep
  <1>6. CASE SendFails(n)
    <2>1. asked' = [asked EXCEPT ![n] = "failed"] /\ pc' = "done" /\ got' = got
      BY <1>6 DEF SendFails, replies
    <2>2. AskedAll(n)'
      BY <1>3, <2>1 DEF AskedAll
    <2> QED
      BY <1>1, <1>2, <1>3, <2>1, <2>2, MarkStep
  <1> QED
    BY <1>4, <1>5, <1>6

\* The answer is given.
LEMMA AnswerStep ==
  ASSUME IInv, UNCHANGED <<request, cluster, keys, asked, replies, channels>>,
         pc' = "done", pc # "panic", \A n \in Nodes : asked[n] \notin {"wait", "held"},
         IsAnswer(answer'), answer'.failed \subseteq Backends, RightAnswer(answer')
  PROVE  IInv'
  <1>1. UNCHANGED <<query, down>> /\ ClusterTypes' /\ RouteInv'
    BY SameCluster DEF IInv, Types
  <1>2. LoopTypes'
    BY DEF IInv, Types, LoopTypes, replies
  <1>3. Pushed' = Pushed
    BY DEF Pushed
  <1>4. ChannelTypes' /\ PartInv'
    BY <1>3, PartsStay
  <1>5. Types'
    BY <1>1, <1>2, <1>4 DEF IInv, Types, IsAnswer
  <1>6. LoopInv'
    BY DEF LoopInv, Ended
  <1>7. AskInv'
    BY AskKept DEF AskInv, replies
  <1>8. AnswerInv'
    BY AnswerIsRight DEF AnswerInv, Settled
  <1> QED
    BY <1>1, <1>4, <1>5, <1>6, <1>7, <1>8 DEF IInv

\* This node answers alone.
LEMMA AloneAnswers ==
  ASSUME IInv, AnswerAlone
  PROVE  IInv'
  <1>1. /\ pc = "start" /\ pc' = "done" /\ Requested = query.backends /\ query.backends \subseteq has[Me]
        /\ UNCHANGED <<request, cluster, keys, asked, replies, channels>>
    BY DEF AnswerAlone, Requested
  <1>2. \A n \in Nodes : asked[n] = "no"
    BY <1>1 DEF IInv, LoopInv
  <1>3. IsAnswer(answer) /\ answer.failed \subseteq Backends /\ down \subseteq Backends
    BY DEF IInv, Types
  <1>4. PICK B : B = Served(Me, Requested) /\ B = Requested \ down /\ B \subseteq Backends
    BY <1>1, Asked DEF Served, IInv
  <1>5. PICK f : f = FailedOf(Me, Requested) /\ f = Requested \cap down
    BY <1>1 DEF FailedOf
  <1>6. CASE IsStats
    <2>1. answer' = [answer EXCEPT !.ok = TRUE, !.failed = f,
                                   !.stat = finalStatsApply(StatOf(Found(Me, Requested)))]
      BY <1>1, <1>5, <1>6 DEF AnswerAlone
    <2>2. /\ IsAnswer(answer') /\ answer'.failed = f
          /\ answer'.stat = finalStatsApply(StatOf(Found(Me, Requested)))
      BY <1>3, <2>1 DEF IsAnswer
    <2>3. Found(Me, Requested) = RowSet(Requested \ down)
      BY <1>4 DEF Found
    <2>4. RightAnswer(answer')
      BY <1>6, <2>2, <2>3 DEF RightAnswer
    <2> QED
      BY <1>1, <1>2, <1>3, <1>5, <2>2, <2>4, AnswerStep
  <1>7. CASE ~ IsStats
    <2>1. answer' = [answer EXCEPT !.ok = TRUE, !.failed = f,
                        !.rows = LocalAnswer(Me, Requested, query.offset, query.limit)]
      BY <1>1, <1>5, <1>7 DEF AnswerAlone
    <2>2. /\ IsAnswer(answer') /\ answer'.failed = f
          /\ answer'.rows = LocalAnswer(Me, Requested, query.offset, query.limit)
      BY <1>3, <2>1 DEF IsAnswer
    <2>3. answer'.rows = Cut(InOrder(query.sort, RowSet(B)), query.offset, query.limit)
      BY <1>4, <1>7, <2>2 DEF LocalAnswer, Found
    <2>4. query.limit \in Int
      BY QueryFacts DEF IInv
    <2>5. Mergeable => RightRows(query, (Requested \ moved) \ f, moved, answer'.rows)
      <3> SUFFICES ASSUME Mergeable
                   PROVE  RightRows(query, (Requested \ moved) \ f, moved, answer'.rows)
        OBVIOUS
      <3>1. query.offset = 0
        BY DEF Mergeable
      <3>2. PICK W : /\ W = (Requested \ moved) \ f /\ W \subseteq B
                     /\ moved = {} => W = B
        BY <1>4, <1>5
      <3> QED
        BY ONLY <1>4, <2>3, <2>4, <3>1, <3>2, AloneRight
    <2>6. RightAnswer(answer')
      BY <1>5, <1>7, <2>2, <2>5 DEF RightAnswer
    <2> QED
      BY <1>1, <1>2, <1>3, <1>5, <2>2, <2>6, AnswerStep
  <1> QED
    BY <1>6, <1>7

\* What the parts report as failed.
LEMMA FailedOfParts ==
  ASSUME IInv
  PROVE  /\ UNION ToSet(hashes) \subseteq down
         /\ \A n \in Pushed : Mine(n) \cap down \subseteq UNION ToSet(hashes)
  <1>1. PICK g : From(g)
    BY DEF IInv, PartInv
  <1>2. ToSet(hashes) = {hashes[i] : i \in 1 .. Len(hashes)}
    BY DEF IInv, Types, ChannelTypes, ToSet
  <1>3. /\ \A n \in Pushed : \E i \in 1 .. Len(hashes) : g[i] = n
        /\ \A i \in 1 .. Len(hashes) :
             hashes[i] \subseteq down /\ Mine(g[i]) \cap down \subseteq hashes[i]
    BY <1>1 DEF From, Reports
  <1> QED
    BY <1>2, <1>3

\* The parts are merged.
LEMMA MergeAnswers ==
  ASSUME IInv, Merge
  PROVE  IInv'
  <1>1. /\ AllCalledBack /\ Len(parts) = Cardinality(DOMAIN routes)
        /\ pc' = "done" /\ UNCHANGED <<request, cluster, keys, asked, replies, channels>>
    BY DEF Merge
  <1>2. pc = "loop" /\ \A n \in Nodes : asked[n] \notin {"wait", "held"}
    BY <1>1 DEF AllCalledBack, LoopOver, InSendQuery
  <1>3. /\ IsAnswer(answer) /\ answer.failed \subseteq Backends /\ down \subseteq Backends
        /\ Types /\ RouteInv /\ LoopInv /\ PartInv
    BY DEF IInv, Types
  <1>4. Countable => \A n \in Nodes : Mine(n) # {} => n \in Pushed
    BY <1>1, <1>3, AllBrought
  <1>5. CASE IsStats
    <2>1. answer' = [answer EXCEPT !.ok = TRUE, !.stat = MergedStat]
      BY <1>5 DEF Merge
    <2>2. IsAnswer(answer') /\ answer'.failed = answer.failed /\ answer'.stat = MergedStat
      BY <1>3, <2>1 DEF IsAnswer
    <2>3. RightAnswer(answer')
      BY <1>3, <1>4, <1>5, <2>2, MergedAnswer DEF RightAnswer
    <2> QED
      BY <1>1, <1>2, <1>3, <2>2, <2>3, AnswerStep
  <1>6. CASE ~ IsStats
    <2>1. PICK f : f = UNION ToSet(hashes)
      OBVIOUS
    <2>2. answer' = [answer EXCEPT !.ok = TRUE, !.rows = MergedRows, !.bare = Bare(MergedRows),
                                   !.failed = f]
      BY <1>6, <2>1 DEF Merge
    <2>3. IsAnswer(answer') /\ answer'.failed = f /\ answer'.rows = MergedRows
      BY <1>3, <2>2 DEF IsAnswer
    <2>4. f \subseteq down /\ \A n \in Pushed : Mine(n) \cap down \subseteq f
      BY <2>1, FailedOfParts
    <2>5. ASSUME Countable
          PROVE  f \cap (Requested \ moved) = down \cap (Requested \ moved)
      <3> SUFFICES ASSUME NEW b \in down \cap (Requested \ moved)
                   PROVE  b \in f
        BY <2>4
      <3>1. PICK n \in Nodes : b \in has[n]
        BY <1>3, Asked DEF RouteInv, Types, ClusterTypes
      <3>2. b \in Mine(n)
        BY <3>1 DEF Mine
      <3> QED
        BY <1>4, <2>4, <2>5, <3>2
    <2>6. Countable => (Requested \ moved) \ f = (Requested \ moved) \ down
      BY <2>5
    <2>7. Countable /\ Mergeable => RightRows(query, (Requested \ moved) \ f, moved, MergedRows)
      <3>1. Countable /\ Mergeable =>
              RightRows(query, (Requested \ moved) \ down, moved, MergedRows)
        BY <1>3, <1>4, <1>6, MergedAnswer
      <3> QED
        BY <2>6, <3>1
    <2>8. RightAnswer(answer')
      BY <1>6, <2>3, <2>5, <2>7 DEF RightAnswer
    <2> QED
      BY <1>1, <1>2, <1>3, <2>3, <2>4, <2>8, AnswerStep
  <1> QED
    BY <1>5, <1>6

-----------------------------------------------------------------------------
(* Steps of the cluster.                                                    *)

\* The backends of S have the nodes that they had.
Stay(S) == \A b \in S : \A n \in Nodes : b \in has'[n] <=> b \in has[n]

\* What a step of the cluster may do.
LEMMA ClusterStep ==
  ASSUME IInv, ~ Ended, UNCHANGED <<request, keys, pc, asked, replies, channels, answer>>,
         ClusterTypes', moved \subseteq moved', Stay(Backends \ moved'), RouteInv',
         pc \in {"start", "made"} => added' = {} /\ old' = << >>
  PROVE  IInv'
  <1>1. /\ UNCHANGED <<query, down, sent, got, parts, hashes>>
        /\ Requested' = Requested /\ Requested \subseteq Backends
        /\ Pushed' = Pushed /\ Visited' = Visited
    BY Asked DEF IInv, request, replies, channels, Requested, AllRequested, Pushed, Visited
  <1>2. \A n \in Nodes : Mine(n)' = Mine(n) \ moved'
    BY <1>1 DEF Mine, Stay
  <1>3. Types'
    BY <1>1 DEF IInv, Types, LoopTypes, ChannelTypes, IsAnswer
  <1>4. LoopInv'
    BY <1>1 DEF IInv, LoopInv, Ended
  <1>5. PartInv'
    BY <1>1, <1>2, PartsKept DEF IInv
  <1>6. AskInv'
    <2> SUFFICES ASSUME NEW n \in Nodes
                 PROVE  AskedAll(n)'
      BY DEF AskInv
    <2>1. AskedAll(n)
      BY DEF IInv, AskInv
    <2>2. \A f : (Reports(n, f) => Reports(n, f)') /\ (Brings(n, f) => Brings(n, f)')
      BY <1>1, <1>2, SentKept
    <2>3. Mine(n)' \subseteq Mine(n)
      BY <1>2
    <2> QED
      BY <1>1, <2>1, <2>2, <2>3 DEF AskedAll
  <1>7. AnswerInv'
    BY NoAnswerYet DEF IInv, AnswerInv, Settled, Ended
  <1> QED
    BY <1>3, <1>4, <1>5, <1>6, <1>7 DEF IInv

\* The map of the loop stays.
LEMMA SameMap ==
  ASSUME RouteInv, UNCHANGED <<added, LoopMap>>, DOMAIN LoopMap \subseteq Nodes,
         moved \subseteq moved', Stay(Backends \ moved')
  PROVE  RouteInv'
  <1> SUFFICES ASSUME NEW b \in Backends \ moved'
               PROVE  /\ \E n \in DOMAIN LoopMap \ added : b \in has'[n]
                      /\ \A m, n \in Nodes : b \in has'[m] /\ b \in has'[n] => m = n
                      /\ \A n \in DOMAIN LoopMap : b \in LoopMap[n] <=> b \in has'[n]
    BY DEF RouteInv
  <1>1. \A n \in Nodes : b \in has'[n] <=> b \in has[n]
    BY DEF Stay
  <1>2. /\ \E n \in DOMAIN LoopMap \ added : b \in has[n]
        /\ \A m, n \in Nodes : b \in has[m] /\ b \in has[n] => m = n
        /\ \A n \in DOMAIN LoopMap : b \in LoopMap[n] <=> b \in has[n]
    BY DEF RouteInv
  <1> QED
    BY <1>1, <1>2

\* Backends of another node move.
LEMMA Reassigned ==
  ASSUME IInv, NEW n \in Nodes, NEW backends \in SUBSET Backends, Reassign(n, backends)
  PROVE  IInv'
  <1>1. /\ ~ Ended /\ UNCHANGED <<request, keys, pc, asked, replies, channels, answer>>
        /\ UNCHANGED <<routes, gone, old, added>>
        /\ has' = [has EXCEPT ![n] = backends]
        /\ moved' = moved \cup (backends \ has[n]) \cup (has[n] \ backends)
    BY DEF Reassign, Changes
  <1>2. ClusterTypes /\ RouteInv /\ LoopInv
    BY DEF IInv, Types
  <1>3. LoopMap' = LoopMap
    BY <1>1 DEF LoopMap
  <1>4. ClusterTypes'
    BY <1>1, <1>2, <1>3 DEF ClusterTypes
  <1>5. Stay(Backends \ moved')
    BY <1>1, <1>2 DEF Stay, ClusterTypes
  <1>6. RouteInv'
    BY <1>1, <1>2, <1>3, <1>5, SameMap DEF ClusterTypes
  <1> QED
    BY <1>1, <1>2, <1>4, <1>5, <1>6, ClusterStep DEF LoopInv

\* A ping tells what a partner has.
LEMMA RouteLearned ==
  ASSUME IInv, NEW n \in Nodes, LearnRoute(n)
  PROVE  IInv'
  <1>1. /\ ~ Ended /\ UNCHANGED <<request, keys, pc, asked, replies, channels, answer>>
        /\ UNCHANGED <<has, gone, moved, old>>
        /\ routes' = [m \in DOMAIN routes \cup {n} |-> IF m = n THEN has[n] ELSE routes[m]]
        /\ added' = IF pc = "loop" /\ old = << >> /\ n \notin DOMAIN routes
                    THEN added \cup {n} ELSE added
    BY DEF LearnRoute, Changes
  <1>2. ClusterTypes /\ RouteInv /\ LoopInv /\ LoopTypes
    BY DEF IInv, Types
  <1>3. /\ DOMAIN routes' = DOMAIN routes \cup {n} /\ DOMAIN routes' \subseteq Nodes
        /\ routes' \in [DOMAIN routes' -> SUBSET Backends] /\ added' \subseteq Nodes
        /\ routes'[n] = has[n] /\ \A m \in DOMAIN routes \ {n} : routes'[m] = routes[m]
    BY <1>1, <1>2 DEF ClusterTypes
  <1>4. Stay(Backends \ moved')
    BY <1>1 DEF Stay
  <1>5. pc \in {"start", "made"} => added' = {} /\ old' = << >>
    BY <1>1, <1>2 DEF LoopInv
  <1>6. CASE old = << >>
    <2>1. LoopMap = routes /\ LoopMap' = routes'
      BY <1>1, <1>6 DEF LoopMap
    <2>2. ClusterTypes'
      BY <1>1, <1>2, <1>3, <2>1 DEF ClusterTypes
    <2>3. DOMAIN routes \ added \subseteq DOMAIN routes' \ added'
      BY <1>1, <1>2, <1>3, <1>6 DEF LoopInv, LoopTypes, Ended
    <2>4. RouteInv'
      <3> SUFFICES ASSUME NEW b \in Backends \ moved
                   PROVE  /\ \E m \in DOMAIN routes' \ added' : b \in has[m]
                          /\ \A l, m \in Nodes : b \in has[l] /\ b \in has[m] => l = m
                          /\ \A m \in DOMAIN routes' : b \in routes'[m] <=> b \in has[m]
        BY <1>1, <2>1 DEF RouteInv
      <3>1. /\ \E m \in DOMAIN routes \ added : b \in has[m]
            /\ \A l, m \in Nodes : b \in has[l] /\ b \in has[m] => l = m
            /\ \A m \in DOMAIN routes : b \in routes[m] <=> b \in has[m]
        BY <1>2, <2>1 DEF RouteInv
      <3> QED
        BY <1>3, <2>3, <3>1
    <2> QED
      BY <1>1, <1>4, <1>5, <2>2, <2>4, ClusterStep
  <1>7. CASE old # << >>
    <2>1. LoopMap' = LoopMap /\ added' = added
      BY <1>1, <1>7 DEF LoopMap
    <2>2. ClusterTypes'
      BY <1>1, <1>2, <1>3, <2>1 DEF ClusterTypes
    <2>3. RouteInv'
      BY <1>1, <1>2, <1>4, <2>1, SameMap DEF ClusterTypes
    <2> QED
      BY <1>1, <1>4, <1>5, <2>2, <2>3, ClusterStep
  <1> QED
    BY <1>6, <1>7

\* A node has restarted.
LEMMA NodeRestarted ==
  ASSUME IInv, NEW n \in Nodes, Restarted(n)
  PROVE  IInv'
  <1>1. /\ ~ Ended /\ UNCHANGED <<request, keys, pc, asked, replies, channels, answer>>
        /\ UNCHANGED <<old, added>> /\ n # Me /\ n \in DOMAIN routes
        /\ routes' = [m \in DOMAIN routes \ {n} |-> routes[m]]
        /\ gone' = gone \cup {n} /\ has' = [has EXCEPT ![n] = {}] /\ moved' = moved \cup has[n]
    BY DEF Restarted, Changes
  <1>2. ClusterTypes /\ RouteInv /\ LoopInv
    BY DEF IInv, Types
  <1>3. /\ DOMAIN routes' = DOMAIN routes \ {n} /\ DOMAIN routes' \subseteq Nodes
        /\ routes' \in [DOMAIN routes' -> SUBSET Backends] /\ Me \in DOMAIN routes'
        /\ \A m \in DOMAIN routes' : routes'[m] = routes[m]
        /\ moved' \subseteq Backends /\ has' \in [Nodes -> SUBSET Backends]
        /\ gone' \subseteq Nodes \ {Me}
    BY <1>1, <1>2 DEF ClusterTypes
  <1>4. Stay(Backends \ moved')
    BY <1>1, <1>2 DEF Stay, ClusterTypes
  <1>5. pc \in {"start", "made"} => added' = {} /\ old' = << >>
    BY <1>1, <1>2 DEF LoopInv
  <1>6. CASE old = << >>
    <2>1. LoopMap = routes /\ LoopMap' = routes'
      BY <1>1, <1>6 DEF LoopMap
    <2>2. ClusterTypes'
      BY <1>1, <1>2, <1>3, <2>1 DEF ClusterTypes
    <2>3. RouteInv'
      <3> SUFFICES ASSUME NEW b \in Backends \ moved'
                   PROVE  /\ \E m \in DOMAIN routes' \ added : b \in has'[m]
                          /\ \A l, m \in Nodes : b \in has'[l] /\ b \in has'[m] => l = m
                          /\ \A m \in DOMAIN routes' : b \in routes'[m] <=> b \in has'[m]
        BY <1>1, <2>1 DEF RouteInv
      <3>1. /\ \E m \in DOMAIN routes \ added : b \in has[m]
            /\ \A l, m \in Nodes : b \in has[l] /\ b \in has[m] => l = m
            /\ \A m \in DOMAIN routes : b \in routes[m] <=> b \in has[m]
        BY <1>1, <1>2, <2>1 DEF RouteInv
      <3>2. b \notin has[n] /\ \A m \in Nodes : b \in has'[m] <=> b \in has[m]
        BY <1>1, <1>4 DEF Stay
      <3>3. DOMAIN routes \subseteq Nodes
        BY <1>2 DEF ClusterTypes
      <3> QED
        BY <1>3, <3>1, <3>2, <3>3
    <2> QED
      BY <1>1, <1>4, <1>5, <2>2, <2>3, ClusterStep
  <1>7. CASE old # << >>
    <2>1. LoopMap' = LoopMap
      BY <1>1, <1>7 DEF LoopMap
    <2>2. ClusterTypes'
      BY <1>1, <1>2, <1>3, <2>1 DEF ClusterTypes
    <2>3. RouteInv'
      BY <1>1, <1>2, <1>4, <2>1, SameMap DEF ClusterTypes
    <2> QED
      BY <1>1, <1>4, <1>5, <2>2, <2>3, ClusterStep
  <1> QED
    BY <1>6, <1>7

\* This node redistributes.
LEMMA Redistributed ==
  ASSUME IInv, NEW online \in SUBSET Nodes, NEW owner \in [Backends -> online],
         redistribute(online, owner)
  PROVE  IInv'
  <1>1. PICK new : new = [n \in online |-> {b \in Backends : owner[b] = n}]
    OBVIOUS
  <1>2. /\ ~ Ended /\ UNCHANGED <<request, keys, pc, asked, replies, channels, answer>>
        /\ UNCHANGED <<gone, added>> /\ Me \in online
        /\ routes' = new /\ has' = [has EXCEPT ![Me] = new[Me]]
        /\ moved' = moved \cup {b \in Backends : \E n \in Nodes : b \in has[n] /\ owner[b] # n}
        /\ old' = IF pc = "loop" /\ old = << >> THEN routes ELSE old
    BY <1>1 DEF redistribute, Changes
  <1>3. ClusterTypes /\ RouteInv /\ LoopInv /\ LoopTypes
    BY DEF IInv, Types
  <1>4. /\ DOMAIN new = online /\ new \in [online -> SUBSET Backends]
        /\ \A n \in online : \A b \in Backends : b \in new[n] <=> owner[b] = n
    BY <1>1
  <1>5. /\ moved' \subseteq Backends /\ has' \in [Nodes -> SUBSET Backends]
        /\ has'[Me] = new[Me] /\ \A n \in Nodes \ {Me} : has'[n] = has[n]
    BY <1>2, <1>3, <1>4, MeAssumption DEF ClusterTypes
  <1>6. \A b \in Backends \ moved' : \A n \in Nodes : b \in has[n] <=> owner[b] = n
    <2> SUFFICES ASSUME NEW b \in Backends \ moved', NEW n \in Nodes
                 PROVE  b \in has[n] <=> owner[b] = n
      OBVIOUS
    <2>1. \A m \in Nodes : b \in has[m] => owner[b] = m
      BY <1>2
    <2>2. PICK m \in Nodes : b \in has[m]
      BY <1>2, <1>3 DEF RouteInv, ClusterTypes
    <2> QED
      BY <2>1, <2>2
  <1>7. Stay(Backends \ moved')
    BY <1>2, <1>4, <1>5, <1>6 DEF Stay
  <1>8. pc \in {"start", "made", "loop"}
    BY <1>2, <1>3 DEF LoopTypes, Ended
  <1>9. CASE pc = "loop"
    <2>1. Me \in DOMAIN routes /\ DOMAIN << >> = {}
      BY <1>3 DEF ClusterTypes
    <2>2. routes # << >>
      BY <2>1
    <2>3. LoopMap' = LoopMap
      BY <1>2, <1>9, <2>2 DEF LoopMap
    <2>4. ClusterTypes'
      BY <1>2, <1>3, <1>4, <1>5, <2>3 DEF ClusterTypes
    <2>5. RouteInv'
      BY <1>2, <1>3, <1>7, <2>3, SameMap DEF ClusterTypes
    <2> QED
      BY <1>2, <1>7, <1>9, <2>4, <2>5, ClusterStep
  <1>10. CASE pc \in {"start", "made"}
    <2>1. added = {} /\ old = << >> /\ old' = << >> /\ added' = {} /\ LoopMap' = new
      BY <1>2, <1>3, <1>10 DEF LoopInv, LoopMap
    <2>2. ClusterTypes'
      BY <1>2, <1>3, <1>4, <1>5, <2>1 DEF ClusterTypes
    <2>3. RouteInv'
      <3> SUFFICES ASSUME NEW b \in Backends \ moved'
                   PROVE  /\ \E n \in online : b \in has'[n]
                          /\ \A m, n \in Nodes : b \in has'[m] /\ b \in has'[n] => m = n
                          /\ \A n \in online : b \in new[n] <=> b \in has'[n]
        BY <1>4, <2>1 DEF RouteInv
      <3>1. \A n \in Nodes : b \in has'[n] <=> owner[b] = n
        BY <1>6, <1>7 DEF Stay
      <3> QED
        BY <1>4, <3>1
    <2> QED
      BY <1>2, <1>7, <2>1, <2>2, <2>3, ClusterStep
  <1> QED
    BY <1>8, <1>9, <1>10

-----------------------------------------------------------------------------
(* The theorems.                                                            *)

\* The invariant holds at first.
LEMMA InitInv ==
  ASSUME Init
  PROVE  IInv
  <1>1. PICK online \in SUBSET Nodes : \E owner \in [Backends -> online] :
          /\ Me \in online
          /\ has = [n \in Nodes |-> {b \in Backends : owner[b] = n}]
          /\ routes = [n \in online |-> has[n]]
    BY DEF Init
  <1>2. PICK owner \in [Backends -> online] :
          /\ Me \in online
          /\ has = [n \in Nodes |-> {b \in Backends : owner[b] = n}]
          /\ routes = [n \in online |-> has[n]]
    BY <1>1
  <1>3. /\ query \in Queries /\ down \subseteq Backends /\ gone = {} /\ moved = {}
        /\ old = << >> /\ added = {} /\ keys = {} /\ pc = "start"
        /\ asked = [n \in Nodes |-> "no"] /\ sent = [n \in Nodes |-> {}]
        /\ got = [n \in Nodes |-> NoPart] /\ parts = << >> /\ hashes = << >> /\ answer = NoAnswer
    BY DEF Init
  <1>4. LoopMap = routes
    BY <1>3 DEF LoopMap
  <1>5. /\ has \in [Nodes -> SUBSET Backends]
        /\ \A n \in Nodes : \A b \in Backends : b \in has[n] <=> owner[b] = n
        /\ DOMAIN routes = online /\ routes \in [online -> SUBSET Backends]
        /\ \A n \in online : routes[n] = has[n]
    BY <1>2
  <1>6. ClusterTypes /\ RouteInv
    BY <1>2, <1>3, <1>4, <1>5, MeAssumption DEF ClusterTypes, RouteInv
  <1>7. LoopTypes
    BY <1>3 DEF LoopTypes
  <1>8. ChannelTypes
    <2>1. << >> \in Seq({}) /\ << >> \in Seq(SUBSET Backends)
      OBVIOUS
    <2> QED
      BY <1>3, <2>1 DEF ChannelTypes
  <1>9. Types
    BY <1>3, <1>6, <1>7, <1>8 DEF Types, IsAnswer, NoAnswer
  <1>10. LoopInv /\ AskInv
    BY <1>3 DEF LoopInv, AskInv, AskedAll, Ended
  <1>11. PartInv
    <2>1. Pushed = {} /\ Len(hashes) = 0
      BY <1>3 DEF Pushed
    <2>2. 1 .. 0 = {}
      OBVIOUS
    <2>3. PICK g : g = [i \in {} |-> Me]
      OBVIOUS
    <2>4. g \in [{} -> {}]
      BY <2>3
    <2>5. From(g)
      BY <2>1, <2>2, <2>4 DEF From
    <2> QED
      BY <2>5 DEF PartInv
  <1>12. AnswerInv
    BY <1>3 DEF AnswerInv, NoAnswer, FailuresReported, AnswerOrError, RowsOrError, StatOrError
  <1> QED
    BY <1>6, <1>9, <1>10, <1>11, <1>12 DEF IInv

\* Nothing happens.
LEMMA Idle ==
  ASSUME IInv, UNCHANGED vars
  PROVE  IInv'
  <1>1. UNCHANGED <<request, cluster, keys, pc, asked, replies, channels, answer>>
    BY DEF vars
  <1>2. UNCHANGED <<query, down, has, routes, gone, moved, old, added, sent, got, parts, hashes>>
    BY <1>1 DEF request, cluster, replies, channels
  <1>3. Types' /\ RouteInv'
    BY <1>1, <1>2, SameCluster DEF IInv, Types, LoopTypes, ChannelTypes, IsAnswer
  <1>4. Pushed' = Pushed /\ Visited' = Visited /\ Ended' = Ended
    BY <1>1 DEF Pushed, Visited, Ended
  <1>5. LoopInv'
    BY <1>1, <1>2, <1>4 DEF IInv, LoopInv
  <1>6. AskInv'
    BY <1>1, <1>2, AskKept DEF AskInv
  <1>7. PartInv'
    BY <1>1, <1>4, PartsStay
  <1>8. AnswerInv'
    <2>1. CASE ~ answer.ok
      BY <1>1, <2>1, NoAnswerYet
    <2>2. CASE answer.ok
      <3>1. RightAnswer(answer)
        BY <2>2 DEF IInv, AnswerInv, FailuresReported, AnswerOrError, RowsOrError, StatOrError,
                    RightAnswer, RightRows
      <3>2. RightAnswer(answer')
        BY <1>1, <3>1
      <3>3. FailuresReported' /\ AnswerOrError'
        BY <1>1, <3>2, AnswerIsRight
      <3>4. Settled'
        BY <1>1, <2>2 DEF IInv, AnswerInv, Settled
      <3> QED
        BY <3>3, <3>4 DEF AnswerInv
    <2> QED
      BY <2>1, <2>2
  <1> QED
    BY <1>3, <1>5, <1>6, <1>7, <1>8 DEF IInv

\* Every step keeps the invariant.
LEMMA NextInv ==
  ASSUME IInv, [Next]_vars
  PROVE  IInv'
  <1>1. CASE \/ Distribute \/ StartLoop \/ MapWriteSeen \/ Timeout \/ WrongNumber \/ MergePanics
             \/ \E n \in Nodes : VisitPanics(n)
    BY <1>1, GoesOn
  <1>2. CASE VisitMe \/ \E n \in Nodes : VisitSkip(n)
    BY <1>2, LoopCollects
  <1>3. CASE \E n \in Nodes : Callback(n)
    BY <1>3, CallbackCollects
  <1>4. CASE \E n \in Nodes : Blocks(n)
    BY <1>4, LoopBlocks
  <1>5. CASE \E n \in Nodes : VisitRemote(n)
    BY <1>5, LoopAsks
  <1>6. CASE \E n \in Nodes : Answer(n) \/ AnswerBad(n) \/ SendFails(n)
    BY <1>6, SendReturns
  <1>7. CASE AnswerAlone
    BY <1>7, AloneAnswers
  <1>8. CASE Merge
    BY <1>8, MergeAnswers
  <1>9. CASE \E n \in Nodes : \E backends \in SUBSET Backends : Reassign(n, backends)
    BY <1>9, Reassigned
  <1>10. CASE \E n \in Nodes : LearnRoute(n)
    BY <1>10, RouteLearned
  <1>11. CASE \E n \in Nodes : Restarted(n)
    BY <1>11, NodeRestarted
  <1>12. CASE \E online \in SUBSET Nodes : \E owner \in [Backends -> online] :
                redistribute(online, owner)
    BY <1>12, Redistributed
  <1>13. CASE UNCHANGED vars
    BY <1>13, Idle
  <1> QED
    BY <1>1, <1>2, <1>3, <1>4, <1>5, <1>6, <1>7, <1>8, <1>9, <1>10, <1>11, <1>12, <1>13
    DEF Next, Respond, ClusterChanges, Finished

\* IInv is an invariant of the query (getDistributedResponse with all that happens meanwhile).
THEOREM Invariance == Spec => []IInv
  BY InitInv, NextInv, PTL DEF Spec

\* The variables have the values that the code can give them, every part comes with its failed
\* backends, and the loop always finds this node in its map (getDistributedResponse).
THEOREM TypeCorrect == Spec => []TypeOK
  <1>1. IInv => TypeOK
    <2> SUFFICES ASSUME IInv
                 PROVE  TypeOK
      OBVIOUS
    <2>1. DOMAIN old \subseteq Nodes
      <3>1. DOMAIN << >> = {}
        OBVIOUS
      <3>2. DOMAIN LoopMap \subseteq Nodes
        BY DEF IInv, Types, ClusterTypes
      <3> QED
        BY <3>1, <3>2 DEF LoopMap
    <2> QED
      BY <2>1 DEF IInv, Types, ClusterTypes, LoopTypes, ChannelTypes, TypeOK
  <1> QED
    BY <1>1, Invariance, PTL

\* The backends that an answer reports as failed are those that are down, whichever parts they
\* came with (collectedFailedHashes).
THEOREM Failures == Spec => []FailuresReported
  <1>1. IInv => FailuresReported
    BY DEF IInv, AnswerInv
  <1> QED
    BY <1>1, Invariance, PTL

\* Whatever other nodes do and however nodeBackends changes, an answer that is no error has all
\* rows or the right statistics (getDistributedResponse, mergeDistributedResponse).
THEOREM Answers == Spec => []AnswerOrError
  <1>1. IInv => AnswerOrError
    BY DEF IInv, AnswerInv
  <1> QED
    BY <1>1, Invariance, PTL

\* Neither the loop nor a callback blocks in a push unless the loop has met a node that was not
\* in nodeBackends when the channels were made (the capacity of collectedDatasets).
THEOREM Room == Spec => []RoomForParts
  <1>1. IInv => RoomForParts
    <2> SUFFICES ASSUME IInv, Visited \subseteq keys
                 PROVE  /\ pc # "blocked"
                        /\ Len(parts) < Cardinality(keys) \/ \A n \in Nodes : asked[n] # "held"
      BY DEF RoomForParts
    <2>1. pc # "blocked"
      BY DEF IInv, LoopInv
    <2>2. ASSUME NEW n \in Nodes, asked[n] = "held"
          PROVE  Len(parts) < Cardinality(keys)
      <3>1. Pushed \subseteq keys /\ n \in keys /\ n \notin Pushed
        BY <2>2 DEF Visited, Pushed
      <3>2. keys \subseteq Nodes
        BY DEF IInv, Types, LoopTypes
      <3>3. /\ Cardinality(keys) \in Nat /\ Len(parts) \in Nat /\ Len(parts) <= Cardinality(keys)
            /\ Len(parts) = Cardinality(keys) => keys \subseteq Pushed
        BY <3>1, <3>2, PartsOfNodes DEF IInv
      <3> QED
        BY <3>1, <3>3
    <2> QED
      BY <2>1, <2>2
  <1> QED
    BY <1>1, Invariance, PTL
=============================================================================
