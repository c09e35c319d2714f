------------------------- MODULE UserThreadsRefinement -------------------------
(***************************************************************************)
(* UserThreads implements RoundRobin, for every number of threads.  The    *)
(* queue of RoundRobin is a recursive function of the list of threads; the *)
(* first part says what becomes of it when the list changes.               *)
(***************************************************************************)
EXTENDS UserThreadsProofs, SetInduction, FiniteSetTheorems

\* Joining is associative, also for the first element alone.
LEMMA PushJoin ==
  ASSUME NEW S, NEW e \in S, NEW s \in Seq(S), NEW t \in Seq(S)
  PROVE  <<e>> \o (s \o t) = (<<e>> \o s) \o t
<1>1. <<e>> \in Seq(S)
  OBVIOUS
<1> QED  BY <1>1, ConcatAssociative

\* The elements of what has got a first element.
LEMMA PushElements ==
  ASSUME NEW S, NEW e \in S, NEW s \in Seq(S)
  PROVE  /\ (<<e>> \o s)[1] = e
         /\ \A k \in 1 .. Len(s) : (<<e>> \o s)[k + 1] = s[k]
<1>1. <<e>> \in Seq(S) /\ Len(<<e>>) = 1
  OBVIOUS
<1>2. ASSUME NEW u \in Seq(S), Len(u) = 1
      PROVE  /\ (u \o s)[1] = u[1]
             /\ \A k \in 1 .. Len(s) : (u \o s)[k + 1] = s[k]
  <2>1. Len(s) \in Nat
    BY LenProperties
  <2>2. \A k \in 1 .. Len(u) + Len(s) :
          (u \o s)[k] = IF k <= Len(u) THEN u[k] ELSE s[k - Len(u)]
    BY ConcatProperties
  <2> DEFINE us == u \o s
  <2>3. \A k \in 1 .. Len(u) + Len(s) : us[k] = IF k <= Len(u) THEN u[k] ELSE s[k - Len(u)]
    BY <2>2
  <2> HIDE DEF us
  <2>4. us[1] = u[1]
    BY <1>2, <2>1, <2>3
  <2>5. ASSUME NEW k \in 1 .. Len(s) PROVE us[k + 1] = s[k]
    BY <1>2, <2>1, <2>3
  <2> QED  BY <2>4, <2>5 DEF us
<1>3. <<e>>[1] = e
  OBVIOUS
<1> QED  BY <1>1, <1>2, <1>3, Zenon

\* ... and what is left without it.
LEMMA PushTail ==
  ASSUME NEW S, NEW e \in S, NEW s \in Seq(S)
  PROVE  Tail(<<e>> \o s) = s
<1> DEFINE w == <<e>> \o s
<1>1. w \in Seq(S) /\ w # <<>> /\ Len(w) = Len(s) + 1 /\ Len(s) \in Nat
  BY PushProperties, LenProperties
<1>2. \A k \in 1 .. Len(s) : w[k + 1] = s[k]
  BY PushElements
<1> HIDE DEF w
<1>3. Tail(w) \in Seq(S) /\ Len(Tail(w)) = Len(w) - 1 /\ \A k \in 1 .. Len(Tail(w)) : Tail(w)[k] = w[k + 1]
  BY <1>1, HeadTailProperties
<1>4. Len(Tail(w)) = Len(s)
  BY <1>1, <1>3
<1>5. \A k \in 1 .. Len(Tail(w)) : Tail(w)[k] = s[k]
  BY <1>2, <1>3, <1>4
<1>6. Tail(w) = s
  BY <1>3, <1>4, <1>5, SeqEqual
<1> QED  BY <1>6 DEF w

\* All but the last element of what has been appended to.
LEMMA AppendFront ==
  ASSUME NEW S, NEW e \in S, NEW s \in Seq(S)
  PROVE  SubSeq(Append(s, e), 1, Len(Append(s, e)) - 1) = s
<1> DEFINE w == Append(s, e)
           v == SubSeq(w, 1, Len(w) - 1)
<1>1. Len(s) \in Nat /\ w \in Seq(S) /\ Len(w) = Len(s) + 1 /\ \A k \in 1 .. Len(s) : w[k] = s[k]
  BY LenProperties, AppendProperties
<1>2. \A k \in 1 .. Len(s) : s[k] \in S
  BY ElementOfSeq
<1> HIDE DEF w
<1>3. v \in Seq(S) /\ Len(v) = Len(s) /\ \A k \in 1 .. Len(s) : v[k] = w[k]
  BY <1>1, <1>2, SubSeqProperties
<1> HIDE DEF v
<1>4. \A k \in 1 .. Len(v) : v[k] = s[k]
  BY <1>1, <1>3
<1>5. v = s
  BY <1>3, <1>4, SeqEqual
<1> QED  BY <1>5 DEF v, w

\* The recursive function is what its definition says.
LEMMA AliveDef ==
  ASSUME NEW S, NEW s \in Seq(S), NEW D
  PROVE  Alive(s, D) = [n \in 0 .. Len(s) |->
           IF n = 0 THEN <<>>
           ELSE IF s[n] \in D THEN Alive(s, D)[n - 1] ELSE <<s[n]>> \o Alive(s, D)[n - 1]]
<1> DEFINE Defines(f, n) == 
       f = [m \in 0 .. n |->
           IF m = 0 THEN <<>>
           ELSE IF s[m] \in D THEN f[m - 1] ELSE <<s[m]>> \o f[m - 1]]
<1> DEFINE T == {n \in Nat : \E f : Defines(f, n)}
<1>1. 0 \in T
  <2>1. Defines([m \in {0} |-> <<>>], 0)
    OBVIOUS
  <2> QED  BY <2>1
<1>2. ASSUME NEW n \in Nat, n \in T PROVE n + 1 \in T
  <2>1. PICK f : Defines(f, n)
    BY <1>2
  <2> DEFINE last == IF s[n + 1] \in D THEN f[n] ELSE <<s[n + 1]>> \o f[n]
             g == [m \in 0 .. n + 1 |-> IF m = n + 1 THEN last ELSE f[m]]
  <2> HIDE DEF last
  <2>2. g = [m \in 0 .. n + 1 |->
           IF m = 0 THEN <<>>
           ELSE IF s[m] \in D THEN g[m - 1] ELSE <<s[m]>> \o g[m - 1]]
    <3> SUFFICES ASSUME NEW m \in 0 .. n + 1
                 PROVE  g[m] = IF m = 0 THEN <<>>
                               ELSE IF s[m] \in D THEN g[m - 1] ELSE <<s[m]>> \o g[m - 1]
      BY Zenon
    <3>1. CASE m = n + 1
      <4>1. g[m] = last /\ g[m - 1] = f[n] /\ m # 0
        BY <3>1
      <4> QED  BY <4>1, <3>1 DEF last
    <3>2. CASE m # n + 1
      <4>1. m \in 0 .. n /\ g[m] = f[m] /\ (m # 0 => m - 1 \in 0 .. n /\ g[m - 1] = f[m - 1])
        BY <3>2
      <4>2. f[m] = IF m = 0 THEN <<>>
                   ELSE IF s[m] \in D THEN f[m - 1] ELSE <<s[m]>> \o f[m - 1]
        BY <2>1, <4>1, Zenon
      <4> QED  BY <4>1, <4>2
    <3> QED  BY <3>1, <3>2
  <2>3. \E h : Defines(h, n + 1)
    <3> HIDE DEF g
    <3> QED  BY <2>2, Zenon
  <2> HIDE DEF Defines
  <2> QED  BY <2>3
<1> HIDE DEF T
<1>3. Nat \subseteq T
  BY <1>1, <1>2, NaturalInduction
<1>4. Len(s) \in Nat
  BY LenProperties
<1>5. \E f : Defines(f, Len(s))
  BY <1>3, <1>4 DEF T
<1> QED  BY <1>5, Zenon DEF Alive

\* ... step by step.
LEMMA AliveStep ==
  ASSUME NEW S, NEW s \in Seq(S), NEW D
  PROVE  /\ Alive(s, D)[0] = <<>>
         /\ \A n \in Nat : n + 1 <= Len(s) =>
              /\ s[n + 1] \in D => Alive(s, D)[n + 1] = Alive(s, D)[n]
              /\ s[n + 1] \notin D => Alive(s, D)[n + 1] = <<s[n + 1]>> \o Alive(s, D)[n]
<1>1. Len(s) \in Nat
  BY LenProperties
<1> DEFINE f == Alive(s, D)
<1>2. f = [n \in 0 .. Len(s) |->
           IF n = 0 THEN <<>>
           ELSE IF s[n] \in D THEN f[n - 1] ELSE <<s[n]>> \o f[n - 1]]
  BY AliveDef
<1> HIDE DEF f
<1>3. f[0] = <<>>
  BY <1>1, <1>2
<1>4. ASSUME NEW n \in Nat, n + 1 <= Len(s)
      PROVE  /\ s[n + 1] \in D => f[n + 1] = f[n]
             /\ s[n + 1] \notin D => f[n + 1] = <<s[n + 1]>> \o f[n]
  <2>1. n + 1 \in 0 .. Len(s) /\ n + 1 # 0 /\ n + 1 - 1 = n
    BY <1>1, <1>4
  <2>2. f[n + 1] = IF n + 1 = 0 THEN <<>>
                   ELSE IF s[n + 1] \in D THEN f[(n + 1) - 1] ELSE <<s[n + 1]>> \o f[(n + 1) - 1]
    <3> DEFINE k == n + 1
    <3>1. k \in 0 .. Len(s)
      BY <2>1
    <3> HIDE DEF k
    <3>2. f[k] = IF k = 0 THEN <<>> ELSE IF s[k] \in D THEN f[k - 1] ELSE <<s[k]>> \o f[k - 1]
      BY <1>2, <3>1
    <3> QED  BY <3>2 DEF k
  <2> QED  BY <2>1, <2>2
<1> QED  BY <1>3, <1>4 DEF f

\* What is alive are elements of the list.
LEMMA AliveType ==
  ASSUME NEW S, NEW s \in Seq(S), NEW D, NEW n \in 0 .. Len(s)
  PROVE  Alive(s, D)[n] \in Seq(S)
<1> DEFINE a == Alive(s, D)
           T == {m \in Nat : m <= Len(s) => a[m] \in Seq(S)}
<1>0. Len(s) \in Nat
  BY LenProperties
<1>1. 0 \in T
  <2>1. a[0] = <<>> /\ <<>> \in Seq(S)
    BY AliveStep, EmptySeq
  <2> HIDE DEF a
  <2> QED  BY <2>1
<1>2. ASSUME NEW m \in Nat, m \in T PROVE m + 1 \in T
  <2> SUFFICES ASSUME m + 1 <= Len(s) PROVE a[m + 1] \in Seq(S)
    OBVIOUS
  <2>1. m + 1 \in 1 .. Len(s) /\ s[m + 1] \in S /\ a[m] \in Seq(S)
    BY <1>0, <1>2, ElementOfSeq
  <2>2. /\ s[m + 1] \in D => a[m + 1] = a[m]
        /\ s[m + 1] \notin D => a[m + 1] = <<s[m + 1]>> \o a[m]
    BY AliveStep
  <2>3. <<s[m + 1]>> \o a[m] \in Seq(S)
    BY <2>1, PushProperties
  <2> HIDE DEF a
  <2> QED  BY <2>1, <2>2, <2>3
<1> HIDE DEF T
<1>3. n \in Nat /\ n \in T
  BY <1>0, <1>1, <1>2, NaturalInduction
<1> QED  BY <1>3 DEF T

\* Lists that agree up to n, in their elements and in which of them are dead,
\* have the same threads alive up to there.
LEMMA AliveAgree ==
  ASSUME NEW S, NEW s \in Seq(S), NEW t \in Seq(S), NEW D, NEW E,
         NEW n \in Nat, n <= Len(s), n <= Len(t),
         \A m \in 1 .. n : s[m] = t[m],
         \A m \in 1 .. n : s[m] \in D <=> s[m] \in E
  PROVE  Alive(s, D)[n] = Alive(t, E)[n]
<1> DEFINE a == Alive(s, D)
           b == Alive(t, E)
           T == {m \in Nat : m <= n => a[m] = b[m]}
<1>0. Len(s) \in Nat /\ Len(t) \in Nat
  BY LenProperties
<1>1. 0 \in T
  BY AliveStep
<1>2. ASSUME NEW m \in Nat, m \in T PROVE m + 1 \in T
  <2> SUFFICES ASSUME m + 1 <= n PROVE a[m + 1] = b[m + 1]
    OBVIOUS
  <2>1. m + 1 \in 1 .. n /\ m + 1 <= Len(s) /\ m + 1 <= Len(t)
    BY <1>0
  <2>2. /\ s[m + 1] \in D => a[m + 1] = a[m]
        /\ s[m + 1] \notin D => a[m + 1] = <<s[m + 1]>> \o a[m]
    BY <2>1, AliveStep
  <2>3. /\ t[m + 1] \in E => b[m + 1] = b[m]
        /\ t[m + 1] \notin E => b[m + 1] = <<t[m + 1]>> \o b[m]
    BY <2>1, AliveStep
  <2>4. a[m] = b[m]
    BY <1>2
  <2>5. s[m + 1] = t[m + 1] /\ (s[m + 1] \in D <=> s[m + 1] \in E)
    BY <2>1
  <2> HIDE DEF a, b
  <2> QED  BY <2>2, <2>3, <2>4, <2>5
<1> HIDE DEF T
<1>3. n \in T
  BY <1>0, <1>1, <1>2, NaturalInduction
<1> QED  BY <1>3 DEF T

\* The same for one set of dead threads.
LEMMA AlivePrefix ==
  ASSUME NEW S, NEW u \in Seq(S), NEW s \in Seq(S), NEW D, NEW n \in Nat,
         n <= Len(u), n <= Len(s), \A m \in 1 .. n : u[m] = s[m]
  PROVE  Alive(u, D)[n] = Alive(s, D)[n]
<1>1. \A E : (\A m \in 1 .. n : u[m] \in D <=> u[m] \in E) => Alive(u, D)[n] = Alive(s, E)[n]
  BY AliveAgree
<1> QED BY <1>1

\* The second of two lists joined comes first, since the end of a list does.
LEMMA AliveJoin ==
  ASSUME NEW S, NEW s \in Seq(S), NEW t \in Seq(S), NEW D
  PROVE  Alive(s \o t, D)[Len(s \o t)] = Alive(t, D)[Len(t)] \o Alive(s, D)[Len(s)]
<1> DEFINE st == s \o t
           a == Alive(st, D)
           b == Alive(t, D)
           c == Alive(s, D)[Len(s)]
           T == {m \in Nat : m <= Len(t) => a[Len(s) + m] = b[m] \o c}
<1>0. /\ Len(s) \in Nat /\ Len(t) \in Nat
      /\ st \in Seq(S) /\ Len(st) = Len(s) + Len(t)
      /\ \A k \in 1 .. Len(s) + Len(t) : st[k] = IF k <= Len(s) THEN s[k] ELSE t[k - Len(s)]
  BY LenProperties, ConcatProperties
<1> HIDE DEF st
<1>1. c \in Seq(S) /\ \A m \in 0 .. Len(t) : b[m] \in Seq(S)
  BY <1>0, AliveType
<1>2. 0 \in T
  <2>1. a[Len(s)] = c
    <3>1. ASSUME NEW u \in Seq(S), Len(s) <= Len(u), \A m \in 1 .. Len(s) : u[m] = s[m]
          PROVE  Alive(u, D)[Len(s)] = Alive(s, D)[Len(s)]
      <4>1. Len(s) \in Nat /\ Len(s) <= Len(s)
        BY <1>0
      <4> HIDE DEF T
      <4> QED  BY <3>1, <4>1, AlivePrefix
    <3>2. Len(s) <= Len(st) /\ \A m \in 1 .. Len(s) : st[m] = s[m]
      BY <1>0
    <3>3. st \in Seq(S)
      BY <1>0
    <3> HIDE DEF T
    <3> QED  BY <3>1, <3>2, <3>3, Zenon
  <2>2. b[0] = <<>>
    BY AliveStep
  <2> HIDE DEF a, b, c
  <2>3. <<>> \o c = c
    BY <1>1, ConcatEmptySeq
  <2>4. Len(s) + 0 = Len(s)
    BY <1>0
  <2> QED  BY <2>1, <2>2, <2>3, <2>4
<1>3. ASSUME NEW m \in Nat, m \in T PROVE m + 1 \in T
  <2>1. m + 1 \in Nat
    OBVIOUS
  <2> SUFFICES ASSUME m + 1 <= Len(t) PROVE a[Len(s) + (m + 1)] = b[m + 1] \o c
    BY <2>1, Zenon
  <2> HIDE DEF T
  <2> DEFINE k == Len(s) + m
             e == t[m + 1]
  <2>2. /\ k \in Nat /\ k + 1 <= Len(st) /\ Len(s) + (m + 1) = k + 1
        /\ m + 1 \in 1 .. Len(t) /\ m \in 0 .. Len(t) /\ m <= Len(t)
    BY <1>0
  <2>3. st[k + 1] = e
    BY <1>0
  <2>4. e \in S
    BY <2>2, ElementOfSeq
  <2> HIDE DEF k
  <2>5. /\ st[k + 1] \in D => a[k + 1] = a[k]
        /\ st[k + 1] \notin D => a[k + 1] = <<st[k + 1]>> \o a[k]
    <3>1. \A n \in Nat : n + 1 <= Len(st) =>
            /\ st[n + 1] \in D => a[n + 1] = a[n]
            /\ st[n + 1] \notin D => a[n + 1] = <<st[n + 1]>> \o a[n]
      <4>1. st \in Seq(S)
        BY <1>0
      <4> QED  BY <4>1, AliveStep
    <3> HIDE DEF a
    <3> QED  BY <2>2, <3>1, Zenon
  <2>6. /\ e \in D => b[m + 1] = b[m]
        /\ e \notin D => b[m + 1] = <<e>> \o b[m]
    BY AliveStep
  <2> HIDE DEF a, b, c, e
  <2>7. a[k] = b[m] \o c /\ b[m] \in Seq(S)
    BY <1>1, <1>3, <2>2 DEF k, T
  <2>8. <<e>> \o (b[m] \o c) = (<<e>> \o b[m]) \o c
    <3> DEFINE v == b[m]
    <3>1. v \in Seq(S)
      BY <2>7
    <3>2. c \in Seq(S)
      BY <1>1
    <3> HIDE DEF v
    <3>3. <<e>> \o (v \o c) = (<<e>> \o v) \o c
      BY <2>4, <3>1, <3>2, PushJoin
    <3> QED  BY <3>3 DEF v
  <2>9. a[k + 1] = b[m + 1] \o c
    <3>1. CASE e \in D
      <4>1. a[k + 1] = a[k] /\ b[m + 1] = b[m]
        BY <2>3, <2>5, <2>6, <3>1
      <4> QED  BY <4>1, <2>7
    <3>2. CASE e \notin D
      <4>1. a[k + 1] = <<e>> \o a[k] /\ b[m + 1] = <<e>> \o b[m]
        BY <2>3, <2>5, <2>6, <3>2, Zenon
      <4> QED  BY <4>1, <2>7, <2>8, Zenon
    <3> QED  BY <3>1, <3>2
  <2> QED  BY <2>2, <2>9
<1> HIDE DEF T
<1>4. Len(t) \in T /\ Len(t) <= Len(t)
  BY <1>0, <1>2, <1>3, NaturalInduction
<1>5. a[Len(s) + Len(t)] = b[Len(t)] \o c
  BY <1>4, Zenon DEF T
<1> QED  BY <1>0, <1>5 DEF st

\* With nobody dead it is the whole list, reversed.
LEMMA AliveAll ==
  ASSUME NEW S, NEW s \in Seq(S), NEW D, \A m \in 1 .. Len(s) : s[m] \notin D
  PROVE  Alive(s, D)[Len(s)] = Reverse(s)
<1> DEFINE a == Alive(s, D)
           T == {m \in Nat : m <= Len(s) =>
                   /\ Len(a[m]) = m
                   /\ \A k \in 1 .. m : a[m][k] = s[m - k + 1]}
<1>0. Len(s) \in Nat /\ \A m \in 0 .. Len(s) : a[m] \in Seq(S)
  BY LenProperties, AliveType
<1>1. 0 \in T
  BY AliveStep
<1>2. ASSUME NEW m \in Nat, m \in T PROVE m + 1 \in T
  <2> SUFFICES ASSUME m + 1 <= Len(s)
               PROVE  /\ Len(a[m + 1]) = m + 1
                      /\ \A k \in 1 .. m + 1 : a[m + 1][k] = s[m + 1 - k + 1]
    OBVIOUS
  <2> HIDE DEF T
  <2> DEFINE e == s[m + 1]
             u == <<e>>
  <2>1. m + 1 \in 1 .. Len(s) /\ m \in 0 .. Len(s) /\ m <= Len(s)
    BY <1>0
  <2>2. e \in S /\ e \notin D
    BY <2>1, ElementOfSeq
  <2>3. a[m + 1] = u \o a[m]
    BY <2>2, AliveStep
  <2> HIDE DEF a
  <2>4. Len(a[m]) = m /\ a[m] \in Seq(S) /\ \A k \in 1 .. m : a[m][k] = s[m - k + 1]
    BY <1>0, <1>2, <2>1 DEF T
  <2> DEFINE v == a[m]
  <2>5. v \in Seq(S) /\ Len(v) = m /\ \A k \in 1 .. m : v[k] = s[m - k + 1]
    BY <2>4
  <2> HIDE DEF v
  <2>6. Len(u \o v) = m + 1
    BY <2>2, <2>5, PushProperties
  <2>8. (u \o v)[1] = e /\ \A j \in 1 .. m : (u \o v)[j + 1] = v[j]
    BY <2>2, <2>5, PushElements
  <2>7. ASSUME NEW k \in 1 .. m + 1 PROVE (u \o v)[k] = s[m + 1 - k + 1]
    <3> DEFINE w == u \o v
    <3>1. w[1] = e /\ \A j \in 1 .. m : w[j + 1] = v[j]
      BY <2>8
    <3> HIDE DEF u, w
    <3>2. CASE k = 1
      <4>1. m + 1 - k + 1 = m + 1 /\ w[k] = e
        BY <3>1, <3>2
      <4> QED  BY <4>1 DEF w
    <3>3. CASE k # 1
      <4>1. k - 1 \in 1 .. m /\ (k - 1) + 1 = k /\ m - (k - 1) + 1 = m + 1 - k + 1
        BY <3>3
      <4>2. w[(k - 1) + 1] = v[k - 1] /\ v[k - 1] = s[m - (k - 1) + 1]
        BY <2>5, <3>1, <4>1, Zenon
      <4> QED  BY <4>1, <4>2 DEF w
    <3> QED  BY <3>2, <3>3
  <2> QED  BY <2>3, <2>6, <2>7 DEF v
<1> HIDE DEF T
<1>3. Len(s) \in T
  BY <1>0, <1>1, <1>2, NaturalInduction
<1>4. Len(a[Len(s)]) = Len(s) /\ \A k \in 1 .. Len(s) : a[Len(s)][k] = s[Len(s) - k + 1]
  BY <1>0, <1>3 DEF T
<1>5. a[Len(s)] \in Seq(S)
  BY <1>0
<1> HIDE DEF a
<1>6. /\ Reverse(s) \in Seq(S) /\ Len(Reverse(s)) = Len(s)
      /\ \A k \in 1 .. Len(s) : Reverse(s)[k] = s[Len(s) - k + 1]
  BY ReverseProperties
<1>7. a[Len(s)] = Reverse(s)
  BY <1>4, <1>5, <1>6, SeqEqual
<1> QED  BY <1>7 DEF a

\* The mapped queue of a list.
Queue(list, dead) == Alive(list, dead)[Len(list)]

\* The queue holds elements of the list.
LEMMA QueueType ==
  ASSUME NEW S, NEW s \in Seq(S), NEW D
  PROVE  Queue(s, D) \in Seq(S)
<1>1. Len(s) \in 0 .. Len(s)
  BY LenProperties
<1> QED  BY <1>1, AliveType DEF Queue

\* What is joined behind a list comes before it.
LEMMA QueueJoin ==
  ASSUME NEW S, NEW s \in Seq(S), NEW t \in Seq(S), NEW D
  PROVE  Queue(s \o t, D) = Queue(t, D) \o Queue(s, D)
BY AliveJoin DEF Queue

\* A list of one thread.
LEMMA QueueOne ==
  ASSUME NEW S, NEW e \in S, NEW D
  PROVE  Queue(<<e>>, D) = IF e \in D THEN <<>> ELSE <<e>>
<1> DEFINE s == <<e>>
           a == Alive(s, D)
<1>1. s \in Seq(S) /\ Len(s) = 1 /\ s[0 + 1] = e /\ 0 + 1 <= Len(s) /\ 0 + 1 = 1
  OBVIOUS
<1> HIDE DEF s
<1>2. /\ a[0] = <<>>
      /\ s[0 + 1] \in D => a[0 + 1] = a[0]
      /\ s[0 + 1] \notin D => a[0 + 1] = <<s[0 + 1]>> \o a[0]
  <2>1. a[0] = <<>> /\ \A n \in Nat : n + 1 <= Len(s) =>
              /\ s[n + 1] \in D => a[n + 1] = a[n]
              /\ s[n + 1] \notin D => a[n + 1] = <<s[n + 1]>> \o a[n]
    <3>1. s \in Seq(S)
      BY <1>1
    <3> QED  BY <3>1, AliveStep
  <2>2. 0 \in Nat
    OBVIOUS
  <2> HIDE DEF a
  <2> QED  BY <1>1, <2>1, <2>2, Zenon
<1> HIDE DEF a
<1>3. <<e>> \o <<>> = <<e>>
  OBVIOUS
<1>4. a[1] = IF e \in D THEN <<>> ELSE <<e>>
  BY <1>1, <1>2, <1>3
<1> QED  BY <1>1, <1>4 DEF s, a, Queue

\* A thread put in front of a list gets its turn last.
LEMMA QueuePush ==
  ASSUME NEW S, NEW e \in S, NEW s \in Seq(S), NEW D
  PROVE  Queue(<<e>> \o s, D) = IF e \in D THEN Queue(s, D) ELSE Append(Queue(s, D), e)
<1> DEFINE q == Queue(s, D)
<1>1. q \in Seq(S) /\ <<e>> \in Seq(S)
  BY QueueType
<1>2. Queue(<<e>> \o s, D) = q \o Queue(<<e>>, D)
  BY <1>1, QueueJoin
<1>3. Queue(<<e>>, D) = IF e \in D THEN <<>> ELSE <<e>>
  BY QueueOne
<1> HIDE DEF q
<1>4. q \o <<>> = q /\ q \o <<e>> = Append(q, e)
  BY <1>1, ConcatEmptySeq, AppendIsConcat
<1> QED  BY <1>2, <1>3, <1>4 DEF q

\* The thread at the end of a list gets its turn first.
LEMMA QueueLast ==
  ASSUME NEW S, NEW s \in Seq(S), s # <<>>, NEW D
  PROVE  Queue(s, D) = IF Last(s) \in D THEN Queue(Front(s), D) ELSE <<Last(s)>> \o Queue(Front(s), D)
<1> DEFINE f == Front(s)
           n == Len(s) - 1
<1>1. /\ f \in Seq(S) /\ Len(f) = n /\ \A k \in 1 .. n : f[k] = s[k]
      /\ Last(s) = s[n + 1] /\ n \in Nat /\ n + 1 <= Len(s) /\ n + 1 = Len(s) /\ n <= Len(s)
  BY FrontProperties
<1> HIDE DEF f, n
<1>2. Alive(f, D)[n] = Alive(s, D)[n]
  BY <1>1, AlivePrefix
<1>3. /\ s[n + 1] \in D => Alive(s, D)[n + 1] = Alive(s, D)[n]
      /\ s[n + 1] \notin D => Alive(s, D)[n + 1] = <<s[n + 1]>> \o Alive(s, D)[n]
  BY <1>1, AliveStep
<1>4. Queue(s, D) = Alive(s, D)[n + 1] /\ Queue(f, D) = Alive(s, D)[n]
  BY <1>1, <1>2 DEF Queue
<1> QED  BY <1>1, <1>3, <1>4, Zenon DEF f

\* Passing over a zombie leaves the queue as it is; otherwise its first element
\* goes to its end.
LEMMA QueueRotated ==
  ASSUME NEW S, NEW s \in Seq(S), s # <<>>, NEW D
  PROVE  /\ Last(s) \in D => Queue(Rotated(s), D) = Queue(s, D)
         /\ Last(s) \notin D =>
              /\ Queue(s, D) # <<>> /\ Head(Queue(s, D)) = Last(s)
              /\ Queue(Rotated(s), D) = Append(Tail(Queue(s, D)), Head(Queue(s, D)))
<1> DEFINE f == Front(s)
           e == Last(s)
           q == Queue(f, D)
<1>1. f \in Seq(S) /\ e \in S
  BY FrontProperties
<1>2. q \in Seq(S)
  BY <1>1, QueueType
<1>3. Queue(s, D) = IF e \in D THEN q ELSE <<e>> \o q
  BY QueueLast
<1>4. Queue(Rotated(s), D) = IF e \in D THEN q ELSE Append(q, e)
  BY <1>1, QueuePush DEF Rotated
<1> HIDE DEF f, e, q
<1>5. <<e>> \o q # <<>> /\ Head(<<e>> \o q) = e /\ Tail(<<e>> \o q) = q
  <2>1. <<e>> \o q # <<>> /\ Head(<<e>> \o q) = e
    BY <1>1, <1>2, PushProperties
  <2>2. Tail(<<e>> \o q) = q
    BY <1>1, <1>2, PushTail
  <2> QED  BY <2>1, <2>2
<1>6. CASE e \in D
  BY <1>3, <1>4, <1>6 DEF e
<1>7. CASE e \notin D
  BY <1>3, <1>4, <1>5, <1>7 DEF e
<1> QED  BY <1>6, <1>7

\* New threads, put in front of a list in reverse order, come after the others.
LEMMA QueueNew ==
  ASSUME NEW S, NEW new \in Seq(S), NEW s \in Seq(S), NEW D, ToSet(new) \cap D = {}
  PROVE  Queue(Reverse(new) \o s, D) = Queue(s, D) \o new
<1> DEFINE r == Reverse(new)
<1>1. r \in Seq(S) /\ Len(r) = Len(new) /\ ToSet(r) = ToSet(new)
  BY ReverseProperties
<1>2. Queue(r \o s, D) = Queue(s, D) \o Queue(r, D)
  BY <1>1, QueueJoin
<1>3. Reverse(r) = new
  <2>1. /\ Len(new) \in Nat
        /\ Reverse(r) \in Seq(S) /\ Len(Reverse(r)) = Len(new)
        /\ \A k \in 1 .. Len(new) : Reverse(r)[k] = r[Len(new) - k + 1]
    BY <1>1, ReverseProperties, LenProperties
  <2>2. \A k \in 1 .. Len(new) : r[k] = new[Len(new) - k + 1]
    BY ReverseProperties
  <2> HIDE DEF r
  <2>3. ASSUME NEW k \in 1 .. Len(new) PROVE Reverse(r)[k] = new[k]
    <3>1. /\ Len(new) - k + 1 \in 1 .. Len(new)
          /\ Len(new) - (Len(new) - k + 1) + 1 = k
      BY <2>1
    <3> QED  BY <2>1, <2>2, <3>1
  <2>4. Reverse(r) \in Seq(S) /\ Len(Reverse(r)) = Len(new)
    BY <2>1
  <2> QED  BY <2>3, <2>4, SeqEqual
<1>4. \A m \in 1 .. Len(r) : r[m] \notin D
  <2>1. DOMAIN r = 1 .. Len(r)
    BY <1>1, LenProperties
  <2> HIDE DEF r
  <2> QED  BY <1>1, <2>1 DEF ToSet
<1> HIDE DEF r
<1>5. Queue(r, D) = new
  BY <1>1, <1>3, <1>4, AliveAll DEF Queue
<1> QED  BY <1>2, <1>5 DEF r

\* Only which of the threads of a list are dead matters.
LEMMA QueueAgree ==
  ASSUME NEW S, NEW s \in Seq(S), NEW D, NEW E,
         \A m \in 1 .. Len(s) : s[m] \in D <=> s[m] \in E
  PROVE  Queue(s, D) = Queue(s, E)
<1>1. Len(s) \in Nat /\ Len(s) <= Len(s)
  BY LenProperties
<1>2. ASSUME NEW u \in Seq(S), Len(u) = Len(s), \A m \in 1 .. Len(s) : s[m] = u[m]
      PROVE  Alive(s, D)[Len(s)] = Alive(u, E)[Len(s)]
  BY <1>1, <1>2, AliveAgree
<1> QED  BY <1>2, Zenon DEF Queue

\* The thread at the head of a list leaves the end of the queue when it exits.
LEMMA QueueExit ==
  ASSUME NEW S, NEW s \in Seq(S), s # <<>>, NEW D, Head(s) \notin D,
         \A i, j \in 1 .. Len(s) : s[i] = s[j] => i = j
  PROVE  Queue(s, D \cup {Head(s)}) = SubSeq(Queue(s, D), 1, Len(Queue(s, D)) - 1)
<1> DEFINE h == Head(s)
           t == Tail(s)
           E == D \cup {h}
           q == Queue(t, D)
<1>1. /\ h \in S /\ t \in Seq(S) /\ Len(t) = Len(s) - 1 /\ Len(s) \in Nat /\ Len(t) \in Nat
      /\ \A k \in 1 .. Len(t) : t[k] = s[k + 1]
  BY HeadTailProperties, LenProperties
<1>2. s = <<h>> \o t
  OBVIOUS
<1>3. Queue(t, E) = q
  <2>1. ASSUME NEW k \in 1 .. Len(t) PROVE t[k] # h
    <3>1. k + 1 \in 1 .. Len(s) /\ 1 \in 1 .. Len(s) /\ k + 1 # 1
      BY <1>1
    <3>2. s[1] = h /\ t[k] = s[k + 1]
      BY <1>1
    <3> QED  BY <3>1, <3>2
  <2>2. \A k \in 1 .. Len(t) : t[k] \in E <=> t[k] \in D
    BY <2>1
  <2>3. t \in Seq(S)
    BY <1>1
  <2> HIDE DEF t, E
  <2>4. Queue(t, E) = Queue(t, D)
    BY <2>2, <2>3, QueueAgree
  <2> QED  BY <2>4
<1>4. h \in E /\ h \notin D
  OBVIOUS
<1>5. q \in Seq(S)
  BY <1>1, QueueType
<1> HIDE DEF h, t, E, q
<1>6. Queue(s, E) = Queue(t, E) /\ Queue(s, D) = Append(q, h)
  BY <1>1, <1>2, <1>4, QueuePush DEF q
<1>7. SubSeq(Append(q, h), 1, Len(Append(q, h)) - 1) = q
  BY <1>1, <1>5, AppendFront
<1> QED  BY <1>3, <1>6, <1>7 DEF E, h

--------------------------------------------------------------------------------
(***************************************************************************)
(* The refinement.                                                         *)
(***************************************************************************)

\* No id is twice in the list: it is as long as there are threads in the two.
LEMMA ListInjective ==
  ASSUME TypeOK, EachListedOnce
  PROVE  \A i, j \in 1 .. Len(threadList) : threadList[i] = threadList[j] => i = j
<1> DEFINE all == newThreads \o threadList
           m == Len(newThreads)
           n == Len(threadList)
<1>1. /\ m \in Nat /\ n \in Nat /\ all \in Seq(Threads) /\ Len(all) = m + n
      /\ \A k \in 1 .. m + n : all[k] = IF k <= m THEN newThreads[k] ELSE threadList[k - m]
  BY LenProperties, ConcatProperties DEF TypeOK
<1>2. m + n = threadCounter /\ ToSet(all) = 0 .. threadCounter - 1
  BY <1>1 DEF EachListedOnce
<1>3. DOMAIN all = 1 .. m + n
  BY <1>1, LenProperties
<1> HIDE DEF all
<1>4. all \in Surjection(1 .. m + n, 0 .. threadCounter - 1)
  <2>1. all \in [1 .. m + n -> 0 .. threadCounter - 1]
    BY <1>1, <1>2, <1>3 DEF ToSet
  <2>2. \A t \in 0 .. threadCounter - 1 : \E k \in 1 .. m + n : all[k] = t
    BY <1>2, <1>3 DEF ToSet
  <2> QED  BY <2>1, <2>2 DEF Surjection
<1>5. /\ IsFiniteSet(1 .. m + n)
      /\ Cardinality(0 .. threadCounter - 1) = Cardinality(1 .. m + n)
  BY <1>1, <1>2, FS_Interval
<1>6. \A i, j \in 1 .. m + n : all[i] = all[j] => i = j
  BY <1>4, <1>5, FS_Surjection DEF Injection, IsInjective
<1>7. ASSUME NEW i \in 1 .. n, NEW j \in 1 .. n, threadList[i] = threadList[j] PROVE i = j
  <2> HIDE DEF m, n
  <2>1. ASSUME NEW k \in 1 .. n PROVE k + m \in 1 .. m + n /\ all[k + m] = threadList[k]
    <3>1. k + m \in 1 .. m + n /\ ~(k + m <= m) /\ (k + m) - m = k
      BY <1>1
    <3>2. all[k + m] = threadList[(k + m) - m]
      BY <1>1, <3>1
    <3> QED  BY <3>1, <3>2
  <2>2. i + m = j + m
    BY <1>6, <1>7, <2>1
  <2> QED  BY <1>1, <2>2
<1> QED  BY <1>7

\* What RoundRobin's variables stand for.
Order   == Queue(threadList, zombies)
Running == IF control \in Places THEN curr ELSE None

\* Nobody has the processor, and thread 0 is the only one spawned.
LEMMA TurnsInit == Init => Turns!Init
<1> SUFFICES ASSUME Init PROVE Turns!Init
  OBVIOUS
<1>1. threadList = <<>> /\ Len(threadList) = 0 /\ <<>> \in Seq(Threads)
  BY DEF Init
<1>2. Alive(<<>>, zombies)[0] = <<>>
  BY <1>1, AliveStep
<1> QED  BY <1>1, <1>2 DEF Init, Turns!Init, Turns!None, None, Places

\* A thread spawned gets a larger id than all that wait for their turn.
LEMMA TurnsSpawn == ThreadInv /\ Spawn => Turns!Next
<1> SUFFICES ASSUME ThreadInv, Spawn PROVE Turns!Spawn(threadCounter) /\ threadCounter \in 0 .. MaxThreads - 1
  BY DEF Turns!Next
<1> USE MaxThreadsAssumption DEF Threads
<1>1. TypeOK /\ EachListedOnce /\ curr \in Threads
  BY DEF ThreadInv, Position, Spawn, Places
<1>2. threadCounter \in 0 .. MaxThreads - 1
  BY <1>1 DEF TypeOK, Spawn
<1>3. ToSet(newThreads) \cup ToSet(threadList) = 0 .. threadCounter - 1
  BY <1>1, ListFacts
<1>4. \A i \in DOMAIN newThreads : newThreads[i] < threadCounter
  BY <1>2, <1>3 DEF ToSet
<1>5. \A i \in DOMAIN Order : Order[i] < threadCounter
  <2> DEFINE S == 0 .. threadCounter - 1
  <2>1. threadList \in Seq(Threads) /\ \A k \in 1 .. Len(threadList) : threadList[k] \in S
    BY <1>1, <1>3, LenProperties DEF TypeOK, ToSet
  <2>2. threadList \in Seq(S)
    <3>1. threadList \in [1 .. Len(threadList) -> S] /\ Len(threadList) \in Nat
      BY <2>1, LenProperties
    <3> QED  BY <3>1, SeqDef
  <2> HIDE DEF S
  <2>3. Order \in Seq(S)
    BY <2>2, QueueType DEF Order
  <2> HIDE DEF Order
  <2>4. \A i \in DOMAIN Order : Order[i] \in S
    BY <2>3, LenProperties, ElementOfSeq
  <2> QED  BY <1>2, <2>4 DEF S
<1> QED  BY <1>1, <1>2, <1>4, <1>5 DEF Spawn, Turns!Spawn, Turns!None, Places, Order, Queue

\* New threads go to the end of the queue, in the order in which they were spawned.
LEMMA TurnsNew == ThreadInv /\ HandleNewThreads => [Turns!Next]_(Turns!turns)
<1> SUFFICES ASSUME ThreadInv, HandleNewThreads PROVE Turns!Admit \/ UNCHANGED Turns!turns
  BY DEF Turns!Next
<1>1. /\ newThreads \in Seq(Threads) /\ threadList \in Seq(Threads)
      /\ threadList' = Reverse(newThreads) \o threadList /\ newThreads' = <<>>
      /\ zombies' = zombies /\ control = "cycle" /\ control' = "select"
  BY DEF ThreadInv, TypeOK, HandleNewThreads
<1>2. ToSet(newThreads) \cap zombies = {}
  <2>1. ToSet(newThreads) \subseteq Threads
    BY <1>1, LenProperties, ElementOfSeq DEF ToSet
  <2> QED  BY <2>1 DEF ThreadInv, Uncreated, JumpPointsValid
<1>3. Queue(threadList', zombies') = Queue(threadList, zombies) \o newThreads
  BY <1>1, <1>2, QueueNew
<1>4. Queue(threadList, zombies) \in Seq(Threads)
  BY <1>1, QueueType
<1>5. CASE newThreads = <<>>
  <2>1. Queue(threadList', zombies') = Queue(threadList, zombies)
    BY <1>3, <1>4, <1>5, ConcatEmptySeq
  <2> QED  BY <1>1, <1>5, <2>1 DEF Turns!turns, Places, Queue
<1>6. CASE newThreads # <<>>
  BY <1>1, <1>3, <1>6 DEF Turns!Admit, Turns!None, None, Places, Queue
<1> QED  BY <1>5, <1>6

\* The scheduler passes over a zombie, or gives the first thread its turn.
LEMMA TurnsSelect == ThreadInv /\ SelectNextThread => [Turns!Next]_(Turns!turns)
<1> SUFFICES ASSUME ThreadInv, SelectNextThread PROVE Turns!Dispatch \/ UNCHANGED Turns!turns
  BY DEF Turns!Next
<1>1. newThreads = <<>> /\ threadList \in Seq(Threads) /\ threadList # <<>>
  BY ListFacts DEF ThreadInv, TypeOK, Position, SelectNextThread
<1> DEFINE last == Last(threadList)
<1>2. /\ threadList' = Rotated(threadList) /\ Head(threadList') = last
      /\ last \in Threads /\ Found(last)
  BY <1>1, RotatedProperties, FrontProperties DEF SelectNextThread, Found
<1>3. zombies' = zombies /\ newThreads' = <<>> /\ control = "select"
  BY <1>1 DEF SelectNextThread
<1>4. CASE last \in zombies
  <2>1. Queue(threadList', zombies') = Queue(threadList, zombies)
    BY <1>1, <1>2, <1>3, <1>4, QueueRotated
  <2>2. curr' = curr /\ control' = control
    BY <1>2, <1>4 DEF SelectNextThread
  <2> QED  BY <1>1, <1>3, <2>1, <2>2 DEF Turns!turns, Queue
<1>5. CASE last \notin zombies
  <2> DEFINE q == Queue(threadList, zombies)
  <2>1. q # <<>> /\ Head(q) = last /\ Queue(threadList', zombies') = Append(Tail(q), Head(q))
    BY <1>1, <1>2, <1>3, <1>5, QueueRotated
  <2>2. curr' = last /\ control' \in Places
    BY <1>2, <1>5 DEF SelectNextThread, ThreadInv, TypeOK, JumpPointsValid
  <2> QED  BY <1>1, <1>3, <2>1, <2>2 DEF Turns!Dispatch, Turns!None, None, Queue, Places
<1> QED  BY <1>4, <1>5

\* A thread that exits is the last in the queue, and leaves it.
LEMMA TurnsExit == ThreadInv /\ Exit => Turns!Next
<1> SUFFICES ASSUME ThreadInv, Exit PROVE Turns!Leave
  BY DEF Turns!Next
<1>1. /\ threadList \in Seq(Threads) /\ curr \in Threads /\ Found(curr)
      /\ curr = Head(threadList) /\ curr \notin zombies
  BY DEF ThreadInv, TypeOK, Position, JumpPointsValid, Exit, Places
<1>2. threadList # <<>>
  BY <1>1 DEF Found, ToSet
<1>3. \A i, j \in 1 .. Len(threadList) : threadList[i] = threadList[j] => i = j
  BY ListInjective DEF ThreadInv
<1> DEFINE q == Queue(threadList, zombies)
<1>4. Queue(threadList, zombies \cup {curr}) = SubSeq(q, 1, Len(q) - 1)
  BY <1>1, <1>2, <1>3, QueueExit
<1>5. /\ newThreads' = newThreads /\ threadList' = threadList /\ zombies' = zombies \cup {curr}
      /\ control \in Places /\ control' \notin Places /\ curr # None
  BY <1>1, MaxThreadsAssumption DEF Exit, lists, Places, Threads, None
<1>6. Queue(threadList', zombies') = SubSeq(q, 1, Len(q) - 1)
  BY <1>4, <1>5
<1> QED  BY <1>5, <1>6 DEF Turns!Leave, Turns!None, None, Queue

\* A step that leaves the lists and the zombies alone and gives the processor up.
LEMMA TurnsGiveUp ==
  ASSUME ThreadInv, UNCHANGED <<lists, zombies>>, control \in Places, control' \notin Places
  PROVE  Turns!Next
<1>1. curr \in Threads
  BY DEF ThreadInv, Position
<1>2. Turns!GiveUp
  BY <1>1, MaxThreadsAssumption DEF Turns!GiveUp, Turns!None, None, Threads, lists
<1> QED  BY <1>2 DEF Turns!Next

\* A step that changes none of what RoundRobin sees.
LEMMA TurnsStutter ==
  ASSUME UNCHANGED <<lists, zombies, curr>>, control' \in Places <=> control \in Places
  PROVE  UNCHANGED Turns!turns
BY DEF Turns!turns, lists

\* Every step is one of RoundRobin or changes none of its variables.
LEMMA TurnsStep == ThreadInv /\ [Next]_vars => [Turns!Next]_(Turns!turns)
<1> SUFFICES ASSUME ThreadInv, [Next]_vars PROVE [Turns!Next]_(Turns!turns)
  OBVIOUS
<1>1. CASE HandleNewThreads \/ SelectNextThread
  BY <1>1, TurnsNew, TurnsSelect
<1>2. CASE Spawn \/ Exit
  BY <1>2, TurnsSpawn, TurnsExit
<1>3. CASE \/ Yield \/ ExitProcess \/ WaitpidAgain \/ ReadAgain
           \/ \E tid \in 0 .. MaxThreads : WaitpidCall(tid)
           \/ \E fd \in Files : ReadBlocks(fd)
  <2>1. UNCHANGED <<lists, zombies>> /\ control \in Places /\ control' \notin Places
    BY <1>3 DEF Yield, ExitProcess, WaitpidAgain, ReadAgain, WaitpidCall, ReadBlocks, YieldAt, Places
  <2> QED  BY <2>1, TurnsGiveUp
<1>4. CASE \/ OutOfStacks \/ WaitpidUnknown \/ WaitpidDone \/ ReadDone \/ Ended
           \/ (\E fd \in Files : ReadAtOnce(fd)) \/ (\E fd \in Files : Arrive(fd))
           \/ UNCHANGED vars
  <2>1. UNCHANGED <<lists, zombies, curr>> /\ (control' \in Places <=> control \in Places)
    BY <1>4 DEF OutOfStacks, WaitpidUnknown, WaitpidDone, ReadDone, Ended, ReadAtOnce, Arrive, Return, vars, Places
  <2> QED  BY <2>1, TurnsStutter
<1> QED  BY <1>1, <1>2, <1>3, <1>4 DEF Next, Scheduler, Library, User, LetGo

\* ult.c gives its threads their turns as RoundRobin says, whatever they call.
THEOREM ImplementsRoundRobin == Spec => RoundRobinRefinement
<1>1. Spec => Turns!Init /\ [][Turns!Next]_(Turns!turns)
  BY TurnsInit, TurnsStep, ThreadInvariance, PTL DEF Spec
<1> QED  BY <1>1 DEF RoundRobinRefinement, Turns!Spec

--------------------------------------------------------------------------------
(***************************************************************************)
(* Nobody is overtaken: what NobodyStarves rests on.                       *)
(***************************************************************************)

\* A step leaves in front of no thread more than were there: the others between
\* it and the end of the list from which selectNextThread takes the next one.
\* Each round of that loop brings it nearer, until it has the processor.
NobodyOvertakes ==
  \A i \in 1 .. Len(threadList) :
    LET t == threadList[i] IN
      \/ \E j \in 1 .. Len(threadList') :
           /\ threadList'[j] = t
           /\ Len(threadList') - j <= Len(threadList) - i
           /\ SelectNextThread => Len(threadList') - j < Len(threadList) - i
      \/ SelectNextThread /\ (t \in zombies \/ (curr' = t /\ control' \in Places))

\* The round of the loop moves everybody but the last one towards the end.
LEMMA RoundMovesOn == ThreadInv /\ SelectNextThread => NobodyOvertakes
<1> SUFFICES ASSUME ThreadInv, SelectNextThread, NEW i \in 1 .. Len(threadList)
             PROVE  \/ \E j \in 1 .. Len(threadList') :
                         /\ threadList'[j] = threadList[i]
                         /\ Len(threadList') - j <= Len(threadList) - i
                         /\ Len(threadList') - j < Len(threadList) - i
                    \/ threadList[i] \in zombies
                    \/ (curr' = threadList[i] /\ control' \in Places)
  BY Zenon DEF NobodyOvertakes
<1> DEFINE n == Len(threadList)
           f == Front(threadList)
           last == Last(threadList)
<1>1. threadList \in Seq(Threads) /\ threadList # <<>> /\ n \in Nat
  <2>1. threadList \in Seq(Threads) /\ n \in Nat
    BY DEF ThreadInv, TypeOK
  <2>2. ASSUME threadList = <<>> PROVE FALSE
    <3>1. n = 0
      BY <2>2
    <3> QED  BY <3>1
  <2> QED  BY <2>1, <2>2
<1>2. /\ f \in Seq(Threads) /\ last \in Threads /\ Len(f) = n - 1
      /\ \A k \in 1 .. n - 1 : f[k] = threadList[k]
      /\ last = threadList[n] /\ last \in ToSet(threadList)
  BY <1>1, FrontProperties
<1>3. threadList' = <<last>> \o f
  BY DEF SelectNextThread, Rotated
<1>4. Len(threadList') = n /\ Head(threadList') = last
  BY <1>1, <1>3, RotatedProperties DEF Rotated
<1>5. \A k \in 1 .. Len(f) : threadList'[k + 1] = f[k]
  BY <1>2, <1>3, PushElements
<1>6. CASE i < n
  <2>1. i \in 1 .. n - 1 /\ i + 1 \in 1 .. n /\ n - (i + 1) < n - i /\ n - (i + 1) <= n - i
    BY <1>1, <1>6
  <2>2. threadList'[i + 1] = threadList[i]
    BY <1>2, <1>5, <2>1
  <2> QED  BY <1>4, <2>1, <2>2
<1>7. CASE i = n /\ last \notin zombies
  <2>1. curr' = last /\ control' = jumpPoint[last]
    BY <1>4, <1>7 DEF SelectNextThread
  <2>2. jumpPoint[last] # "none" /\ jumpPoint[last] # "zeroed"
    BY <1>2, <1>7 DEF ThreadInv, JumpPointsValid, Found
  <2>3. jumpPoint[last] \in Places
    BY <1>2, <2>2 DEF ThreadInv, TypeOK
  <2> QED  BY <1>2, <1>7, <2>1, <2>3
<1> QED  BY <1>1, <1>2, <1>6, <1>7

\* New threads come in front of the others; nothing else changes the list.
LEMMA OthersKeepPlaces ==
  ThreadInv /\ [Next]_vars /\ ~SelectNextThread => NobodyOvertakes
<1> SUFFICES ASSUME ThreadInv, [Next]_vars, ~SelectNextThread, NEW i \in 1 .. Len(threadList)
             PROVE  \E j \in 1 .. Len(threadList') :
                      /\ threadList'[j] = threadList[i]
                      /\ Len(threadList') - j <= Len(threadList) - i
  BY DEF NobodyOvertakes
<1>1. threadList \in Seq(Threads) /\ newThreads \in Seq(Threads) /\ Len(threadList) \in Nat
  BY DEF ThreadInv, TypeOK
<1>2. CASE HandleNewThreads
  <2> DEFINE new == Reverse(newThreads)
             m == Len(new)
             n == Len(threadList)
             list == new \o threadList
  <2>1. new \in Seq(Threads) /\ m \in Nat
    BY <1>1, ReverseProperties, LenProperties
  <2>2. threadList' = list
    BY <1>2 DEF HandleNewThreads
  <2>3. Len(list) = m + n /\ \A k \in 1 .. m + n : list[k] = IF k <= m THEN new[k] ELSE threadList[k - m]
    <3> HIDE DEF new
    <3> QED  BY <1>1, <2>1, ConcatProperties
  <2> HIDE DEF list, new
  <2>4. i + m \in 1 .. m + n /\ ~(i + m <= m) /\ (i + m) - m = i /\ (m + n) - (i + m) <= n - i
    BY <1>1, <2>1
  <2>5. list[i + m] = threadList[i]
    BY <2>3, <2>4
  <2> QED  BY <2>2, <2>3, <2>4, <2>5
<1>3. CASE threadList' = threadList
  BY <1>1, <1>3
<1>4. CASE ~HandleNewThreads
  <2>1. threadList' = threadList
    <3>1. CASE OutOfStacks \/ Library \/ (\E fd \in Files : Arrive(fd)) \/ Ended \/ UNCHANGED vars
      BY <3>1 DEF OutOfStacks, Library, WaitpidUnknown, WaitpidDone, WaitpidAgain, ReadDone,
                  ReadAgain, Arrive, Ended, lists, vars
    <3>2. CASE User
      BY <3>2 DEF User, LetGo, Spawn, Yield, Exit, ExitProcess, WaitpidCall, ReadBlocks,
                  ReadAtOnce, lists
    <3> QED  BY <1>4, <3>1, <3>2 DEF Next, Scheduler
  <2> QED  BY <1>3, <2>1
<1> QED  BY <1>2, <1>4

\* Whatever the threads call, each comes nearer to its turn, and loses its place
\* in the list only when that has come.
THEOREM TurnsComeNearer == Spec => [][NobodyOvertakes]_vars
<1>1. ThreadInv /\ [Next]_vars => NobodyOvertakes
  BY RoundMovesOn, OthersKeepPlaces
<1> QED  BY <1>1, ThreadInvariance, PTL DEF Spec
================================================================================
