---------------------------- MODULE ShellLinesProofs ----------------------------
(***************************************************************************)
(* What the two scanners of a line find, for lines of any length, and what *)
(* follows for the memory and the meaning of what is run.                  *)
(***************************************************************************)
EXTENDS ShellLines, SetInduction, SequenceTheorems

--------------------------------------------------------------------------------
(***************************************************************************)
(* Characters of a line.                                                   *)
(***************************************************************************)

\* A line is a sequence of characters that is not too long.
LEMMA LineIs == \A s : s \in Lines <=> s \in Seq(Chars) /\ Len(s) <= MaxLength
<1> USE MaxLengthAssumption
<1>1. ASSUME NEW s \in Lines PROVE s \in Seq(Chars) /\ Len(s) <= MaxLength
  <2>1. PICK m \in 0 .. MaxLength : s \in [1 .. m -> Chars]
    BY DEF Lines, BoundedSeq, SeqOf
  <2> QED  BY <2>1
<1>2. ASSUME NEW s \in Seq(Chars), Len(s) <= MaxLength PROVE s \in Lines
  <2>1. s \in [1 .. Len(s) -> Chars] /\ Len(s) \in 0 .. MaxLength
    BY <1>2, LenProperties
  <2> QED  BY <2>1 DEF Lines, BoundedSeq, SeqOf
<1> QED  BY <1>1, <1>2

\* The character at a position, and the end of the string behind the last one.
LEMMA AtIs ==
  ASSUME NEW s \in Seq(Chars), NEW i \in Int
  PROVE  /\ Len(s) \in Nat
         /\ 0 <= i /\ i < Len(s) => i + 1 \in 1 .. Len(s) /\ At(s, i) = s[i + 1] /\ At(s, i) \in Chars
         /\ i < 0 \/ i >= Len(s) => At(s, i) = NUL
         /\ NUL \notin Chars /\ ~isValidCmdChar(NUL) /\ ~isspace(NUL)
<1>1. Len(s) \in Nat /\ DOMAIN s = 1 .. Len(s)
  BY LenProperties
<1>2. 0 <= i /\ i < Len(s) => i + 1 \in 1 .. Len(s) /\ s[i + 1] \in Chars
  BY <1>1, ElementOfSeq
<1>3. i < 0 \/ i >= Len(s) => i + 1 \notin 1 .. Len(s)
  BY <1>1
<1>4. /\ i + 1 \in 1 .. Len(s) => At(s, i) = s[i + 1]
      /\ i + 1 \notin 1 .. Len(s) => At(s, i) = NUL
  BY <1>1 DEF At
<1>5. NUL \notin Chars /\ ~isValidCmdChar(NUL) /\ ~isspace(NUL)
  BY DEF NUL, Chars, isValidCmdChar, isspace
<1> QED  BY <1>1, <1>2, <1>3, <1>4, <1>5

--------------------------------------------------------------------------------
(***************************************************************************)
(* The scanners, step by step.                                             *)
(***************************************************************************)

\* The loop of getValidSeqCount.
LEMMA CountStep ==
  ASSUME NEW s \in Seq(Chars), NEW start \in 0 .. Len(s)
  PROVE  \E f : /\ getValidSeqCount(s, start) = f[start][FALSE]
                /\ \A i \in start .. Len(s), inSeq \in BOOLEAN :
                     f[i][inSeq] =
                       IF isValidCmdChar(At(s, i)) THEN f[i + 1][TRUE]
                       ELSE (IF inSeq THEN 1 ELSE 0) + (IF isspace(At(s, i)) THEN f[i + 1][FALSE] ELSE 0)
<1> DEFINE L == Len(s)
           Round(f, i, b) ==
             IF isValidCmdChar(At(s, i)) THEN f[i + 1][TRUE]
             ELSE (IF b THEN 1 ELSE 0) + (IF isspace(At(s, i)) THEN f[i + 1][FALSE] ELSE 0)
           Defines(f, m) == f = [i \in m .. L |-> [b \in BOOLEAN |-> Round(f, i, b)]]
           T == {n \in Nat : n <= L - start => \E f : Defines(f, L - n)}
<1>1. L \in Nat
  BY LenProperties
<1>2. ~isValidCmdChar(At(s, L)) /\ ~isspace(At(s, L))
  BY <1>1, AtIs
<1>3. \A f, g : \A i \in 0 .. L : (i < L => f[i + 1] = g[i + 1]) =>
        [b \in BOOLEAN |-> Round(f, i, b)] = [b \in BOOLEAN |-> Round(g, i, b)]
  <2> SUFFICES ASSUME NEW f, NEW g, NEW i \in 0 .. L, i < L => f[i + 1] = g[i + 1]
               PROVE  [b \in BOOLEAN |-> Round(f, i, b)] = [b \in BOOLEAN |-> Round(g, i, b)]
    OBVIOUS
  <2>1. \A b \in BOOLEAN : Round(f, i, b) = Round(g, i, b)
    <3>1. CASE i < L
      BY <3>1
    <3>2. CASE i = L
      <4>1. ~isValidCmdChar(At(s, i)) /\ ~isspace(At(s, i))
        BY <1>2, <3>2
      <4> QED  BY <4>1
    <3>3. i < L \/ i = L
      <4> HIDE DEF L
      <4> QED  BY <1>1
    <3> QED  BY <3>1, <3>2, <3>3
  <2> HIDE DEF Round
  <2> QED  BY <2>1
<1> HIDE DEF Round, L
<1>4. 0 \in T
  <2> DEFINE f == [i \in L .. L |-> [b \in BOOLEAN |-> Round(<<>>, i, b)]]
  <2>1. \A i \in L .. L : i \in 0 .. L /\ ~(i < L)
    BY <1>1
  <2>2. \A i \in L .. L : [b \in BOOLEAN |-> Round(<<>>, i, b)] = [b \in BOOLEAN |-> Round(f, i, b)]
    <3> HIDE DEF f
    <3> QED  BY <1>3, <2>1
  <2>3. Defines(f, L)
    BY <2>2
  <2> HIDE DEF f, Defines
  <2> QED  BY <1>1, <2>3
<1>5. ASSUME NEW n \in Nat, n \in T PROVE n + 1 \in T
  <2> SUFFICES ASSUME n + 1 <= L - start PROVE \E f : Defines(f, L - (n + 1))
    OBVIOUS
  <2> DEFINE m == L - n
  <2>0. m \in Nat /\ m - 1 \in Nat /\ m <= L /\ L - (n + 1) = m - 1
    BY <1>1
  <2>1. PICK f : Defines(f, m)
    BY <1>1, <1>5
  <2> HIDE DEF m
  <2> DEFINE g == [i \in m - 1 .. L |-> IF i = m - 1 THEN [b \in BOOLEAN |-> Round(f, i, b)] ELSE f[i]]
  <2>2. ASSUME NEW i \in m - 1 .. L PROVE g[i] = [b \in BOOLEAN |-> Round(g, i, b)]
    <3>1. i \in 0 .. L /\ (i < L => g[i + 1] = f[i + 1])
      BY <1>1, <2>0
    <3>2. g[i] = [b \in BOOLEAN |-> Round(f, i, b)]
      <4>1. CASE i = m - 1
        BY <4>1
      <4>2. CASE i # m - 1
        <5>1. i \in m .. L /\ g[i] = f[i]
          BY <2>0, <4>2
        <5>2. f[i] = [b \in BOOLEAN |-> Round(f, i, b)]
          BY <2>1, <5>1, Zenon
        <5> QED  BY <5>1, <5>2
      <4> QED  BY <4>1, <4>2
    <3> HIDE DEF g
    <3> QED  BY <1>3, <3>1, <3>2
  <2>3. Defines(g, m - 1)
    BY <2>2
  <2> HIDE DEF g, Defines
  <2> QED  BY <2>0, <2>3
<1> HIDE DEF T
<1>6. L - start \in T
  BY <1>1, <1>4, <1>5, NaturalInduction DEF L
<1>7. \E f : Defines(f, start)
  <2> HIDE DEF Defines
  <2>1. L - (L - start) = start
    BY <1>1
  <2> QED  BY <1>6, <2>1 DEF T
<1> DEFINE f == CHOOSE f : Defines(f, start)
<1>8. Defines(f, start)
  <2> HIDE DEF Defines
  <2> QED  BY <1>7
<1>9. getValidSeqCount(s, start) = f[start][FALSE]
  BY Zenon DEF getValidSeqCount, Round, L
<1> HIDE DEF f
<1>10. ASSUME NEW i \in start .. L, NEW b \in BOOLEAN PROVE f[i][b] = Round(f, i, b)
  <2>1. f[i] = [a \in BOOLEAN |-> Round(f, i, a)]
    BY <1>8, Zenon
  <2> QED  BY <2>1, Zenon
<1> QED  BY <1>9, <1>10 DEF Round, L

\* The loop of command_new.
LEMMA ScanStep ==
  ASSUME NEW s \in Seq(Chars), NEW start \in 0 .. Len(s)
  PROVE  \E f : /\ ScanArguments(s, start) = f[start][-1]
                /\ \A i \in start .. Len(s), argStart \in -1 .. Len(s) :
                     f[i][argStart] =
                       LET copied == IF argStart >= 0 THEN <<SubSeq(s, argStart + 1, i)>> ELSE <<>>
                           rest   == f[i + 1][-1]
                       IN  IF isValidCmdChar(At(s, i))
                             THEN f[i + 1][IF argStart = -1 THEN i ELSE argStart]
                           ELSE IF isspace(At(s, i)) THEN [rest EXCEPT !.args = copied \o @]
                           ELSE [args |-> copied, stop |-> i]
<1> DEFINE L == Len(s)
           Round(f, i, a) ==
             LET copied == IF a >= 0 THEN <<SubSeq(s, a + 1, i)>> ELSE <<>>
                 rest   == f[i + 1][-1]
             IN  IF isValidCmdChar(At(s, i)) THEN f[i + 1][IF a = -1 THEN i ELSE a]
                 ELSE IF isspace(At(s, i)) THEN [rest EXCEPT !.args = copied \o @]
                 ELSE [args |-> copied, stop |-> i]
           Defines(f, m) == f = [i \in m .. L |-> [a \in -1 .. L |-> Round(f, i, a)]]
           T == {n \in Nat : n <= L - start => \E f : Defines(f, L - n)}
<1>1. L \in Nat
  BY LenProperties
<1>2. ~isValidCmdChar(At(s, L)) /\ ~isspace(At(s, L))
  BY <1>1, AtIs
<1>3. \A f, g : \A i \in 0 .. L : (i < L => f[i + 1] = g[i + 1]) =>
        [a \in -1 .. L |-> Round(f, i, a)] = [a \in -1 .. L |-> Round(g, i, a)]
  <2> SUFFICES ASSUME NEW f, NEW g, NEW i \in 0 .. L, i < L => f[i + 1] = g[i + 1]
               PROVE  [a \in -1 .. L |-> Round(f, i, a)] = [a \in -1 .. L |-> Round(g, i, a)]
    OBVIOUS
  <2>1. \A a \in -1 .. L : Round(f, i, a) = Round(g, i, a)
    <3>1. CASE i < L
      <4>1. f[i + 1] = g[i + 1]
        BY <3>1
      <4> QED  BY <4>1, Zenon
    <3>2. CASE i = L
      <4>1. ~isValidCmdChar(At(s, i)) /\ ~isspace(At(s, i))
        BY <1>2, <3>2
      <4> QED  BY <4>1, Zenon
    <3>3. i < L \/ i = L
      <4> HIDE DEF L
      <4> QED  BY <1>1
    <3> QED  BY <3>1, <3>2, <3>3
  <2> HIDE DEF Round
  <2> QED  BY <2>1
<1> HIDE DEF Round, L
<1>4. 0 \in T
  <2> DEFINE f == [i \in L .. L |-> [a \in -1 .. L |-> Round(<<>>, i, a)]]
  <2>1. \A i \in L .. L : i \in 0 .. L /\ ~(i < L)
    BY <1>1
  <2>2. \A i \in L .. L : [a \in -1 .. L |-> Round(<<>>, i, a)] = [a \in -1 .. L |-> Round(f, i, a)]
    <3> HIDE DEF f
    <3> QED  BY <1>3, <2>1
  <2>3. Defines(f, L)
    BY <2>2
  <2> HIDE DEF f, Defines
  <2> QED  BY <1>1, <2>3
<1>5. ASSUME NEW n \in Nat, n \in T PROVE n + 1 \in T
  <2> SUFFICES ASSUME n + 1 <= L - start PROVE \E f : Defines(f, L - (n + 1))
    OBVIOUS
  <2> DEFINE m == L - n
  <2>0. m \in Nat /\ m - 1 \in Nat /\ m <= L /\ L - (n + 1) = m - 1
    BY <1>1
  <2>1. PICK f : Defines(f, m)
    BY <1>1, <1>5
  <2> HIDE DEF m
  <2> DEFINE g == [i \in m - 1 .. L |-> IF i = m - 1 THEN [a \in -1 .. L |-> Round(f, i, a)] ELSE f[i]]
  <2>2. ASSUME NEW i \in m - 1 .. L PROVE g[i] = [a \in -1 .. L |-> Round(g, i, a)]
    <3>1. i \in 0 .. L /\ (i < L => g[i + 1] = f[i + 1])
      BY <1>1, <2>0
    <3>2. g[i] = [a \in -1 .. L |-> Round(f, i, a)]
      <4>1. CASE i = m - 1
        BY <4>1
      <4>2. CASE i # m - 1
        <5>1. i \in m .. L /\ g[i] = f[i]
          BY <2>0, <4>2
        <5>2. f[i] = [a \in -1 .. L |-> Round(f, i, a)]
          BY <2>1, <5>1, Zenon
        <5> QED  BY <5>1, <5>2
      <4> QED  BY <4>1, <4>2
    <3> HIDE DEF g
    <3> QED  BY <1>3, <3>1, <3>2
  <2>3. Defines(g, m - 1)
    BY <2>2
  <2> HIDE DEF g, Defines
  <2> QED  BY <2>0, <2>3
<1> HIDE DEF T
<1>6. L - start \in T
  BY <1>1, <1>4, <1>5, NaturalInduction DEF L
<1>7. \E f : Defines(f, start)
  <2> HIDE DEF Defines
  <2>1. L - (L - start) = start
    BY <1>1
  <2> QED  BY <1>6, <2>1 DEF T
<1> DEFINE f == CHOOSE f : Defines(f, start)
<1>8. Defines(f, start)
  <2> HIDE DEF Defines
  <2> QED  BY <1>7
<1>9. ScanArguments(s, start) = f[start][-1]
  BY Zenon DEF ScanArguments, Round, L
<1> HIDE DEF f
<1>10. ASSUME NEW i \in start .. L, NEW a \in -1 .. L PROVE f[i][a] = Round(f, i, a)
  <2>1. f[i] = [b \in -1 .. L |-> Round(f, i, b)]
    BY <1>8, Zenon
  <2> QED  BY <2>1, Zenon
<1> QED  BY <1>9, <1>10, Zenon DEF Round, L

--------------------------------------------------------------------------------
(***************************************************************************)
(* Words, and lists of them.                                               *)
(***************************************************************************)

\* The words that begin behind the first lo characters and within the first hi.
WordsFrom(s, lo, hi) == {w \in Words(s) : lo < w[1] /\ w[1] <= hi}

\* p lists the n words of W as they follow each other.
InOrder(p, n, W) ==
  /\ n \in Nat /\ p \in [1 .. n -> W]
  /\ \A w \in W : \E j \in 1 .. n : p[j] = w
  /\ \A i, j \in 1 .. n : i < j => p[i][1] < p[j][1]

\* What they read.
Texts(s, p, n) == [j \in 1 .. n |-> SubSeq(s, p[j][1], p[j][2])]

\* A word begins and ends where its neighbours are no word characters.
LEMMA WordIs ==
  ASSUME NEW s \in Seq(Chars)
  PROVE  /\ \A w \in Words(s) :
              /\ w = <<w[1], w[2]>> /\ w[1] \in 1 .. Len(s) /\ w[2] \in 1 .. Len(s) /\ w[1] <= w[2]
              /\ \A i \in w[1] .. w[2] : isValidCmdChar(s[i])
              /\ w[1] = 1 \/ ~isValidCmdChar(s[w[1] - 1])
              /\ w[2] = Len(s) \/ ~isValidCmdChar(s[w[2] + 1])
         /\ \A a, b \in 1 .. Len(s) :
              /\ a <= b /\ \A i \in a .. b : isValidCmdChar(s[i])
              /\ a = 1 \/ ~isValidCmdChar(s[a - 1])
              /\ b = Len(s) \/ ~isValidCmdChar(s[b + 1])
              => <<a, b>> \in Words(s)
<1>1. Len(s) \in Nat /\ DOMAIN s = 1 .. Len(s)
  BY LenProperties
<1>2. \A a \in 1 .. Len(s) : ~isValidCmdChar(At(s, a - 2)) <=> a = 1 \/ ~isValidCmdChar(s[a - 1])
  <2> SUFFICES ASSUME NEW a \in 1 .. Len(s)
               PROVE  ~isValidCmdChar(At(s, a - 2)) <=> a = 1 \/ ~isValidCmdChar(s[a - 1])
    OBVIOUS
  <2>1. CASE a = 1
    <3>1. At(s, a - 2) = NUL /\ ~isValidCmdChar(NUL)
      BY <2>1, AtIs
    <3> QED  BY <2>1, <3>1
  <2>2. CASE a # 1
    <3>1. a - 2 \in Int /\ 0 <= a - 2 /\ a - 2 < Len(s) /\ (a - 2) + 1 = a - 1
      BY <1>1, <2>2
    <3>2. At(s, a - 2) = s[a - 1]
      BY <3>1, AtIs
    <3> QED  BY <2>2, <3>2
  <2> QED  BY <2>1, <2>2
<1>3. \A b \in 1 .. Len(s) : ~isValidCmdChar(At(s, b)) <=> b = Len(s) \/ ~isValidCmdChar(s[b + 1])
  <2> SUFFICES ASSUME NEW b \in 1 .. Len(s)
               PROVE  ~isValidCmdChar(At(s, b)) <=> b = Len(s) \/ ~isValidCmdChar(s[b + 1])
    OBVIOUS
  <2>1. CASE b = Len(s)
    <3>1. At(s, b) = NUL /\ ~isValidCmdChar(NUL)
      BY <1>1, <2>1, AtIs
    <3> QED  BY <2>1, <3>1
  <2>2. CASE b # Len(s)
    <3>1. b \in Int /\ 0 <= b /\ b < Len(s)
      <4> DEFINE L == Len(s)
      <4>1. L \in Nat /\ b \in 1 .. L /\ b # L
        BY <1>1, <2>2
      <4> HIDE DEF L
      <4>2. b \in Int /\ 0 <= b /\ b < L
        BY <4>1
      <4> QED  BY <4>2 DEF L
    <3>2. At(s, b) = s[b + 1]
      BY <3>1, AtIs
    <3> QED  BY <2>2, <3>2
  <2> QED  BY <2>1, <2>2
<1>4. \A w : w \in Words(s) <=>
        /\ w \in (1 .. Len(s)) \X (1 .. Len(s))
        /\ w[1] <= w[2] /\ \A i \in w[1] .. w[2] : isValidCmdChar(s[i])
        /\ ~isValidCmdChar(At(s, w[1] - 2))
        /\ ~isValidCmdChar(At(s, w[2]))
  BY <1>1, Zenon DEF Words
<1>5. ASSUME NEW w \in Words(s)
      PROVE  /\ w = <<w[1], w[2]>> /\ w[1] \in 1 .. Len(s) /\ w[2] \in 1 .. Len(s) /\ w[1] <= w[2]
             /\ \A i \in w[1] .. w[2] : isValidCmdChar(s[i])
             /\ w[1] = 1 \/ ~isValidCmdChar(s[w[1] - 1])
             /\ w[2] = Len(s) \/ ~isValidCmdChar(s[w[2] + 1])
  <2>1. w \in (1 .. Len(s)) \X (1 .. Len(s))
    BY <1>4
  <2>2. w = <<w[1], w[2]>> /\ w[1] \in 1 .. Len(s) /\ w[2] \in 1 .. Len(s)
    BY <2>1
  <2> QED  BY <1>2, <1>3, <1>4, <2>2
<1>6. ASSUME NEW a \in 1 .. Len(s), NEW b \in 1 .. Len(s),
             a <= b, \A i \in a .. b : isValidCmdChar(s[i]),
             a = 1 \/ ~isValidCmdChar(s[a - 1]),
             b = Len(s) \/ ~isValidCmdChar(s[b + 1])
      PROVE  <<a, b>> \in Words(s)
  <2> DEFINE w == <<a, b>>
  <2>1. w \in (1 .. Len(s)) \X (1 .. Len(s)) /\ w[1] = a /\ w[2] = b
    OBVIOUS
  <2> HIDE DEF w
  <2>2. w \in Words(s)
    BY <1>2, <1>3, <1>4, <1>6, <2>1
  <2> QED  BY <2>2 DEF w
<1> QED  BY <1>5, <1>6

\* Words are pairs of positions.
LEMMA WordPairs ==
  ASSUME NEW s \in Seq(Chars)
  PROVE  \A w \in Words(s) : w = <<w[1], w[2]>> /\ w[1] \in Int /\ w[2] \in Int
<1> SUFFICES ASSUME NEW w \in Words(s)
             PROVE  w = <<w[1], w[2]>> /\ w[1] \in Int /\ w[2] \in Int
  OBVIOUS
<1>1. w = <<w[1], w[2]>> /\ w[1] \in 1 .. Len(s) /\ w[2] \in 1 .. Len(s)
  BY WordIs
<1> QED  BY <1>1

\* No word begins at a character that cannot be part of one.
LEMMA NoWordAt ==
  ASSUME NEW s \in Seq(Chars), NEW i \in Nat, i + 1 <= Len(s), ~isValidCmdChar(s[i + 1]), NEW stop \in Int
  PROVE  WordsFrom(s, i, stop) = WordsFrom(s, i + 1, stop)
<1>1. ASSUME NEW w \in Words(s), i < w[1] PROVE i + 1 < w[1]
  <2>1. w[1] \in Int /\ w[2] \in Int /\ w[1] <= w[2] /\ \A k \in w[1] .. w[2] : isValidCmdChar(s[k])
    BY WordIs
  <2>2. isValidCmdChar(s[w[1]])
    BY <2>1
  <2>3. w[1] # i + 1
    BY <2>2
  <2> QED  BY <1>1, <2>1, <2>3
<1>2. \A w \in Words(s) : i + 1 < w[1] => i < w[1]
  BY WordIs
<1> QED  BY <1>1, <1>2 DEF WordsFrom

\* A run of word characters between others is a word, and the only one to begin there.
LEMMA OneWord ==
  ASSUME NEW s \in Seq(Chars), NEW a \in Nat, NEW i \in Nat, a < i, i <= Len(s),
         \A j \in a + 1 .. i : isValidCmdChar(s[j]),
         a = 0 \/ ~isValidCmdChar(s[a]),
         i = Len(s) \/ ~isValidCmdChar(s[i + 1])
  PROVE  WordsFrom(s, a, i) = {<<a + 1, i>>}
<1>0. Len(s) \in Nat
  BY LenProperties
<1>1. <<a + 1, i>> \in Words(s)
  <2>1. a + 1 \in 1 .. Len(s) /\ i \in 1 .. Len(s) /\ a + 1 <= i /\ (a + 1) - 1 = a
    BY <1>0
  <2>2. a + 1 = 1 \/ ~isValidCmdChar(s[(a + 1) - 1])
    BY <2>1
  <2> QED  BY <2>1, <2>2, WordIs
<1>2. ASSUME NEW w \in Words(s), a < w[1], w[1] <= i PROVE w = <<a + 1, i>>
  <2>1. /\ w = <<w[1], w[2]>> /\ w[1] \in 1 .. Len(s) /\ w[2] \in 1 .. Len(s) /\ w[1] <= w[2]
        /\ \A k \in w[1] .. w[2] : isValidCmdChar(s[k])
        /\ w[1] = 1 \/ ~isValidCmdChar(s[w[1] - 1])
        /\ w[2] = Len(s) \/ ~isValidCmdChar(s[w[2] + 1])
    BY WordIs
  <2> DEFINE u == w[1]
             v == w[2]
  <2> HIDE DEF u, v
  <2>2. /\ u \in 1 .. Len(s) /\ v \in 1 .. Len(s) /\ u <= v /\ a < u /\ u <= i
        /\ \A k \in u .. v : isValidCmdChar(s[k])
        /\ u = 1 \/ ~isValidCmdChar(s[u - 1])
        /\ v = Len(s) \/ ~isValidCmdChar(s[v + 1])
    BY <1>2, <2>1 DEF u, v
  <2>3. u = a + 1
    <3>1. CASE a + 1 < u
      <4>1. u - 1 \in a + 1 .. i /\ u # 1
        BY <2>2, <3>1
      <4> QED  BY <2>2, <4>1
    <3> QED  BY <2>2, <3>1
  <2>4. v = i
    <3>1. CASE v < i
      <4>1. v + 1 \in a + 1 .. i /\ v # Len(s)
        BY <1>0, <2>2, <3>1
      <4> QED  BY <2>2, <4>1
    <3>2. CASE i < v
      <4>1. i + 1 \in u .. v /\ i # Len(s)
        BY <1>0, <2>2, <3>2
      <4> QED  BY <2>2, <4>1
    <3> QED  BY <2>2, <3>1, <3>2
  <2> QED  BY <2>1, <2>3, <2>4 DEF u, v
<1>3. a < <<a + 1, i>>[1] /\ <<a + 1, i>>[1] <= i
  OBVIOUS
<1> QED  BY <1>1, <1>2, <1>3 DEF WordsFrom

\* What begins behind lo begins before or behind a position between.
LEMMA WordsSplit ==
  ASSUME NEW s \in Seq(Chars), NEW lo \in Int, NEW mid \in Int, NEW hi \in Int, lo <= mid, mid <= hi
  PROVE  WordsFrom(s, lo, hi) = WordsFrom(s, lo, mid) \cup WordsFrom(s, mid, hi)
<1>1. \A w \in Words(s) : w[1] \in Int
  BY WordIs
<1> QED  BY <1>1 DEF WordsFrom

\* An empty list, and what a list with one word more in front reads.
LEMMA InOrderNone == \A s : InOrder(<<>>, 0, {}) /\ Texts(s, <<>>, 0) = <<>>
BY DEF InOrder, Texts

LEMMA InOrderMore ==
  ASSUME NEW s \in Seq(Chars), NEW p, NEW n, NEW W, InOrder(p, n, W), NEW x \in Words(s),
         \A w \in W : w \in Words(s) /\ x[1] < w[1]
  PROVE  \E q : /\ InOrder(q, n + 1, {x} \cup W)
                /\ Texts(s, q, n + 1) = <<SubSeq(s, x[1], x[2])>> \o Texts(s, p, n)
<1> DEFINE q == [j \in 1 .. n + 1 |-> IF j = 1 THEN x ELSE p[j - 1]]
<1>1. /\ n \in Nat /\ p \in [1 .. n -> W]
      /\ \A w \in W : \E j \in 1 .. n : p[j] = w
      /\ \A i, j \in 1 .. n : i < j => p[i][1] < p[j][1]
  BY DEF InOrder
<1>2. q[1] = x /\ \A j \in 1 .. n : j + 1 \in 1 .. n + 1 /\ q[j + 1] = p[j] /\ p[j] \in W
  BY <1>1
<1>3. \A k \in 1 .. n + 1 : k = 1 \/ (k - 1 \in 1 .. n /\ k = (k - 1) + 1)
  BY <1>1
<1>4. n + 1 \in Nat /\ q \in [1 .. n + 1 -> {x} \cup W]
  BY <1>1
<1> HIDE DEF q
<1>5. ASSUME NEW w \in {x} \cup W PROVE \E j \in 1 .. n + 1 : q[j] = w
  <2>1. CASE w = x
    <3>1. 1 \in 1 .. n + 1
      BY <1>1
    <3> QED  BY <1>2, <2>1, <3>1
  <2>2. CASE w \in W
    <3>1. PICK j \in 1 .. n : p[j] = w
      BY <1>1, <2>2
    <3> QED  BY <1>2, <3>1
  <2> QED  BY <2>1, <2>2
<1>6. ASSUME NEW i \in 1 .. n + 1, NEW j \in 1 .. n + 1, i < j PROVE q[i][1] < q[j][1]
  <2>1. j # 1 /\ j - 1 \in 1 .. n /\ q[j] = p[j - 1] /\ p[j - 1] \in W
    BY <1>2, <1>3, <1>6
  <2>2. CASE i = 1
    BY <1>2, <2>1, <2>2
  <2>3. CASE i # 1
    <3>1. i - 1 \in 1 .. n /\ q[i] = p[i - 1] /\ i - 1 < j - 1
      BY <1>2, <1>3, <1>6, <2>3
    <3> QED  BY <1>1, <2>1, <3>1
  <2> QED  BY <2>2, <2>3
<1>7. InOrder(q, n + 1, {x} \cup W)
  BY <1>4, <1>5, <1>6 DEF InOrder
<1>8. Texts(s, q, n + 1) = <<SubSeq(s, x[1], x[2])>> \o Texts(s, p, n)
  <2> DEFINE text(w) == SubSeq(s, w[1], w[2])
             t == Texts(s, p, n)
             u == Texts(s, q, n + 1)
             S == {text(x)} \cup {text(p[j]) : j \in 1 .. n}
  <2>1. t \in Seq(S) /\ Len(t) = n /\ \A j \in 1 .. n : t[j] = text(p[j])
    <3>1. t = [j \in 1 .. n |-> text(p[j])]
      BY DEF Texts
    <3>2. \A j \in 1 .. n : text(p[j]) \in S
      OBVIOUS
    <3> HIDE DEF t, text, S
    <3>3. t \in [1 .. n -> S]
      BY <3>1, <3>2
    <3>4. \A j \in 1 .. n : t[j] = text(p[j])
      BY <3>1
    <3>5. t \in Seq(S) /\ Len(t) = n
      BY <1>1, <3>3
    <3> QED  BY <3>4, <3>5
  <2>2. <<text(x)>> \in Seq(S) /\ Len(<<text(x)>>) = 1 /\ <<text(x)>>[1] = text(x)
    <3> HIDE DEF text
    <3> QED  OBVIOUS
  <2>3. u = [j \in 1 .. n + 1 |-> text(q[j])]
    BY DEF Texts
  <2> HIDE DEF t, u, S
  <2> DEFINE v == <<text(x)>> \o t
  <2>4. /\ v \in Seq(S) /\ Len(v) = 1 + n
        /\ \A j \in 1 .. 1 + n : v[j] = IF j <= 1 THEN <<text(x)>>[j] ELSE t[j - 1]
    BY <2>1, <2>2, ConcatProperties
  <2> HIDE DEF v
  <2>5. v = [j \in 1 .. n + 1 |-> v[j]]
    BY <1>1, <2>4
  <2>6. ASSUME NEW j \in 1 .. n + 1 PROVE v[j] = text(q[j])
    <3> HIDE DEF text
    <3>1. CASE j = 1
      BY <1>1, <1>2, <2>2, <2>4, <3>1
    <3>2. CASE j # 1
      <4>1. j - 1 \in 1 .. n /\ q[j] = p[j - 1] /\ ~(j <= 1) /\ j \in 1 .. 1 + n
        BY <1>1, <1>2, <1>3, <3>2
      <4>2. v[j] = t[j - 1] /\ t[j - 1] = text(p[j - 1])
        BY <2>1, <2>4, <4>1
      <4> QED  BY <4>1, <4>2
    <3> QED  BY <3>1, <3>2
  <2>7. v = u
    <3> HIDE DEF text
    <3> QED  BY <2>3, <2>5, <2>6
  <2> QED  BY <2>7 DEF v, u, t
<1> QED  BY <1>7, <1>8

--------------------------------------------------------------------------------
(***************************************************************************)
(* What the two scanners find.                                             *)
(***************************************************************************)

\* From position i on, the words that begin behind lo have been counted and
\* copied, up to a character that is neither part of a word nor a space.
Found(s, i, lo, count, scan) ==
  \E n, p, stop :
    /\ InOrder(p, n, WordsFrom(s, lo, stop))
    /\ count = n
    /\ scan = [args |-> Texts(s, p, n), stop |-> stop]
    /\ stop \in i .. Len(s)
    /\ \A j \in i + 1 .. stop : isValidCmdChar(s[j]) \/ isspace(s[j])
    /\ ~isValidCmdChar(At(s, stop)) /\ ~isspace(At(s, stop))

\* The word from a to i, with nothing that belongs to it before or behind.
WordAt(s, a, i) ==
  /\ a \in Nat /\ a < i
  /\ \A j \in a + 1 .. i : isValidCmdChar(s[j])
  /\ a = 0 \/ ~isValidCmdChar(s[a])

\* Neighbours of a position, in the string and in C.
LEMMA AtNext ==
  ASSUME NEW s \in Seq(Chars), NEW i \in 0 .. Len(s)
  PROVE  /\ Len(s) \in Nat
         /\ i = Len(s) \/ (i + 1 \in 1 .. Len(s) /\ i + 1 \in 0 .. Len(s) /\ At(s, i) = s[i + 1])
         /\ isValidCmdChar(At(s, i)) \/ isspace(At(s, i)) => i # Len(s)
         /\ ~(isValidCmdChar(At(s, i)) /\ isspace(At(s, i)))
<1> DEFINE L == Len(s)
<1>1. L \in Nat
  BY LenProperties
<1>2. CASE i = L
  <2>1. At(s, i) = NUL /\ ~isValidCmdChar(NUL) /\ ~isspace(NUL)
    BY <1>1, <1>2, AtIs
  <2> QED  BY <1>1, <1>2, <2>1
<1>3. CASE i # L
  <2>0. i \in 0 .. L
    OBVIOUS
  <2> HIDE DEF L
  <2>1. i \in Int /\ 0 <= i /\ i < L /\ i + 1 \in 1 .. L /\ i + 1 \in 0 .. L
    BY <1>1, <1>3, <2>0
  <2>2. At(s, i) = s[i + 1]
    BY <2>1, AtIs DEF L
  <2> QED  BY <1>1, <1>3, <2>1, <2>2 DEF L, isValidCmdChar, isspace
<1> QED  BY <1>2, <1>3

LEMMA FoundNone ==
  ASSUME NEW s \in Seq(Chars), NEW i \in 0 .. Len(s),
         ~isValidCmdChar(At(s, i)), ~isspace(At(s, i))
  PROVE  Found(s, i, i, 0, [args |-> <<>>, stop |-> i])
<1>1. WordsFrom(s, i, i) = {}
  <2>1. \A w \in Words(s) : w[1] \in Int
    BY WordIs
  <2> QED  BY <2>1 DEF WordsFrom
<1>2. i \in i .. Len(s) /\ i + 1 .. i = {}
  BY AtNext
<1>3. InOrder(<<>>, 0, WordsFrom(s, i, i)) /\ Texts(s, <<>>, 0) = <<>>
  BY <1>1, InOrderNone
<1> QED  BY <1>2, <1>3 DEF Found

LEMMA FoundLast ==
  ASSUME NEW s \in Seq(Chars), NEW i \in 0 .. Len(s), NEW a, WordAt(s, a, i),
         ~isValidCmdChar(At(s, i)), ~isspace(At(s, i))
  PROVE  Found(s, i, a, 1, [args |-> <<SubSeq(s, a + 1, i)>>, stop |-> i])
<1> DEFINE x == <<a + 1, i>>
<1>1. WordsFrom(s, a, i) = {x}
  <2>1. i \in Nat /\ i <= Len(s) /\ (i = Len(s) \/ ~isValidCmdChar(s[i + 1]))
    BY AtNext
  <2> QED  BY <2>1, OneWord DEF WordAt
<1>2. i \in i .. Len(s) /\ i + 1 .. i = {}
  BY AtNext
<1>3. x \in Words(s) /\ x[1] = a + 1 /\ x[2] = i
  BY <1>1 DEF WordsFrom
<1> HIDE DEF x
<1>4. PICK q : /\ InOrder(q, 0 + 1, {x} \cup {})
               /\ Texts(s, q, 0 + 1) = <<SubSeq(s, x[1], x[2])>> \o Texts(s, <<>>, 0)
  BY <1>3, InOrderNone, InOrderMore
<1>5. Texts(s, q, 1) = <<SubSeq(s, a + 1, i)>>
  <2>1. Texts(s, q, 1) = <<SubSeq(s, x[1], x[2])>> \o <<>>
    BY <1>4, InOrderNone
  <2> DEFINE text == SubSeq(s, x[1], x[2])
  <2>2. <<text>> \o <<>> = <<text>>
    <3> HIDE DEF text
    <3>1. <<text>> \in Seq({text})
      OBVIOUS
    <3> QED  BY <3>1, ConcatEmptySeq
  <2> QED  BY <1>3, <2>1, <2>2
<1>6. InOrder(q, 1, WordsFrom(s, a, i))
  BY <1>1, <1>4
<1> QED  BY <1>2, <1>5, <1>6 DEF Found

LEMMA FoundFurther ==
  ASSUME NEW s \in Seq(Chars), NEW i \in 0 .. Len(s), isValidCmdChar(At(s, i)),
         NEW lo, NEW count, NEW scan, Found(s, i + 1, lo, count, scan)
  PROVE  Found(s, i, lo, count, scan)
<1>1. PICK n, p, stop :
        /\ InOrder(p, n, WordsFrom(s, lo, stop))
        /\ count = n
        /\ scan = [args |-> Texts(s, p, n), stop |-> stop]
        /\ stop \in i + 1 .. Len(s)
        /\ \A j \in (i + 1) + 1 .. stop : isValidCmdChar(s[j]) \/ isspace(s[j])
        /\ ~isValidCmdChar(At(s, stop)) /\ ~isspace(At(s, stop))
  BY DEF Found
<1>2. stop \in i .. Len(s) /\ isValidCmdChar(s[i + 1])
  BY <1>1, AtNext
<1>3. \A j \in i + 1 .. stop : isValidCmdChar(s[j]) \/ isspace(s[j])
  <2>1. \A j \in i + 1 .. stop : j = i + 1 \/ j \in (i + 1) + 1 .. stop
    OBVIOUS
  <2> QED  BY <1>1, <1>2, <2>1
<1> QED  BY <1>1, <1>2, <1>3 DEF Found

LEMMA FoundSpace ==
  ASSUME NEW s \in Seq(Chars), NEW i \in 0 .. Len(s), isspace(At(s, i)),
         NEW count, NEW scan, Found(s, i + 1, i + 1, count, scan)
  PROVE  /\ Found(s, i, i, 0 + count, [scan EXCEPT !.args = <<>> \o @])
         /\ \A a : WordAt(s, a, i) =>
              Found(s, i, a, 1 + count, [scan EXCEPT !.args = <<SubSeq(s, a + 1, i)>> \o @])
<1>1. PICK n, p, stop :
        /\ InOrder(p, n, WordsFrom(s, i + 1, stop))
        /\ count = n
        /\ scan = [args |-> Texts(s, p, n), stop |-> stop]
        /\ stop \in i + 1 .. Len(s)
        /\ \A j \in (i + 1) + 1 .. stop : isValidCmdChar(s[j]) \/ isspace(s[j])
        /\ ~isValidCmdChar(At(s, stop)) /\ ~isspace(At(s, stop))
  BY DEF Found
<1>2. /\ stop \in i .. Len(s) /\ isspace(s[i + 1]) /\ ~isValidCmdChar(s[i + 1])
      /\ i \in Nat /\ i + 1 <= Len(s) /\ i <= Len(s) /\ stop \in Int /\ n \in Nat
  BY <1>1, AtNext DEF InOrder
<1>3. \A j \in i + 1 .. stop : isValidCmdChar(s[j]) \/ isspace(s[j])
  <2>1. \A j \in i + 1 .. stop : j = i + 1 \/ j \in (i + 1) + 1 .. stop
    OBVIOUS
  <2> QED  BY <1>1, <1>2, <2>1
<1>4. WordsFrom(s, i, stop) = WordsFrom(s, i + 1, stop)
  BY <1>2, NoWordAt
<1>5. ASSUME NEW x PROVE [scan EXCEPT !.args = x \o @] = [args |-> x \o Texts(s, p, n), stop |-> stop]
  <2> DEFINE t == Texts(s, p, n)
             r == [scan EXCEPT !.args = x \o @]
  <2>1. scan = [args |-> t, stop |-> stop]
    BY <1>1
  <2> HIDE DEF t
  <2>2. scan.args = t /\ scan.stop = stop /\ DOMAIN scan = {"args", "stop"}
    BY <2>1
  <2> DEFINE y == x \o t
  <2>3. r = [[args |-> t, stop |-> stop] EXCEPT !.args = y]
    BY <2>1, <2>2, Zenon
  <2> HIDE DEF y
  <2>4. [[args |-> t, stop |-> stop] EXCEPT !.args = y] = [args |-> y, stop |-> stop]
    OBVIOUS
  <2> QED  BY <2>3, <2>4, Zenon DEF t, y
<1>6. Found(s, i, i, 0 + count, [scan EXCEPT !.args = <<>> \o @])
  <2>1. <<>> \o Texts(s, p, n) = Texts(s, p, n)
    <3> DEFINE t == Texts(s, p, n)
               S == {SubSeq(s, p[j][1], p[j][2]) : j \in 1 .. n}
    <3>1. t \in [1 .. n -> S]
      BY DEF Texts
    <3> HIDE DEF t, S
    <3>2. t \in Seq(S)
      BY <1>2, <3>1
    <3>3. <<>> \o t = t
      BY <3>2, ConcatEmptySeq
    <3> QED  BY <3>3 DEF t
  <2>2. [scan EXCEPT !.args = <<>> \o @] = [args |-> Texts(s, p, n), stop |-> stop]
    BY <1>5, <2>1
  <2>3. 0 + count = n
    BY <1>1, <1>2
  <2> DEFINE r == [scan EXCEPT !.args = <<>> \o @]
             m == 0 + count
  <2> HIDE DEF r, m
  <2>4. r = [args |-> Texts(s, p, n), stop |-> stop] /\ m = n
    BY <2>2, <2>3 DEF r, m
  <2>5. Found(s, i, i, m, r)
    BY <1>1, <1>2, <1>3, <1>4, <2>4 DEF Found
  <2> QED  BY <2>5 DEF m, r
<1>7. ASSUME NEW a, WordAt(s, a, i)
      PROVE  Found(s, i, a, 1 + count, [scan EXCEPT !.args = <<SubSeq(s, a + 1, i)>> \o @])
  <2> DEFINE x == <<a + 1, i>>
             W == WordsFrom(s, i + 1, stop)
  <2>1. a \in Nat /\ a < i /\ WordsFrom(s, a, i) = {x}
    BY <1>2, <1>7, OneWord DEF WordAt
  <2>2. x \in Words(s) /\ x[1] = a + 1 /\ x[2] = i
    BY <2>1 DEF WordsFrom
  <2>3. WordsFrom(s, a, stop) = {x} \cup W
    <3>1. WordsFrom(s, a, stop) = WordsFrom(s, a, i) \cup WordsFrom(s, i, stop)
      BY <1>1, <1>2, <2>1, WordsSplit
    <3> QED  BY <1>4, <2>1, <3>1
  <2> HIDE DEF x
  <2>4. \A w \in W : w \in Words(s) /\ x[1] < w[1]
    <3>1. \A w \in W : w \in Words(s) /\ i + 1 < w[1] /\ w[1] \in Int
      BY WordIs DEF WordsFrom
    <3> QED  BY <1>2, <2>1, <2>2, <3>1
  <2> HIDE DEF W
  <2>5. InOrder(p, n, W)
    BY <1>1 DEF W
  <2>6. PICK q : /\ InOrder(q, n + 1, {x} \cup W)
                 /\ Texts(s, q, n + 1) = <<SubSeq(s, x[1], x[2])>> \o Texts(s, p, n)
    BY <2>2, <2>4, <2>5, InOrderMore
  <2> DEFINE r == [scan EXCEPT !.args = <<SubSeq(s, a + 1, i)>> \o @]
             m == 1 + count
  <2>7. r = [args |-> Texts(s, q, n + 1), stop |-> stop]
    BY <1>5, <2>2, <2>6
  <2>8. m = n + 1
    BY <1>1, <1>2
  <2>9. InOrder(q, n + 1, WordsFrom(s, a, stop))
    BY <2>3, <2>6
  <2> HIDE DEF r, m
  <2>10. Found(s, i, a, m, r)
    BY <1>1, <1>2, <1>3, <2>7, <2>8, <2>9 DEF Found
  <2> QED  BY <2>10 DEF r, m
<1> QED  BY <1>6, <1>7

\* Both scanners find the same words, those that begin behind the position they
\* start at, and the second one stops at the first character that is neither
\* part of a word nor a space.
THEOREM ScannersAgree ==
  ASSUME NEW s \in Seq(Chars), NEW start \in 0 .. Len(s),
         start = 0 \/ ~isValidCmdChar(s[start])
  PROVE  Found(s, start, start, getValidSeqCount(s, start), ScanArguments(s, start))
<1> DEFINE L == Len(s)
<1>1. L \in Nat /\ start \in 0 .. L
  BY LenProperties
<1>2. PICK g : /\ getValidSeqCount(s, start) = g[start][FALSE]
               /\ \A i \in start .. Len(s), inSeq \in BOOLEAN :
                    g[i][inSeq] =
                      IF isValidCmdChar(At(s, i)) THEN g[i + 1][TRUE]
                      ELSE (IF inSeq THEN 1 ELSE 0) + (IF isspace(At(s, i)) THEN g[i + 1][FALSE] ELSE 0)
  BY CountStep
<1>3. PICK f : /\ ScanArguments(s, start) = f[start][-1]
               /\ \A i \in start .. Len(s), argStart \in -1 .. Len(s) :
                    f[i][argStart] =
                      LET copied == IF argStart >= 0 THEN <<SubSeq(s, argStart + 1, i)>> ELSE <<>>
                          rest   == f[i + 1][-1]
                      IN  IF isValidCmdChar(At(s, i))
                            THEN f[i + 1][IF argStart = -1 THEN i ELSE argStart]
                          ELSE IF isspace(At(s, i)) THEN [rest EXCEPT !.args = copied \o @]
                          ELSE [args |-> copied, stop |-> i]
  BY ScanStep
<1> DEFINE Claim(i) ==
             /\ i = 0 \/ ~isValidCmdChar(s[i]) => Found(s, i, i, g[i][FALSE], f[i][-1])
             /\ \A a : WordAt(s, a, i) => Found(s, i, a, g[i][TRUE], f[i][a])
<1>4. ASSUME NEW i \in start .. L, i < L => Claim(i + 1) PROVE Claim(i)
  <2>0. i \in 0 .. L /\ i \in Int /\ i + 1 \in Int /\ FALSE \in BOOLEAN /\ TRUE \in BOOLEAN
    BY <1>1
  <2>1. /\ isValidCmdChar(At(s, i)) \/ isspace(At(s, i)) =>
             i < L /\ Claim(i + 1) /\ At(s, i) = s[i + 1] /\ i + 1 # 0
        /\ ~(isValidCmdChar(At(s, i)) /\ isspace(At(s, i)))
    <3>1. /\ i = L \/ (i + 1 \in 1 .. L /\ At(s, i) = s[i + 1])
          /\ isValidCmdChar(At(s, i)) \/ isspace(At(s, i)) => i # L
          /\ ~(isValidCmdChar(At(s, i)) /\ isspace(At(s, i)))
      BY <2>0, AtNext
    <3> HIDE DEF L, Claim
    <3>2. i # L => i < L /\ i + 1 # 0
      BY <1>1, <2>0
    <3> QED  BY <1>4, <3>1, <3>2
  <2> HIDE DEF Claim
  <2>2. ASSUME NEW a, WordAt(s, a, i)
        PROVE  a \in -1 .. L /\ a >= 0 /\ a # -1
    <3> HIDE DEF L
    <3> QED  BY <1>1, <2>0, <2>2 DEF WordAt
  <2>3. -1 \in -1 .. L /\ ~(-1 >= 0)
    <3> HIDE DEF L
    <3> QED  BY <1>1
  <2>4. CASE isValidCmdChar(At(s, i))
    <3>1. g[i][FALSE] = g[i + 1][TRUE] /\ g[i][TRUE] = g[i + 1][TRUE]
      BY <1>2, <2>0, <2>4
    <3>2. f[i][-1] = f[i + 1][i]
      BY <1>3, <2>3, <2>4
    <3>3. ASSUME NEW a, WordAt(s, a, i) PROVE f[i][a] = f[i + 1][a]
      BY <1>3, <2>2, <2>4, <3>3
    <3>4. isValidCmdChar(s[i + 1]) /\ Claim(i + 1)
      BY <2>1, <2>4
    <3>5. ASSUME i = 0 \/ ~isValidCmdChar(s[i]) PROVE WordAt(s, i, i + 1)
      <4>1. \A j \in i + 1 .. i + 1 : j = i + 1
        BY <2>0
      <4>2. i \in Nat /\ i < i + 1
        BY <2>0
      <4> QED  BY <3>4, <3>5, <4>1, <4>2 DEF WordAt
    <3>6. ASSUME NEW a, WordAt(s, a, i) PROVE WordAt(s, a, i + 1)
      <4>1. \A j \in a + 1 .. i + 1 : j = i + 1 \/ j \in a + 1 .. i
        BY <2>0, <3>6 DEF WordAt
      <4>2. a \in Nat /\ a < i + 1
        BY <2>0, <3>6 DEF WordAt
      <4> QED  BY <3>4, <3>6, <4>1, <4>2 DEF WordAt
    <3>7. \A a : WordAt(s, a, i + 1) => Found(s, i + 1, a, g[i + 1][TRUE], f[i + 1][a])
      BY <3>4 DEF Claim
    <3>8. \A a : WordAt(s, a, i + 1) => Found(s, i, a, g[i + 1][TRUE], f[i + 1][a])
      BY <2>0, <2>4, <3>7, FoundFurther
    <3>9. i = 0 \/ ~isValidCmdChar(s[i]) => Found(s, i, i, g[i][FALSE], f[i][-1])
      BY <3>1, <3>2, <3>5, <3>8
    <3>10. ASSUME NEW a, WordAt(s, a, i) PROVE Found(s, i, a, g[i][TRUE], f[i][a])
      <4>1. Found(s, i, a, g[i + 1][TRUE], f[i + 1][a])
        BY <3>6, <3>8, <3>10
      <4> QED  BY <3>1, <3>3, <3>10, <4>1
    <3> QED  BY <3>9, <3>10 DEF Claim
  <2>5. CASE isspace(At(s, i))
    <3> DEFINE rest == f[i + 1][-1]
               count == g[i + 1][FALSE]
    <3>1. g[i][FALSE] = 0 + count /\ g[i][TRUE] = 1 + count
      BY <1>2, <2>0, <2>1, <2>5
    <3>2. f[i][-1] = [rest EXCEPT !.args = <<>> \o @]
      BY <1>3, <2>1, <2>3, <2>5, Zenon
    <3>3. ASSUME NEW a, WordAt(s, a, i)
          PROVE  f[i][a] = [rest EXCEPT !.args = <<SubSeq(s, a + 1, i)>> \o @]
      BY <1>3, <2>1, <2>2, <2>5, <3>3, Zenon
    <3>4. ~isValidCmdChar(s[i + 1]) /\ Claim(i + 1)
      BY <2>1, <2>5
    <3>5. Found(s, i + 1, i + 1, count, rest)
      BY <3>4 DEF Claim
    <3> HIDE DEF rest, count
    <3>6. /\ Found(s, i, i, 0 + count, [rest EXCEPT !.args = <<>> \o @])
          /\ \A a : WordAt(s, a, i) =>
               Found(s, i, a, 1 + count, [rest EXCEPT !.args = <<SubSeq(s, a + 1, i)>> \o @])
      BY <2>0, <2>5, <3>5, FoundSpace
    <3>7. Found(s, i, i, g[i][FALSE], f[i][-1])
      BY <3>1, <3>2, <3>6, Zenon
    <3>8. ASSUME NEW a, WordAt(s, a, i) PROVE Found(s, i, a, g[i][TRUE], f[i][a])
      <4>1. Found(s, i, a, 1 + count, [rest EXCEPT !.args = <<SubSeq(s, a + 1, i)>> \o @])
        BY <3>6, <3>8, Zenon
      <4>2. f[i][a] = [rest EXCEPT !.args = <<SubSeq(s, a + 1, i)>> \o @] /\ g[i][TRUE] = 1 + count
        BY <3>1, <3>3, <3>8, Zenon
      <4> QED  BY <4>1, <4>2, Zenon
    <3> QED  BY <3>7, <3>8 DEF Claim
  <2>6. CASE ~isValidCmdChar(At(s, i)) /\ ~isspace(At(s, i))
    <3>1. g[i][FALSE] = 0 /\ g[i][TRUE] = 1
      <4>1. \A b \in BOOLEAN : g[i][b] = (IF b THEN 1 ELSE 0) + 0
        BY <1>2, <2>6, Zenon
      <4>2. g[i][FALSE] = 0 + 0 /\ g[i][TRUE] = 1 + 0
        BY <4>1
      <4> QED  BY <4>2
    <3>2. f[i][-1] = [args |-> <<>>, stop |-> i]
      BY <1>3, <2>3, <2>6, Zenon
    <3>3. ASSUME NEW a, WordAt(s, a, i)
          PROVE  f[i][a] = [args |-> <<SubSeq(s, a + 1, i)>>, stop |-> i]
      BY <1>3, <2>2, <2>6, <3>3, Zenon
    <3>4. Found(s, i, i, g[i][FALSE], f[i][-1])
      BY <2>0, <2>6, <3>1, <3>2, FoundNone
    <3>5. ASSUME NEW a, WordAt(s, a, i) PROVE Found(s, i, a, g[i][TRUE], f[i][a])
      <4>1. Found(s, i, a, 1, [args |-> <<SubSeq(s, a + 1, i)>>, stop |-> i])
        BY <2>0, <2>6, <3>5, FoundLast
      <4> QED  BY <3>1, <3>3, <3>5, <4>1, Zenon
    <3> QED  BY <3>4, <3>5 DEF Claim
  <2> QED  BY <2>4, <2>5, <2>6
<1> HIDE DEF Claim
<1> DEFINE T == {n \in Nat : n <= L - start => Claim(L - n)}
<1> HIDE DEF L
<1>5. 0 \in T
  <2>1. L - 0 = L /\ L \in start .. L /\ ~(L < L)
    BY <1>1
  <2> QED  BY <1>1, <1>4, <2>1
<1>6. ASSUME NEW n \in Nat, n \in T PROVE n + 1 \in T
  <2> SUFFICES ASSUME n + 1 <= L - start PROVE Claim(L - (n + 1))
    OBVIOUS
  <2>1. n <= L - start /\ L - (n + 1) \in start .. L /\ (L - (n + 1)) + 1 = L - n
    BY <1>1
  <2>2. Claim(L - n)
    BY <1>6, <2>1
  <2> QED  BY <1>4, <2>1, <2>2
<1>7. L - start \in T
  <2> HIDE DEF T
  <2>1. L - start \in Nat
    BY <1>1
  <2>2. Nat \subseteq T
    BY <1>5, <1>6, NaturalInduction
  <2> QED  BY <2>1, <2>2
<1>8. Claim(start)
  <2>1. L - (L - start) = start /\ L - start <= L - start
    BY <1>1
  <2> QED  BY <1>7, <2>1
<1> QED  BY <1>2, <1>3, <1>8 DEF Claim

--------------------------------------------------------------------------------
(***************************************************************************)
(* What trimString leaves.                                                 *)
(***************************************************************************)

\* A set of positions that is not empty has a first and a last one.
LEMMA FirstAndLast ==
  ASSUME NEW L \in Nat, NEW I, I \subseteq 1 .. L, I # {}
  PROVE  /\ Min(I) \in I /\ \A i \in I : Min(I) <= i
         /\ Max(I) \in I /\ \A i \in I : i <= Max(I)
<1>1. \E x \in I : \A y \in I : x <= y
  <2>1. I \subseteq Nat
    OBVIOUS
  <2> QED  BY <2>1, LeastNumber
<1>2. \E x \in I : \A y \in I : x >= y
  <2> DEFINE J == {L - i : i \in I}
  <2>1. J \subseteq Nat /\ J # {}
    <3>1. \A i \in I : i \in 1 .. L /\ L - i \in Nat
      OBVIOUS
    <3>2. J \subseteq Nat
      BY <3>1
    <3>3. PICK i : i \in I
      OBVIOUS
    <3>4. L - i \in J
      BY <3>3
    <3> QED  BY <3>2, <3>4
  <2>2. PICK n \in J : \A m \in J : n <= m
    BY <2>1, LeastNumber
  <2>3. PICK x \in I : n = L - x
    OBVIOUS
  <2>4. ASSUME NEW y \in I PROVE x >= y
    <3>1. L - y \in J
      OBVIOUS
    <3>2. L - x <= L - y
      BY <2>2, <2>3, <3>1
    <3>3. x \in 1 .. L /\ y \in 1 .. L
      OBVIOUS
    <3> HIDE DEF J
    <3> QED  BY <3>2, <3>3
  <2> QED  BY <2>4
<1>3. Min(I) \in I /\ \A i \in I : Min(I) <= i
  BY <1>1 DEF Min
<1>4. Max(I) \in I /\ \A i \in I : Max(I) >= i
  BY <1>2 DEF Max
<1>5. \A i \in I : i \in Int
  OBVIOUS
<1> QED  BY <1>3, <1>4, <1>5

\* The o spaces in front of t and those behind it are what is missing of s.
Trimmed(s, t, o) ==
  /\ o \in Nat /\ t \in Seq(Chars) /\ o + Len(t) <= Len(s)
  /\ \A i \in 1 .. Len(t) : t[i] = s[o + i]
  /\ \A j \in 1 .. Len(s) : j <= o \/ o + Len(t) < j => isspace(s[j])
  /\ Len(t) # 0 => ~isspace(t[1]) /\ ~isspace(t[Len(t)])

\* A trimmed line begins and ends with no space, and only spaces are missing.
LEMMA TrimIs ==
  ASSUME NEW s \in Seq(Chars)
  PROVE  \E o : Trimmed(s, trimString(s), o)
<1> DEFINE L == Len(s)
           I == {i \in 1 .. L : ~isspace(s[i])}
           t == trimString(s)
<1>1. L \in Nat /\ s \in [1 .. L -> Chars]
  BY LenProperties
<1>2. t = IF I = {} \/ Min(I) = 0 THEN <<>> ELSE SubSeq(s, Min(I), Max(I))
  BY Zenon DEF trimString, SelectInSeq, SelectLastInSeq
<1>3. CASE I = {}
  <2>1. t = <<>> /\ Len(t) = 0 /\ t \in Seq(Chars)
    BY <1>2, <1>3
  <2>2. \A j \in 1 .. L : isspace(s[j])
    BY <1>3
  <2> HIDE DEF t
  <2>3. Trimmed(s, t, 0)
    BY <1>1, <2>1, <2>2 DEF Trimmed
  <2> QED  BY <2>3 DEF t
<1>4. CASE I # {}
  <2> DEFINE first == Min(I)
             last  == Max(I)
             o     == first - 1
  <2>1. /\ first \in I /\ \A i \in I : first <= i
        /\ last \in I /\ \A i \in I : i <= last
    <3>1. I \subseteq 1 .. L
      OBVIOUS
    <3> HIDE DEF I, L
    <3> QED  BY <1>1, <1>4, <3>1, FirstAndLast
  <2> HIDE DEF first, last
  <2>2. /\ first \in 1 .. L /\ last \in 1 .. L /\ first <= last
        /\ ~isspace(s[first]) /\ ~isspace(s[last])
        /\ \A j \in 1 .. L : ~isspace(s[j]) => first <= j /\ j <= last
    BY <2>1
  <2>3. t = SubSeq(s, first, last)
    <3>1. first # 0
      BY <2>2
    <3> QED  BY <1>2, <1>4, <3>1 DEF first, last
  <2> HIDE DEF t, I
  <2>4. /\ t \in Seq(Chars) /\ Len(t) = last - first + 1
        /\ \A i \in 1 .. last - first + 1 : t[i] = s[first + i - 1]
    <3>1. first \in 1 .. L + 1 /\ last \in first - 1 .. L
      <4> HIDE DEF L
      <4> QED  BY <1>1, <2>2
    <3> QED  BY <2>3, <3>1, SubSeqProperties
  <2> HIDE DEF L
  <2> DEFINE n == last - first + 1
  <2>5. n \in Nat \ {0} /\ o \in Nat /\ o + n = last /\ o + 1 = first /\ 1 \in 1 .. n /\ n \in 1 .. n
    BY <1>1, <2>2
  <2>6. \A i \in 1 .. n : t[i] = s[o + i]
    <3>1. \A i \in 1 .. n : first + i - 1 = o + i
      BY <1>1, <2>2
    <3> QED  BY <2>4, <3>1
  <2>7. \A j \in 1 .. L : j <= o \/ o + n < j => isspace(s[j])
    BY <1>1, <2>2, <2>5
  <2> HIDE DEF n, o
  <2>8. Len(t) = n /\ o + n <= L
    BY <1>1, <2>2, <2>4, <2>5 DEF n
  <2>9. ~isspace(t[1]) /\ ~isspace(t[n])
    BY <2>2, <2>5, <2>6
  <2>10. Trimmed(s, t, o)
    BY <2>4, <2>5, <2>6, <2>7, <2>8, <2>9 DEF Trimmed, L
  <2> QED  BY <2>10 DEF t
<1> QED  BY <1>3, <1>4

--------------------------------------------------------------------------------
(***************************************************************************)
(* Words and bars up to a position.                                        *)
(***************************************************************************)

\* Every word character belongs to a word, which begins behind any character
\* in front of it that cannot be part of a word.
LEMMA WordCovers ==
  ASSUME NEW s \in Seq(Chars), NEW i \in 1 .. Len(s), isValidCmdChar(s[i]),
         NEW m \in Nat, m < i, m = 0 \/ ~isValidCmdChar(s[m])
  PROVE  \E w \in Words(s) : m < w[1] /\ w[1] <= i
<1> DEFINE L == Len(s)
           A == {a \in 1 .. i : \A j \in a .. i : isValidCmdChar(s[j])}
           B == {b \in i .. L : \A j \in i .. b : isValidCmdChar(s[j])}
           a == Min(A)
           b == Max(B)
<1>1. L \in Nat /\ i \in 1 .. L
  BY LenProperties
<1>2. \A j \in i .. i : j = i
  BY <1>1
<1>3. A \subseteq 1 .. L /\ B \subseteq 1 .. L /\ i \in A /\ i \in B
  <2>1. i \in 1 .. i /\ i \in i .. L /\ 1 .. i \subseteq 1 .. L /\ i .. L \subseteq 1 .. L
    <3> HIDE DEF L
    <3> QED  BY <1>1
  <2> HIDE DEF L
  <2> QED  BY <1>2, <2>1
<1>4. a \in A /\ (\A j \in A : a <= j) /\ b \in B /\ \A j \in B : j <= b
  <2> HIDE DEF A, B, L
  <2> QED  BY <1>1, <1>3, FirstAndLast
<1> HIDE DEF a, b, L
<1>5. /\ a \in 1 .. i /\ \A j \in a .. i : isValidCmdChar(s[j])
      /\ b \in i .. L /\ \A j \in i .. b : isValidCmdChar(s[j])
  BY <1>4
<1>6. a = 1 \/ ~isValidCmdChar(s[a - 1])
  <2> SUFFICES ASSUME a # 1, isValidCmdChar(s[a - 1]) PROVE FALSE
    OBVIOUS
  <2>1. a - 1 \in 1 .. i /\ \A j \in a - 1 .. i : j = a - 1 \/ j \in a .. i
    BY <1>1, <1>5
  <2>2. a - 1 \in A
    BY <1>5, <2>1
  <2>3. a <= a - 1
    BY <1>4, <2>2
  <2> QED  BY <1>1, <1>5, <2>3
<1>7. b = L \/ ~isValidCmdChar(s[b + 1])
  <2> SUFFICES ASSUME b # L, isValidCmdChar(s[b + 1]) PROVE FALSE
    OBVIOUS
  <2>1. b + 1 \in i .. L /\ \A j \in i .. b + 1 : j = b + 1 \/ j \in i .. b
    BY <1>1, <1>5
  <2>2. b + 1 \in B
    BY <1>5, <2>1
  <2>3. b + 1 <= b
    BY <1>4, <2>2
  <2> QED  BY <1>1, <1>5, <2>3
<1> HIDE DEF A, B
<1>8. <<a, b>> \in Words(s)
  <2>1. a \in 1 .. L /\ b \in 1 .. L /\ a <= b
    BY <1>1, <1>5
  <2>2. \A j \in a .. b : j \in a .. i \/ j \in i .. b
    BY <1>1, <1>5
  <2> QED  BY <1>5, <1>6, <1>7, <2>1, <2>2, WordIs DEF L
<1>9. m < a
  <2>1. CASE a <= m
    <3>1. m \in a .. i /\ m # 0
      BY <1>1, <1>5, <2>1
    <3> QED  BY <1>5, <3>1
  <2> QED  BY <1>1, <1>5, <2>1
<1>10. a <= i /\ <<a, b>>[1] = a
  BY <1>1, <1>5
<1> QED  BY <1>8, <1>9, <1>10

\* The number of bars up to a position.
Before(s, m) == Cardinality({b \in Bars(s) : b <= m})

\* How it grows.
LEMMA BeforeIs ==
  ASSUME NEW s \in Seq(Chars)
  PROVE  /\ Len(s) \in Nat
         /\ \A m \in Int : Before(s, m) \in Nat
         /\ \A m, n \in Int : m <= n => Before(s, m) <= Before(s, n)
         /\ \A m, n \in Int : m <= n /\ (\A j \in 1 .. Len(s) : m < j /\ j <= n => s[j] # "|")
                                => Before(s, m) = Before(s, n)
         /\ \A m \in 1 .. Len(s) : s[m] = "|" => Before(s, m) = Before(s, m - 1) + 1
         /\ \A m \in Int : Cardinality({b \in Bars(s) : b < m}) = Before(s, m - 1)
         /\ Cardinality(Bars(s)) = Before(s, Len(s))
         /\ Before(s, 0) = 0
<1> DEFINE L == Len(s)
           U(m) == {b \in Bars(s) : b <= m}
<1>1. L \in Nat /\ Bars(s) = {i \in 1 .. L : s[i] = "|"}
  BY LenProperties DEF Bars
<1> HIDE DEF L
<1>2. Bars(s) \subseteq 1 .. L /\ \A b \in Bars(s) : b \in Int
  BY <1>1
<1>3. IsFiniteSet(Bars(s))
  <2>1. IsFiniteSet(1 .. L)
    BY <1>1, FS_Interval
  <2> QED  BY <1>2, <2>1, FS_Subset
<1>4. \A m : IsFiniteSet(U(m)) /\ Before(s, m) = Cardinality(U(m))
  <2>1. \A m : U(m) \in SUBSET Bars(s)
    OBVIOUS
  <2> QED  BY <1>3, <2>1, FS_Subset, Zenon DEF Before
<1>5. \A m \in Int : Before(s, m) \in Nat
  BY <1>4, FS_CardinalityType
<1>6. ASSUME NEW m \in Int, NEW n \in Int, m <= n PROVE Before(s, m) <= Before(s, n)
  <2>1. U(m) \in SUBSET U(n)
    BY <1>2, <1>6
  <2> HIDE DEF U
  <2> QED  BY <1>4, <2>1, FS_Subset
<1>7. ASSUME NEW m \in Int, NEW n \in Int, m <= n, \A j \in 1 .. L : m < j /\ j <= n => s[j] # "|"
      PROVE  Before(s, m) = Before(s, n)
  <2>1. U(m) = U(n)
    BY <1>1, <1>2, <1>7
  <2> QED  BY <1>4, <2>1
<1>8. ASSUME NEW m \in 1 .. L, s[m] = "|" PROVE Before(s, m) = Before(s, m - 1) + 1
  <2>1. U(m) = U(m - 1) \cup {m} /\ m \notin U(m - 1)
    <3>1. m \in Bars(s) /\ m \in Int
      BY <1>1, <1>8
    <3> QED  BY <1>2, <3>1
  <2> HIDE DEF U
  <2> QED  BY <1>4, <2>1, FS_AddElement
<1>9. ASSUME NEW m \in Int PROVE Cardinality({b \in Bars(s) : b < m}) = Before(s, m - 1)
  <2>1. {b \in Bars(s) : b < m} = U(m - 1)
    BY <1>2
  <2> QED  BY <1>4, <2>1
<1>10. Cardinality(Bars(s)) = Before(s, L)
  <2>1. Bars(s) = U(L)
    BY <1>1, <1>2
  <2> HIDE DEF U
  <2> QED  BY <1>4, <2>1
<1>11. Before(s, 0) = 0
  <2>1. U(0) = {}
    BY <1>1, <1>2
  <2> HIDE DEF U
  <2> QED  BY <1>4, <2>1, FS_EmptySet
<1> QED  BY <1>1, <1>5, <1>6, <1>7, <1>8, <1>9, <1>10, <1>11 DEF L

\* A bar counts one more than what is in front of it.
LEMMA BeforeBar ==
  ASSUME NEW s \in Seq(Chars), NEW i \in Nat, i + 1 \in 1 .. Len(s), s[i + 1] = "|"
  PROVE  Before(s, i + 1) = Before(s, i) + 1
<1>1. \A m \in 1 .. Len(s) : s[m] = "|" => Before(s, m) = Before(s, m - 1) + 1
  BY BeforeIs
<1>2. (i + 1) - 1 = i
  OBVIOUS
<1> QED  BY <1>1, <1>2, Zenon

\* The words of a stage that begin up to a position.
WordsUpTo(s, k, m) == {w \in WordsOfStage(s, k) : w[1] <= m}

\* The stage of a word is told by the bars in front of it.
LEMMA StageIs ==
  ASSUME NEW s \in Seq(Chars), NEW k
  PROVE  \A w : w \in WordsOfStage(s, k) <=> w \in Words(s) /\ Before(s, w[1] - 1) = k - 1
<1>1. \A w \in Words(s) : Cardinality({b \in Bars(s) : b < w[1]}) = Before(s, w[1] - 1)
  <2>1. \A w \in Words(s) : w[1] \in Int
    BY WordIs
  <2> QED  BY <2>1, BeforeIs
<1> QED  BY <1>1, Zenon DEF WordsOfStage

\* Between two bars lie the words of one stage, and those of the stages before
\* lie in front.
LEMMA StageFrom ==
  ASSUME NEW s \in Seq(Chars), NEW m \in 0 .. Len(s), m = 0 \/ s[m] = "|",
         NEW stop \in m .. Len(s), \A j \in m + 1 .. stop : isValidCmdChar(s[j]) \/ isspace(s[j])
  PROVE  /\ WordsUpTo(s, Before(s, m) + 1, stop) = WordsFrom(s, m, stop)
         /\ \A k \in 1 .. Before(s, m) : WordsUpTo(s, k, stop) = WordsUpTo(s, k, m)
         /\ Before(s, stop) = Before(s, m)
         /\ m = 0 \/ ~isValidCmdChar(s[m])
<1> DEFINE L == Len(s)
<1>1. L \in Nat /\ m \in 0 .. L /\ stop \in m .. L
  BY BeforeIs
<1>2. \A j \in m + 1 .. stop : s[j] # "|"
  BY DEF isValidCmdChar, isspace
<1>3. \A n \in m .. stop : Before(s, n) = Before(s, m)
  <2> SUFFICES ASSUME NEW n \in m .. stop PROVE Before(s, n) = Before(s, m)
    OBVIOUS
  <2>1. /\ m \in Int /\ n \in Int /\ m <= n
        /\ \A j \in 1 .. L : m < j /\ j <= n => j \in m + 1 .. stop
    <3> HIDE DEF L
    <3> QED  BY <1>1
  <2> QED  BY <1>2, <2>1, BeforeIs
<1>4. ASSUME NEW w \in Words(s)
      PROVE  /\ w[1] \in 1 .. L
             /\ m < w[1] /\ w[1] <= stop => Before(s, w[1] - 1) = Before(s, m)
             /\ w[1] <= m => Before(s, w[1] - 1) < Before(s, m)
  <2> DEFINE u == w[1]
  <2>1. u \in 1 .. L /\ isValidCmdChar(s[u])
    <3>1. /\ w[1] \in 1 .. Len(s) /\ w[2] \in 1 .. Len(s) /\ w[1] <= w[2]
          /\ \A j \in w[1] .. w[2] : isValidCmdChar(s[j])
      BY WordIs
    <3> QED  BY <3>1
  <2> HIDE DEF u
  <2>2. m < u /\ u <= stop => Before(s, u - 1) = Before(s, m)
    <3>1. m < u /\ u <= stop => u - 1 \in m .. stop
      <4> HIDE DEF L
      <4> QED  BY <1>1, <2>1
    <3> QED  BY <1>3, <3>1
  <2>3. ASSUME u <= m PROVE Before(s, u - 1) < Before(s, m)
    <3>1. m \in 1 .. L /\ s[m] = "|"
      <4> HIDE DEF L
      <4> QED  BY <1>1, <2>1, <2>3
    <3>2. u # m
      BY <2>1, <3>1 DEF isValidCmdChar
    <3>3. u - 1 \in Int /\ m - 1 \in Int /\ m \in Int /\ u - 1 <= m - 1
      <4> HIDE DEF L
      <4> QED  BY <1>1, <2>1, <2>3, <3>2
    <3>4. Before(s, u - 1) <= Before(s, m - 1) /\ Before(s, m) = Before(s, m - 1) + 1
      BY <3>1, <3>3, BeforeIs
    <3>5. Before(s, u - 1) \in Nat /\ Before(s, m - 1) \in Nat
      BY <3>3, BeforeIs
    <3> QED  BY <3>4, <3>5
  <2> QED  BY <2>1, <2>2, <2>3 DEF u
<1>5. Before(s, m) \in Nat /\ (Before(s, m) + 1) - 1 = Before(s, m)
  <2>1. m \in Int
    OBVIOUS
  <2>2. Before(s, m) \in Nat
    BY <2>1, BeforeIs
  <2> QED  BY <2>2
<1>6. WordsUpTo(s, Before(s, m) + 1, stop) = WordsFrom(s, m, stop)
  <2>1. ASSUME NEW w \in Words(s)
        PROVE  (Before(s, w[1] - 1) = Before(s, m) /\ w[1] <= stop) <=> (m < w[1] /\ w[1] <= stop)
    <3>1. w[1] \in Int /\ m \in Int
      <4> HIDE DEF L
      <4> QED  BY <1>1, <1>4
    <3>2. Before(s, w[1] - 1) \in Nat
      <4>1. \A i \in Int : Before(s, i) \in Nat
        BY BeforeIs
      <4>2. w[1] - 1 \in Int
        BY <3>1
      <4> QED  BY <4>1, <4>2, Zenon
    <3>3. /\ m < w[1] /\ w[1] <= stop => Before(s, w[1] - 1) = Before(s, m)
          /\ w[1] <= m => Before(s, w[1] - 1) < Before(s, m)
      BY <1>4, Zenon
    <3> DEFINE u == w[1]
               b == Before(s, w[1] - 1)
               d == Before(s, m)
    <3> HIDE DEF u, b, d
    <3>4. u \in Int /\ m \in Int /\ b \in Nat /\ d \in Nat
      BY <1>5, <3>1, <3>2 DEF u, b, d
    <3>5. (m < u /\ u <= stop => b = d) /\ (u <= m => b < d)
      BY <3>3 DEF u, b, d
    <3>6. (b = d /\ u <= stop) <=> (m < u /\ u <= stop)
      BY <3>4, <3>5
    <3> QED  BY <3>6 DEF u, b, d
  <2>2. \A w : w \in WordsUpTo(s, Before(s, m) + 1, stop) <=>
                 w \in Words(s) /\ Before(s, w[1] - 1) = Before(s, m) /\ w[1] <= stop
    BY <1>5, StageIs DEF WordsUpTo
  <2>3. \A w : w \in WordsFrom(s, m, stop) <=> w \in Words(s) /\ m < w[1] /\ w[1] <= stop
    BY DEF WordsFrom
  <2> QED  BY <2>1, <2>2, <2>3
<1>7. ASSUME NEW k \in 1 .. Before(s, m) PROVE WordsUpTo(s, k, stop) = WordsUpTo(s, k, m)
  <2>1. ASSUME NEW w \in Words(s), Before(s, w[1] - 1) = k - 1
        PROVE  w[1] <= stop <=> w[1] <= m
    <3>1. w[1] \in Int /\ m \in Int /\ m <= stop /\ stop \in Int
      <4> HIDE DEF L
      <4> QED  BY <1>1, <1>4
    <3>2. k - 1 # Before(s, m)
      BY <1>5
    <3> QED  BY <1>4, <2>1, <3>1, <3>2
  <2>2. \A n : \A w : w \in WordsUpTo(s, k, n) <=>
                 w \in Words(s) /\ Before(s, w[1] - 1) = k - 1 /\ w[1] <= n
    BY StageIs DEF WordsUpTo
  <2>3. \A w : w \in WordsUpTo(s, k, stop) <=> w \in WordsUpTo(s, k, m)
    BY <2>1, <2>2, Zenon
  <2> QED  BY <2>3, Zenon DEF WordsUpTo
<1>8. Before(s, stop) = Before(s, m)
  <2>1. stop \in m .. stop
    <3> HIDE DEF L
    <3> QED  BY <1>1
  <2> QED  BY <1>3, <2>1
<1> QED  BY <1>6, <1>7, <1>8 DEF isValidCmdChar

\* No word begins at a character that cannot be part of one.
LEMMA UpToNext ==
  ASSUME NEW s \in Seq(Chars), NEW m \in Nat, m + 1 \in 1 .. Len(s), ~isValidCmdChar(s[m + 1]), NEW k
  PROVE  WordsUpTo(s, k, m + 1) = WordsUpTo(s, k, m)
<1>1. ASSUME NEW w \in Words(s) PROVE w[1] <= m + 1 <=> w[1] <= m
  <2>1. w[1] \in Int /\ w[2] \in Int /\ w[1] <= w[2] /\ \A j \in w[1] .. w[2] : isValidCmdChar(s[j])
    BY WordIs
  <2>2. w[1] # m + 1
    BY <2>1
  <2> QED  BY <2>1, <2>2
<1>2. \A w \in WordsOfStage(s, k) : w \in Words(s)
  BY StageIs
<1> QED  BY <1>1, <1>2 DEF WordsUpTo

\* No word begins behind the end.
LEMMA UpToEnd ==
  ASSUME NEW s \in Seq(Chars), NEW k
  PROVE  WordsUpTo(s, k, Len(s)) = WordsOfStage(s, k)
<1>1. \A w \in WordsOfStage(s, k) : w \in Words(s)
  BY StageIs
<1>2. \A w \in Words(s) : w[1] <= Len(s)
  <2> DEFINE L == Len(s)
  <2>1. L \in Nat /\ \A w \in Words(s) : w[1] \in 1 .. L
    BY WordIs, LenProperties
  <2> HIDE DEF L
  <2>2. \A w \in Words(s) : w[1] <= L
    BY <2>1
  <2> QED  BY <2>2 DEF L
<1> QED  BY <1>1, <1>2 DEF WordsUpTo

--------------------------------------------------------------------------------
(***************************************************************************)
(* Argument arrays.                                                        *)
(***************************************************************************)

\* args holds what the words of W read, in their order, and a NULL.
Lists(args, s, W) ==
  \E n, p : n # 0 /\ InOrder(p, n, W) /\ args = Append(Texts(s, p, n), NULL)

\* What words read is a sequence of characters.
LEMMA TextsAre ==
  ASSUME NEW s \in Seq(Chars), NEW W, W \subseteq Words(s), NEW n, NEW p, InOrder(p, n, W)
  PROVE  /\ Texts(s, p, n) \in Seq(Seq(Chars)) /\ Len(Texts(s, p, n)) = n /\ n \in Nat
         /\ \A j \in 1 .. n : Texts(s, p, n)[j] = SubSeq(s, p[j][1], p[j][2])
<1> DEFINE t == Texts(s, p, n)
<1>1. n \in Nat /\ p \in [1 .. n -> Words(s)]
  BY DEF InOrder
<1>2. ASSUME NEW j \in 1 .. n PROVE SubSeq(s, p[j][1], p[j][2]) \in Seq(Chars)
  <2> DEFINE a == p[j][1]
             b == p[j][2]
             L == Len(s)
  <2>1. L \in Nat /\ p[j] \in Words(s)
    BY <1>1, LenProperties
  <2>2. a \in 1 .. L /\ b \in 1 .. L /\ a <= b
    BY <2>1, WordIs
  <2> HIDE DEF a, b
  <2>3. a \in 1 .. L + 1 /\ b \in a - 1 .. L
    <3> HIDE DEF L
    <3> QED  BY <2>1, <2>2
  <2>4. SubSeq(s, a, b) \in Seq(Chars)
    BY <2>3, SubSeqProperties
  <2> QED  BY <2>4 DEF a, b
<1>3. t = [j \in 1 .. n |-> SubSeq(s, p[j][1], p[j][2])]
  BY DEF Texts
<1> HIDE DEF t
<1>4. t \in [1 .. n -> Seq(Chars)]
  BY <1>2, <1>3
<1>5. t \in Seq(Seq(Chars)) /\ Len(t) = n
  BY <1>1, <1>4
<1> QED  BY <1>1, <1>3, <1>5 DEF t

\* The array that command_new fills when as many words have been counted as found.
LEMMA ArgumentsAre ==
  ASSUME NEW S, NEW t \in Seq(S), NEW n \in Nat, Len(t) = n, NEW x
  PROVE  [k \in 1 .. n + 1 |-> IF k > n THEN x ELSE IF k \in DOMAIN t THEN t[k] ELSE Uninitialised]
           = Append(t, x)
<1> DEFINE a == [k \in 1 .. n + 1 |-> IF k > n THEN x ELSE IF k \in DOMAIN t THEN t[k] ELSE Uninitialised]
           b == Append(t, x)
<1>1. DOMAIN t = 1 .. n
  BY LenProperties
<1>2. /\ t \in Seq(S \cup {x}) /\ b \in Seq(S \cup {x}) /\ Len(b) = n + 1
      /\ (\A k \in 1 .. n : b[k] = t[k]) /\ b[n + 1] = x
  <2>1. \A k \in 1 .. n : t[k] \in S
    BY ElementOfSeq
  <2>2. t \in [1 .. n -> S \cup {x}]
    BY <2>1, LenProperties
  <2>3. t \in Seq(S \cup {x})
    BY <2>2
  <2> QED  BY <2>3, AppendProperties
<1>3. b = [k \in 1 .. n + 1 |-> b[k]]
  BY <1>2, LenProperties
<1> HIDE DEF b
<1>4. \A k \in 1 .. n + 1 : a[k] = b[k]
  <2> SUFFICES ASSUME NEW k \in 1 .. n + 1 PROVE a[k] = b[k]
    OBVIOUS
  <2>1. CASE k > n
    <3>1. k = n + 1
      BY <2>1
    <3> QED  BY <1>2, <2>1, <3>1
  <2>2. CASE ~(k > n)
    <3>1. k \in 1 .. n
      BY <2>2
    <3> QED  BY <1>1, <1>2, <2>2, <3>1
  <2> QED  BY <2>1, <2>2
<1>5. a = b
  BY <1>3, <1>4
<1> QED  BY <1>5 DEF b

\* Two lists of the same words are the same list.
LEMMA OneOrder ==
  ASSUME NEW W, NEW n, NEW p, NEW q, InOrder(p, n, W), InOrder(q, n, W), \A w \in W : w[1] \in Int
  PROVE  p = q
<1>1. /\ n \in Nat
      /\ p \in [1 .. n -> W] /\ (\A w \in W : \E j \in 1 .. n : p[j] = w)
      /\ \A i, j \in 1 .. n : i < j => p[i][1] < p[j][1]
      /\ q \in [1 .. n -> W] /\ (\A w \in W : \E j \in 1 .. n : q[j] = w)
      /\ \A i, j \in 1 .. n : i < j => q[i][1] < q[j][1]
  BY DEF InOrder
<1> DEFINE D == {i \in 1 .. n : p[i] # q[i]}
<1>2. SUFFICES ASSUME D # {} PROVE FALSE
  <2>1. \A i \in 1 .. n : p[i] = q[i]
    BY <1>2
  <2> QED  BY <1>1, <2>1
<1>3. PICK i \in D : \A j \in D : i <= j
  <2>1. D \subseteq Nat
    OBVIOUS
  <2> QED  BY <1>2, <2>1, LeastNumber
<1>4. i \in 1 .. n /\ p[i] # q[i] /\ \A j \in 1 .. n : j < i => p[j] = q[j]
  BY <1>3
<1> HIDE DEF D
<1>5. PICK j \in 1 .. n : q[j] = p[i]
  BY <1>1, <1>4
<1>6. PICK k \in 1 .. n : p[k] = q[i]
  BY <1>1, <1>4
<1>7. /\ p[i][1] \in Int /\ q[i][1] \in Int
      /\ \A a \in 1 .. n : p[a][1] \in Int /\ q[a][1] \in Int
  BY <1>1, <1>4
<1>8. i < j
  <2>1. CASE j < i
    <3>1. p[j] = p[i] /\ p[j][1] < p[i][1]
      BY <1>1, <1>4, <1>5, <2>1
    <3> QED  BY <1>7, <3>1
  <2>2. j # i
    BY <1>4, <1>5
  <2> QED  BY <1>4, <2>1, <2>2
<1>9. i < k
  <2>1. CASE k < i
    <3>1. q[k] = q[i] /\ q[k][1] < q[i][1]
      BY <1>1, <1>4, <1>6, <2>1
    <3> QED  BY <1>7, <3>1
  <2>2. k # i
    BY <1>4, <1>6
  <2> QED  BY <1>4, <2>1, <2>2
<1>10. q[i][1] < p[i][1] /\ p[i][1] < q[i][1]
  BY <1>1, <1>4, <1>5, <1>6, <1>8, <1>9
<1> QED  BY <1>7, <1>10

\* There are as many places in a list as words.
LEMMA OrderCounts ==
  ASSUME NEW W, NEW n, NEW p, InOrder(p, n, W), \A w \in W : w[1] \in Int
  PROVE  n \in Nat /\ IsFiniteSet(W) /\ Cardinality(W) = n
<1>1. /\ n \in Nat
      /\ p \in [1 .. n -> W] /\ (\A w \in W : \E j \in 1 .. n : p[j] = w)
      /\ \A i, j \in 1 .. n : i < j => p[i][1] < p[j][1]
  BY DEF InOrder
<1>2. ASSUME NEW i \in 1 .. n, NEW j \in 1 .. n, p[i] = p[j] PROVE i = j
  <2>1. p[i][1] \in Int /\ p[j][1] = p[i][1]
    BY <1>1, <1>2
  <2>2. ~(i < j) /\ ~(j < i)
    BY <1>1, <2>1
  <2> QED  BY <2>2
<1>3. p \in Bijection(1 .. n, W)
  <2>1. \A w \in W : \E j \in 1 .. n : w = p[j]
    BY <1>1
  <2> QED  BY <1>1, <1>2, <2>1 DEF Bijection, Injection, Surjection, IsInjective
<1>4. IsFiniteSet(1 .. n) /\ Cardinality(1 .. n) = n
  BY <1>1, FS_Interval
<1>5. ExistsBijection(1 .. n, W)
  BY <1>3 DEF ExistsBijection
<1> QED  BY <1>1, <1>4, <1>5, FS_Bijection

\* What InLineOrder chooses is the list.
LEMMA LineOrderIs ==
  ASSUME NEW W, NEW n, NEW p, InOrder(p, n, W), \A w \in W : w[1] \in Int
  PROVE  InLineOrder(W) = p
<1> DEFINE Ordered(list) == \A i, j \in DOMAIN list : i < j => list[i][1] < list[j][1]
           q == CHOOSE list \in [1 .. Cardinality(W) -> W] : Ordered(list)
<1>1. n \in Nat /\ IsFiniteSet(W) /\ Cardinality(W) = n
  BY OrderCounts
<1>2. p \in [1 .. n -> W] /\ Ordered(p)
  BY DEF InOrder
<1>3. q \in [1 .. n -> W] /\ Ordered(q)
  <2> HIDE DEF Ordered
  <2> QED  BY <1>1, <1>2
<1>4. q = InLineOrder(W)
  BY DEF InLineOrder
<1> HIDE DEF q
<1>5. \A i, j \in 1 .. n : i < j => q[i][1] < q[j][1]
  BY <1>3
<1>6. \A w \in W : \E j \in 1 .. n : q[j] = w
  <2>1. ASSUME NEW i \in 1 .. n, NEW j \in 1 .. n, q[i] = q[j] PROVE i = j
    <3>1. q[i][1] \in Int /\ q[j][1] = q[i][1]
      BY <1>3, <2>1
    <3>2. ~(i < j) /\ ~(j < i)
      BY <1>5, <3>1
    <3> QED  BY <3>2
  <2>2. q \in Injection(1 .. n, W)
    BY <1>3, <2>1 DEF Injection, IsInjective
  <2>3. Cardinality(1 .. n) = n
    BY <1>1, FS_Interval
  <2>4. q \in Surjection(1 .. n, W)
    BY <1>1, <2>2, <2>3, FS_Injection
  <2> QED  BY <2>4 DEF Surjection
<1>7. InOrder(q, n, W)
  BY <1>1, <1>3, <1>5, <1>6 DEF InOrder
<1>8. p = q
  BY <1>7, OneOrder
<1> QED  BY <1>4, <1>8

\* An argument array that lists the words of a stage is what the stage means.
LEMMA ListIsArray ==
  ASSUME NEW s \in Seq(Chars), NEW k, NEW args, Lists(args, s, WordsOfStage(s, k))
  PROVE  args = ArgumentArray(s, k) /\ WordsOfStage(s, k) # {}
<1> DEFINE W == WordsOfStage(s, k)
<1>1. PICK n, p : n # 0 /\ InOrder(p, n, W) /\ args = Append(Texts(s, p, n), NULL)
  BY DEF Lists
<1>2. \A w \in W : w[1] \in Int
  BY StageIs, WordIs
<1> HIDE DEF W
<1>3. InLineOrder(W) = p
  BY <1>1, <1>2, LineOrderIs
<1>4. n \in Nat /\ DOMAIN p = 1 .. n /\ p[1] \in W
  BY <1>1 DEF InOrder
<1>5. Texts(s, p, n) = [i \in DOMAIN p |-> SubSeq(s, p[i][1], p[i][2])]
  BY <1>4 DEF Texts
<1>6. args = ArgumentArray(s, k)
  BY <1>1, <1>3, <1>5, Zenon DEF ArgumentArray, W
<1> QED  BY <1>4, <1>6 DEF W

--------------------------------------------------------------------------------
(***************************************************************************)
(* The trimmed line means what the line means.                             *)
(***************************************************************************)

\* The words of a line are those of the trimmed line, o positions further.
LEMMA TrimWords ==
  ASSUME NEW s \in Seq(Chars), NEW t, NEW o, Trimmed(s, t, o)
  PROVE  /\ \A w \in Words(t) :
              /\ <<o + w[1], o + w[2]>> \in Words(s)
              /\ SubSeq(s, o + w[1], o + w[2]) = SubSeq(t, w[1], w[2])
         /\ \A v \in Words(s) : <<v[1] - o, v[2] - o>> \in Words(t)
<1> DEFINE L == Len(s)
           n == Len(t)
<1>1. /\ o \in Nat /\ t \in Seq(Chars) /\ n \in Nat /\ L \in Nat /\ o + n <= L
      /\ \A i \in 1 .. n : t[i] = s[o + i]
      /\ \A j \in 1 .. L : j <= o \/ o + n < j => ~isValidCmdChar(s[j])
  BY LenProperties DEF Trimmed, isspace, isValidCmdChar
<1> HIDE DEF L, n
<1>2. ASSUME NEW w \in Words(t)
      PROVE  /\ <<o + w[1], o + w[2]>> \in Words(s)
             /\ SubSeq(s, o + w[1], o + w[2]) = SubSeq(t, w[1], w[2])
  <2> DEFINE a == w[1]
             b == w[2]
  <2>1. /\ a \in 1 .. n /\ b \in 1 .. n /\ a <= b
        /\ \A i \in a .. b : isValidCmdChar(t[i])
        /\ a = 1 \/ ~isValidCmdChar(t[a - 1])
        /\ b = n \/ ~isValidCmdChar(t[b + 1])
    BY <1>1, WordIs DEF n
  <2> HIDE DEF a, b
  <2>2. o + a \in 1 .. L /\ o + b \in 1 .. L /\ o + a <= o + b
    BY <1>1, <2>1
  <2>3. ASSUME NEW i \in o + a .. o + b PROVE isValidCmdChar(s[i])
    <3>1. i - o \in a .. b /\ i - o \in 1 .. n /\ o + (i - o) = i
      BY <1>1, <2>1
    <3>2. t[i - o] = s[i] /\ isValidCmdChar(t[i - o])
      BY <1>1, <2>1, <3>1
    <3> QED  BY <3>2
  <2>4. o + a = 1 \/ ~isValidCmdChar(s[(o + a) - 1])
    <3>1. CASE a = 1
      <4>1. o + a = 1 \/ (o \in 1 .. L /\ o <= o /\ (o + a) - 1 = o)
        BY <1>1, <3>1
      <4> QED  BY <1>1, <4>1
    <3>2. CASE a # 1
      <4>1. a - 1 \in 1 .. n /\ o + (a - 1) = (o + a) - 1
        BY <1>1, <2>1, <3>2
      <4>2. t[a - 1] = s[(o + a) - 1]
        BY <1>1, <4>1
      <4> QED  BY <2>1, <3>2, <4>2
    <3> QED  BY <3>1, <3>2
  <2>5. o + b = L \/ ~isValidCmdChar(s[(o + b) + 1])
    <3>1. CASE b = n
      <4>1. o + b = L \/ ((o + b) + 1 \in 1 .. L /\ o + n < (o + b) + 1)
        BY <1>1, <3>1
      <4> QED  BY <1>1, <4>1
    <3>2. CASE b # n
      <4>1. b + 1 \in 1 .. n /\ o + (b + 1) = (o + b) + 1
        BY <1>1, <2>1, <3>2
      <4>2. t[b + 1] = s[(o + b) + 1]
        BY <1>1, <4>1
      <4> QED  BY <2>1, <3>2, <4>2
    <3> QED  BY <3>1, <3>2
  <2>6. <<o + a, o + b>> \in Words(s)
    BY <2>2, <2>3, <2>4, <2>5, WordIs DEF L
  <2>7. SubSeq(s, o + a, o + b) = SubSeq(t, a, b)
    <3> DEFINE x == SubSeq(s, o + a, o + b)
               y == SubSeq(t, a, b)
               m == b - a + 1
    <3>1. \A i \in o + a .. o + b : i \in 1 .. L
      BY <1>1, <2>2
    <3>2. \A i \in o + a .. o + b : s[i] \in Chars
      BY <3>1, ElementOfSeq DEF L
    <3>3. o + a \in Int /\ o + b \in Int /\ (o + b) - (o + a) + 1 = m /\ m \in Nat /\ a \in Int /\ b \in Int
      BY <1>1, <2>1
    <3>4. x \in Seq(Chars) /\ Len(x) = m /\ \A i \in 1 .. m : x[i] = s[(o + a) + i - 1]
      BY <2>2, <3>2, <3>3, SubSeqProperties
    <3>5. \A i \in a .. b : i \in 1 .. n
      BY <1>1, <2>1
    <3>6. \A i \in a .. b : t[i] \in Chars
      BY <1>1, <3>5, ElementOfSeq DEF n
    <3>7. y \in Seq(Chars) /\ Len(y) = m /\ \A i \in 1 .. m : y[i] = t[a + i - 1]
      <4>1. a <= b
        BY <2>1
      <4> QED  BY <3>3, <3>6, <4>1, SubSeqProperties
    <3> HIDE DEF x, y
    <3>8. ASSUME NEW i \in 1 .. m PROVE x[i] = y[i]
      <4>0. i \in Int /\ 1 <= i /\ i <= b - a + 1 /\ a \in Int /\ 1 <= a /\ b \in Int /\ b <= n
        BY <1>1, <2>1
      <4> HIDE DEF m
      <4>1. a + i - 1 \in 1 .. n /\ (o + a) + i - 1 = o + (a + i - 1)
        BY <1>1, <4>0
      <4> QED  BY <1>1, <3>4, <3>7, <4>1
    <3> HIDE DEF m
    <3>9. x = [i \in 1 .. m |-> x[i]] /\ y = [i \in 1 .. m |-> y[i]]
      BY <3>4, <3>7, LenProperties
    <3>10. x = y
      BY <3>8, <3>9
    <3> QED  BY <3>10 DEF x, y
  <2> QED  BY <2>6, <2>7 DEF a, b
<1>3. ASSUME NEW v \in Words(s) PROVE <<v[1] - o, v[2] - o>> \in Words(t)
  <2> DEFINE a == v[1]
             b == v[2]
  <2>1. /\ a \in 1 .. L /\ b \in 1 .. L /\ a <= b
        /\ \A i \in a .. b : isValidCmdChar(s[i])
        /\ a = 1 \/ ~isValidCmdChar(s[a - 1])
        /\ b = L \/ ~isValidCmdChar(s[b + 1])
    BY WordIs DEF L
  <2> HIDE DEF a, b
  <2>2. isValidCmdChar(s[a]) /\ isValidCmdChar(s[b])
    BY <1>1, <2>1
  <2>3. o < a /\ b <= o + n
    BY <1>1, <2>1, <2>2
  <2>4. a - o \in 1 .. n /\ b - o \in 1 .. n /\ a - o <= b - o
    BY <1>1, <2>1, <2>3
  <2>5. ASSUME NEW i \in a - o .. b - o PROVE isValidCmdChar(t[i])
    <3>1. o + i \in a .. b /\ i \in 1 .. n
      BY <1>1, <2>1, <2>3
    <3> QED  BY <1>1, <2>1, <3>1
  <2>6. a - o = 1 \/ ~isValidCmdChar(t[(a - o) - 1])
    <3>1. a = 1 \/ a - o = 1 \/ ((a - o) - 1 \in 1 .. n /\ o + ((a - o) - 1) = a - 1)
      BY <1>1, <2>1, <2>3
    <3>2. a = 1 => a - o = 1
      BY <1>1, <2>3
    <3> QED  BY <1>1, <2>1, <3>1, <3>2
  <2>7. b - o = n \/ ~isValidCmdChar(t[(b - o) + 1])
    <3>1. b = L \/ b - o = n \/ ((b - o) + 1 \in 1 .. n /\ o + ((b - o) + 1) = b + 1)
      BY <1>1, <2>1, <2>3
    <3>2. b = L => b - o = n
      BY <1>1, <2>3
    <3> QED  BY <1>1, <2>1, <3>1, <3>2
  <2>8. <<a - o, b - o>> \in Words(t)
    BY <1>1, <2>4, <2>5, <2>6, <2>7, WordIs DEF n
  <2> QED  BY <2>8 DEF a, b
<1> QED  BY <1>2, <1>3

\* ... and so are the bars.
LEMMA TrimBars ==
  ASSUME NEW s \in Seq(Chars), NEW t, NEW o, Trimmed(s, t, o)
  PROVE  /\ \A i \in 0 .. Len(t) : Before(s, o + i) = Before(t, i)
         /\ Before(s, Len(s)) = Before(t, Len(t))
<1> DEFINE L == Len(s)
           n == Len(t)
           T == {i \in Nat : i <= n => Before(s, o + i) = Before(t, i)}
<1>1. /\ o \in Nat /\ t \in Seq(Chars) /\ n \in Nat /\ L \in Nat /\ o + n <= L
      /\ \A i \in 1 .. n : t[i] = s[o + i]
      /\ \A j \in 1 .. L : j <= o \/ o + n < j => s[j] # "|"
  BY LenProperties DEF Trimmed, isspace
<1>2. 0 \in T
  <2>1. Before(s, 0) = Before(s, o)
    <3>1. 0 \in Int /\ o \in Int /\ 0 <= o
      BY <1>1
    <3> QED  BY <1>1, <3>1, BeforeIs
  <2>2. Before(s, 0) = 0 /\ Before(t, 0) = 0 /\ o + 0 = o
    BY <1>1, BeforeIs
  <2> QED  BY <2>1, <2>2
<1>3. ASSUME NEW i \in Nat, i \in T PROVE i + 1 \in T
  <2> SUFFICES ASSUME i + 1 <= n PROVE Before(s, o + (i + 1)) = Before(t, i + 1)
    OBVIOUS
  <2> HIDE DEF L, n
  <2>1. /\ i <= n /\ i + 1 \in 1 .. n /\ o + (i + 1) \in 1 .. L
        /\ (o + (i + 1)) - 1 = o + i /\ (i + 1) - 1 = i
        /\ i \in Int /\ i + 1 \in Int /\ o + i \in Int /\ o + (i + 1) \in Int /\ i <= i + 1 /\ o + i <= o + (i + 1)
    BY <1>1
  <2>2. Before(s, o + i) = Before(t, i)
    BY <1>3, <2>1
  <2>3. t[i + 1] = s[o + (i + 1)]
    BY <1>1, <2>1
  <2>4. CASE t[i + 1] = "|"
    <3>1. Before(s, o + (i + 1)) = Before(s, o + i) + 1
      <4>1. o + i \in Nat /\ (o + i) + 1 = o + (i + 1)
        BY <1>1
      <4>2. Before(s, (o + i) + 1) = Before(s, o + i) + 1
        BY <2>1, <2>3, <2>4, <4>1, BeforeBar DEF L
      <4> QED  BY <4>1, <4>2
    <3>2. Before(t, i + 1) = Before(t, i) + 1
      BY <1>1, <2>1, <2>4, BeforeBar DEF n
    <3> QED  BY <2>2, <3>1, <3>2
  <2>5. CASE t[i + 1] # "|"
    <3>1. Before(s, o + i) = Before(s, o + (i + 1))
      <4>1. \A j \in 1 .. L : o + i < j /\ j <= o + (i + 1) => j = o + (i + 1)
        BY <1>1, <2>1
      <4>2. \A j \in 1 .. L : o + i < j /\ j <= o + (i + 1) => s[j] # "|"
        BY <2>3, <2>5, <4>1
      <4> QED  BY <2>1, <4>2, BeforeIs DEF L
    <3>2. Before(t, i) = Before(t, i + 1)
      <4>1. \A j \in 1 .. n : i < j /\ j <= i + 1 => j = i + 1
        BY <1>1, <2>1
      <4>2. \A j \in 1 .. n : i < j /\ j <= i + 1 => t[j] # "|"
        BY <2>5, <4>1
      <4> QED  BY <1>1, <2>1, <4>2, BeforeIs DEF n
    <3> QED  BY <2>2, <3>1, <3>2
  <2> QED  BY <2>4, <2>5
<1>4. Nat \subseteq T
  <2> HIDE DEF T
  <2> QED  BY <1>2, <1>3, NaturalInduction
<1>5. \A i \in 0 .. n : Before(s, o + i) = Before(t, i)
  <2> HIDE DEF n
  <2>1. \A i \in 0 .. n : i \in Nat /\ i <= n
    BY <1>1
  <2> QED  BY <1>4, <2>1
<1>6. Before(s, o + n) = Before(s, L)
  <2>1. o + n \in Int /\ L \in Int
    BY <1>1
  <2> QED  BY <1>1, <2>1, BeforeIs
<1>7. Before(s, L) = Before(t, n)
  <2> HIDE DEF n, L
  <2>1. n \in 0 .. n
    BY <1>1
  <2> QED  BY <1>5, <1>6, <2>1
<1> QED  BY <1>5, <1>7

\* ... and so are the stages, and what they list.
LEMMA TrimStages ==
  ASSUME NEW s \in Seq(Chars), NEW t, NEW o, Trimmed(s, t, o)
  PROVE  /\ Stages(s) = Stages(t)
         /\ \A k : \A w \in WordsOfStage(t, k) : <<o + w[1], o + w[2]>> \in WordsOfStage(s, k)
         /\ \A k : \A v \in WordsOfStage(s, k) : <<v[1] - o, v[2] - o>> \in WordsOfStage(t, k)
<1> DEFINE n == Len(t)
<1>1. o \in Nat /\ t \in Seq(Chars) /\ n \in Nat
  BY LenProperties DEF Trimmed
<1>2. Stages(s) = Stages(t)
  <2>1. Cardinality(Bars(s)) = Before(s, Len(s)) /\ Cardinality(Bars(t)) = Before(t, Len(t))
    BY <1>1, BeforeIs
  <2>2. Before(s, Len(s)) = Before(t, Len(t))
    BY TrimBars
  <2> QED  BY <2>1, <2>2, Zenon DEF Stages
<1>3. ASSUME NEW k, NEW w \in WordsOfStage(t, k)
      PROVE  <<o + w[1], o + w[2]>> \in WordsOfStage(s, k)
  <2> DEFINE x == <<o + w[1], o + w[2]>>
  <2>1. w \in Words(t) /\ Before(t, w[1] - 1) = k - 1
    BY <1>1, StageIs
  <2>2. w[1] \in 1 .. n
    BY <1>1, <2>1, WordIs
  <2>3. x \in Words(s) /\ x[1] = o + w[1]
    BY <2>1, TrimWords
  <2> HIDE DEF x, n
  <2>4. w[1] - 1 \in 0 .. n /\ o + (w[1] - 1) = x[1] - 1
    BY <1>1, <2>2, <2>3
  <2>5. Before(s, x[1] - 1) = k - 1
    BY <2>1, <2>4, TrimBars DEF n
  <2>6. x \in WordsOfStage(s, k)
    BY <2>3, <2>5, StageIs
  <2> QED  BY <2>6 DEF x
<1>4. ASSUME NEW k, NEW v \in WordsOfStage(s, k)
      PROVE  <<v[1] - o, v[2] - o>> \in WordsOfStage(t, k)
  <2> DEFINE x == <<v[1] - o, v[2] - o>>
  <2>1. v \in Words(s) /\ Before(s, v[1] - 1) = k - 1
    BY StageIs
  <2>2. v[1] \in Int
    BY <2>1, WordIs
  <2>3. x \in Words(t) /\ x[1] = v[1] - o
    BY <2>1, TrimWords
  <2> HIDE DEF x
  <2>4. x[1] \in 1 .. n
    BY <1>1, <2>3, WordIs
  <2> HIDE DEF n
  <2>5. x[1] - 1 \in 0 .. n /\ o + (x[1] - 1) = v[1] - 1
    BY <1>1, <2>2, <2>3, <2>4
  <2>6. Before(t, x[1] - 1) = k - 1
    BY <2>1, <2>5, TrimBars DEF n
  <2>7. x \in WordsOfStage(t, k)
    BY <1>1, <2>3, <2>6, StageIs
  <2> QED  BY <2>7 DEF x
<1> QED  BY <1>2, <1>3, <1>4

\* What lists a stage of the trimmed line lists that of the line.
LEMMA TrimLists ==
  ASSUME NEW s \in Seq(Chars), NEW t, NEW o, Trimmed(s, t, o),
         NEW k, NEW args, Lists(args, t, WordsOfStage(t, k))
  PROVE  Lists(args, s, WordsOfStage(s, k))
<1> DEFINE V == WordsOfStage(s, k)
           W == WordsOfStage(t, k)
<1>1. PICK n, p : n # 0 /\ InOrder(p, n, W) /\ args = Append(Texts(t, p, n), NULL)
  BY DEF Lists
<1>2. /\ n \in Nat /\ p \in [1 .. n -> W]
      /\ \A w \in W : \E j \in 1 .. n : p[j] = w
      /\ \A i, j \in 1 .. n : i < j => p[i][1] < p[j][1]
  BY <1>1 DEF InOrder
<1>3. o \in Nat /\ t \in Seq(Chars)
  BY DEF Trimmed
<1>4. \A w \in W : <<o + w[1], o + w[2]>> \in V /\ w \in Words(t)
  <2>1. \A w \in W : <<o + w[1], o + w[2]>> \in V
    BY TrimStages
  <2>2. \A w \in W : w \in Words(t)
    BY <1>3, StageIs
  <2> QED  BY <2>1, <2>2, Zenon
<1>5. \A v \in V : <<v[1] - o, v[2] - o>> \in W /\ v \in Words(s)
  <2>1. \A v \in V : <<v[1] - o, v[2] - o>> \in W
    BY TrimStages
  <2>2. \A v \in V : v \in Words(s)
    BY StageIs
  <2> QED  BY <2>1, <2>2, Zenon
<1>6. /\ \A w \in W : w[1] \in Int /\ w[2] \in Int
      /\ \A v \in V : v = <<v[1], v[2]>> /\ v[1] \in Int /\ v[2] \in Int
  <2>1. \A w \in Words(t) : w[1] \in Int /\ w[2] \in Int
    BY <1>3, WordPairs
  <2>2. \A v \in Words(s) : v = <<v[1], v[2]>> /\ v[1] \in Int /\ v[2] \in Int
    BY WordPairs
  <2> QED  BY <1>4, <1>5, <2>1, <2>2, Zenon
<1>7. \A w \in W : SubSeq(s, o + w[1], o + w[2]) = SubSeq(t, w[1], w[2])
  <2>1. /\ \A w \in Words(t) :
              /\ <<o + w[1], o + w[2]>> \in Words(s)
              /\ SubSeq(s, o + w[1], o + w[2]) = SubSeq(t, w[1], w[2])
        /\ \A v \in Words(s) : <<v[1] - o, v[2] - o>> \in Words(t)
    BY TrimWords, Zenon
  <2> QED  BY <1>4, <2>1, Zenon
<1> HIDE DEF V, W
<1> DEFINE q == [j \in 1 .. n |-> <<o + p[j][1], o + p[j][2]>>]
<1>8. \A j \in 1 .. n : p[j] \in W /\ q[j] = <<o + p[j][1], o + p[j][2]>>
  BY <1>2
<1>9. q \in [1 .. n -> V]
  BY <1>4, <1>8
<1> HIDE DEF q
<1>10. ASSUME NEW v \in V PROVE \E j \in 1 .. n : q[j] = v
  <2> DEFINE w == <<v[1] - o, v[2] - o>>
  <2>1. w \in W /\ w[1] = v[1] - o /\ w[2] = v[2] - o
    BY <1>5
  <2> HIDE DEF w
  <2>2. PICK j \in 1 .. n : p[j] = w
    BY <1>2, <2>1
  <2>3. o + w[1] = v[1] /\ o + w[2] = v[2]
    BY <1>3, <1>6, <2>1
  <2>4. q[j] = <<v[1], v[2]>>
    BY <1>8, <2>2, <2>3
  <2> QED  BY <1>6, <2>4
<1>11. ASSUME NEW i \in 1 .. n, NEW j \in 1 .. n, i < j PROVE q[i][1] < q[j][1]
  <2>1. p[i][1] < p[j][1] /\ p[i][1] \in Int /\ p[j][1] \in Int
    BY <1>2, <1>6, <1>8, <1>11
  <2>2. q[i][1] = o + p[i][1] /\ q[j][1] = o + p[j][1]
    BY <1>8
  <2> QED  BY <1>3, <2>1, <2>2
<1>12. InOrder(q, n, V)
  BY <1>2, <1>9, <1>10, <1>11 DEF InOrder
<1>13. Texts(s, q, n) = Texts(t, p, n)
  <2>1. \A j \in 1 .. n : SubSeq(s, q[j][1], q[j][2]) = SubSeq(t, p[j][1], p[j][2])
    <3> SUFFICES ASSUME NEW j \in 1 .. n
                 PROVE  SubSeq(s, q[j][1], q[j][2]) = SubSeq(t, p[j][1], p[j][2])
      OBVIOUS
    <3>1. p[j] \in W /\ q[j][1] = o + p[j][1] /\ q[j][2] = o + p[j][2]
      BY <1>8
    <3>2. SubSeq(s, o + p[j][1], o + p[j][2]) = SubSeq(t, p[j][1], p[j][2])
      BY <1>7, <3>1, Zenon
    <3> QED  BY <3>1, <3>2, Zenon
  <2> QED  BY <2>1, Zenon DEF Texts
<1>14. args = Append(Texts(s, q, n), NULL)
  BY <1>1, <1>13
<1> QED  BY <1>1, <1>12, <1>14 DEF Lists, V

\* A line is a call when the trimmed line is one, with the same ampersand.
LEMMA TrimCall ==
  ASSUME NEW s \in Seq(Chars), NEW t, NEW o, Trimmed(s, t, o)
  PROVE  /\ IsCall(s) <=> IsCall(t)
         /\ \A x \in Chars \ {" "} : x \in ToSet(s) <=> x \in ToSet(t)
<1> DEFINE L == Len(s)
           n == Len(t)
<1>1. /\ o \in Nat /\ t \in Seq(Chars) /\ n \in Nat /\ L \in Nat /\ o + n <= L
      /\ DOMAIN s = 1 .. L /\ DOMAIN t = 1 .. n
      /\ \A i \in 1 .. n : t[i] = s[o + i]
      /\ \A j \in 1 .. L : j <= o \/ o + n < j => s[j] = " "
  BY LenProperties DEF Trimmed, isspace
<1> HIDE DEF L, n
<1>0. o \in Nat /\ n \in Nat /\ L \in Nat /\ o + n <= L
  BY <1>1
<1>2. \A j \in 1 .. L : ~(j <= o) /\ ~(o + n < j) => j - o \in 1 .. n /\ o + (j - o) = j
  BY <1>0
<1>3. \A i \in 1 .. n : o + i \in 1 .. L /\ t[i] = s[o + i]
  <2>1. \A i \in 1 .. n : o + i \in 1 .. L
    BY <1>0
  <2> QED  BY <1>1, <2>1
<1>4. \A j \in 1 .. L : s[j] = " " \/ (j - o \in 1 .. n /\ o + (j - o) = j /\ t[j - o] = s[j])
  <2> SUFFICES ASSUME NEW j \in 1 .. L, s[j] # " "
               PROVE  j - o \in 1 .. n /\ o + (j - o) = j /\ t[j - o] = s[j]
    OBVIOUS
  <2>1. ~(j <= o) /\ ~(o + n < j)
    BY <1>1
  <2>2. j - o \in 1 .. n /\ o + (j - o) = j
    BY <1>2, <2>1
  <2> QED  BY <1>3, <2>2
<1>5. ASSUME NEW x \in Chars \ {" "} PROVE x \in ToSet(s) <=> x \in ToSet(t)
  <2>1. x \in ToSet(s) <=> \E j \in 1 .. L : s[j] = x
    BY <1>1 DEF ToSet
  <2>2. x \in ToSet(t) <=> \E i \in 1 .. n : t[i] = x
    BY <1>1 DEF ToSet
  <2>3. x # " "
    OBVIOUS
  <2>4. (\E j \in 1 .. L : s[j] = x) <=> (\E i \in 1 .. n : t[i] = x)
    BY <1>3, <1>4, <2>3, Zenon
  <2> QED  BY <2>1, <2>2, <2>4
<1>6. "?" \in ToSet(s) <=> "?" \in ToSet(t)
  BY <1>5 DEF Chars
<1>7. /\ Stages(s) = Stages(t)
      /\ \A k : WordsOfStage(s, k) # {} <=> WordsOfStage(t, k) # {}
  <2>1. Stages(s) = Stages(t)
    BY TrimStages
  <2>2. \A k : WordsOfStage(s, k) # {} <=> WordsOfStage(t, k) # {}
    BY TrimStages, Zenon
  <2> QED  BY <2>1, <2>2
<1>8. ASSUME \A i, j \in DOMAIN s : s[i] = "&" /\ i < j => isspace(s[j]),
             NEW i \in DOMAIN t, NEW j \in DOMAIN t, t[i] = "&", i < j
      PROVE  isspace(t[j])
  <2>1. o + i \in DOMAIN s /\ o + j \in DOMAIN s /\ o + i < o + j
    <3>1. i \in 1 .. n /\ j \in 1 .. n
      BY <1>1
    <3>2. o + i < o + j
      BY <1>0, <1>8, <3>1
    <3> QED  BY <1>1, <1>3, <3>1, <3>2
  <2>2. s[o + i] = "&" /\ s[o + j] = t[j]
    BY <1>1, <1>3, <1>8
  <2> QED  BY <1>8, <2>1, <2>2
<1>9. ASSUME \A i, j \in DOMAIN t : t[i] = "&" /\ i < j => isspace(t[j]),
             NEW i \in DOMAIN s, NEW j \in DOMAIN s, s[i] = "&", i < j
      PROVE  isspace(s[j])
  <2>1. CASE s[j] = " "
    BY <2>1 DEF isspace
  <2>2. CASE s[j] # " "
    <3>1. i - o \in DOMAIN t /\ t[i - o] = "&" /\ j - o \in DOMAIN t /\ t[j - o] = s[j]
      BY <1>1, <1>4, <1>9, <2>2
    <3>2. i - o < j - o
      <4>1. i \in 1 .. L /\ j \in 1 .. L
        BY <1>1
      <4> QED  BY <1>0, <1>9, <4>1
    <3> QED  BY <1>9, <3>1, <3>2
  <2> QED  BY <2>1, <2>2
<1>10. IsCall(s) => IsCall(t)
  BY <1>6, <1>7, <1>8 DEF IsCall
<1>11. IsCall(t) => IsCall(s)
  BY <1>6, <1>7, <1>9 DEF IsCall
<1> QED  BY <1>5, <1>10, <1>11

--------------------------------------------------------------------------------
(***************************************************************************)
(* The inductive invariant.                                                *)
(***************************************************************************)

\* What has been interpreted holds words, spaces and bars, and the k-th array
\* lists the words of the k-th stage that lie in it.
ParsedUpTo ==
  /\ \A j \in 1 .. c : str[j] \in {"w", " ", "|"}
  /\ \A k \in DOMAIN commands : Lists(commands[k], str, WordsUpTo(str, k, c))

\* The blocks that are allocated at each place.
HeapIs ==
  /\ pc = "prompt" => heap = {}
  /\ pc \in {"call", "release"} => heap = {<<"input">>}
  /\ pc \in {"command", "next", "run", "reject"} => heap = {<<"input">>} \cup CallBlocks

\* How far the line has been interpreted at each place.
ParseIs ==
  /\ pc \in {"prompt", "call"} => c = 0 /\ commands = <<>> /\ isBackground = FALSE
  /\ pc \in {"command", "next", "run", "reject"} => str = trimString(input)
  /\ pc \in {"command", "next", "run"} => ParsedUpTo
  /\ pc = "command" => /\ c = 0 \/ str[c] = "|"
                       /\ Len(commands) = Before(str, c) /\ isBackground = FALSE
  /\ pc = "next" => Len(commands) = Before(str, c) + 1 /\ isBackground = FALSE
  /\ pc = "run" => /\ Len(commands) = Before(str, c) + 1
                   /\ \/ c = Len(str) /\ isBackground = FALSE
                      \/ c + 1 = Len(str) /\ str[c + 1] = "&" /\ isBackground = TRUE
  /\ pc = "reject" => ~IsCall(str)

LinesInv ==
  /\ TypeOK /\ commands \in Seq(Seq(Seq(Chars)))
  /\ complete => input = typed
  /\ HeapIs /\ ParseIs
  /\ UndefinedOnlyIfEmpty

\* The lines are sequences of characters, and trimming one leaves a line.
LEMMA LinesAre ==
  ASSUME TypeOK
  PROVE  /\ typed \in Seq(Chars) /\ input \in Seq(Chars) /\ str \in Seq(Chars)
         /\ Len(str) \in Nat /\ c \in Nat /\ c <= Len(str)
         /\ trimString(input) \in Lines
<1>1. typed \in Seq(Chars) /\ input \in Seq(Chars) /\ str \in Seq(Chars) /\ Len(input) <= MaxLength
  BY LineIs DEF TypeOK
<1>2. Len(str) \in Nat /\ Len(input) \in Nat
  BY <1>1, LenProperties
<1>3. c \in Nat /\ c <= Len(str)
  <2> DEFINE L == Len(str)
  <2>1. c \in 0 .. L /\ L \in Nat
    BY <1>2 DEF TypeOK
  <2> HIDE DEF L
  <2>2. c \in Nat /\ c <= L
    BY <2>1
  <2> QED  BY <2>2 DEF L
<1>4. trimString(input) \in Lines
  <2> DEFINE t == trimString(input)
             L == Len(input)
             n == Len(t)
  <2>1. PICK o : Trimmed(input, t, o)
    BY <1>1, TrimIs
  <2> HIDE DEF t
  <2>2. o \in Nat /\ t \in Seq(Chars) /\ o + n <= L /\ n \in Nat /\ L \in Nat /\ L <= MaxLength
    BY <1>1, <1>2, <2>1, LenProperties DEF Trimmed
  <2> HIDE DEF n, L
  <2>3. n <= MaxLength
    BY <2>2, MaxLengthAssumption
  <2> QED  BY <2>2, <2>3, LineIs DEF t, n
<1> QED  BY <1>1, <1>2, <1>3, <1>4

\* What the scanners find at the beginning of a command.
LEMMA CommandFound ==
  ASSUME LinesInv, pc = "command"
  PROVE  \E n, p, stop :
           /\ InOrder(p, n, WordsFrom(str, c, stop))
           /\ getValidSeqCount(str, c) = n
           /\ ScanArguments(str, c) = [args |-> Texts(str, p, n), stop |-> stop]
           /\ stop \in c .. Len(str)
           /\ \A j \in c + 1 .. stop : isValidCmdChar(str[j]) \/ isspace(str[j])
           /\ ~isValidCmdChar(At(str, stop)) /\ ~isspace(At(str, stop))
           /\ WordsUpTo(str, Len(commands) + 1, stop) = WordsFrom(str, c, stop)
           /\ \A k \in 1 .. Len(commands) : WordsUpTo(str, k, stop) = WordsUpTo(str, k, c)
           /\ Before(str, stop) = Len(commands)
<1>1. str \in Seq(Chars) /\ c \in 0 .. Len(str)
  BY LinesAre DEF LinesInv, TypeOK
<1>2. (c = 0 \/ str[c] = "|") /\ Len(commands) = Before(str, c)
  BY DEF LinesInv, ParseIs
<1>3. c = 0 \/ ~isValidCmdChar(str[c])
  BY <1>2 DEF isValidCmdChar
<1>4. Found(str, c, c, getValidSeqCount(str, c), ScanArguments(str, c))
  BY <1>1, <1>3, ScannersAgree
<1>5. PICK n, p, stop :
        /\ InOrder(p, n, WordsFrom(str, c, stop))
        /\ getValidSeqCount(str, c) = n
        /\ ScanArguments(str, c) = [args |-> Texts(str, p, n), stop |-> stop]
        /\ stop \in c .. Len(str)
        /\ \A j \in c + 1 .. stop : isValidCmdChar(str[j]) \/ isspace(str[j])
        /\ ~isValidCmdChar(At(str, stop)) /\ ~isspace(At(str, stop))
  BY <1>4, Zenon DEF Found
<1>6. /\ WordsUpTo(str, Before(str, c) + 1, stop) = WordsFrom(str, c, stop)
      /\ \A k \in 1 .. Before(str, c) : WordsUpTo(str, k, stop) = WordsUpTo(str, k, c)
      /\ Before(str, stop) = Before(str, c)
  BY <1>1, <1>2, <1>5, StageFrom
<1>7. /\ WordsUpTo(str, Len(commands) + 1, stop) = WordsFrom(str, c, stop)
      /\ \A k \in 1 .. Len(commands) : WordsUpTo(str, k, stop) = WordsUpTo(str, k, c)
      /\ Before(str, stop) = Len(commands)
  BY <1>2, <1>6
<1> QED  BY <1>5, <1>7

\* command_new: one array more, which lists the words of the next stage.
LEMMA CommandNewKeeps ==
  ASSUME LinesInv, CommandNew
  PROVE  LinesInv'
<1> DEFINE m == Len(commands)
           argc == getValidSeqCount(str, c)
           scan == ScanArguments(str, c)
           args == [k \in 1 .. argc + 1 |->
                      IF k > argc THEN NULL
                      ELSE IF k \in DOMAIN scan.args THEN scan.args[k] ELSE Uninitialised]
<1>1. /\ pc = "command" /\ argc > 0
      /\ commands' = Append(commands, args) /\ c' = scan.stop
      /\ heap' = heap \cup CommandBlocks(Len(commands'), args)
      /\ pc' = IF Len(scan.args) > argc THEN "undefined" ELSE "next"
      /\ typed' = typed /\ complete' = complete /\ input' = input
      /\ str' = str /\ isBackground' = isBackground
  BY DEF CommandNew, reading
<1>2. /\ str \in Seq(Chars) /\ Len(str) \in Nat /\ c \in Nat /\ c <= Len(str)
      /\ commands \in Seq(Seq(Seq(Chars))) /\ m \in Nat /\ DOMAIN commands = 1 .. m
  BY LinesAre, LenProperties DEF LinesInv
<1>3. PICK n, p, stop :
        /\ InOrder(p, n, WordsFrom(str, c, stop))
        /\ argc = n
        /\ scan = [args |-> Texts(str, p, n), stop |-> stop]
        /\ stop \in c .. Len(str)
        /\ \A j \in c + 1 .. stop : isValidCmdChar(str[j]) \/ isspace(str[j])
        /\ ~isValidCmdChar(At(str, stop)) /\ ~isspace(At(str, stop))
        /\ WordsUpTo(str, m + 1, stop) = WordsFrom(str, c, stop)
        /\ \A k \in 1 .. m : WordsUpTo(str, k, stop) = WordsUpTo(str, k, c)
        /\ Before(str, stop) = m
  BY <1>1, CommandFound, Zenon
<1> DEFINE t == Texts(str, p, n)
<1>4. t \in Seq(Seq(Chars)) /\ Len(t) = n /\ n \in Nat
  <2>1. WordsFrom(str, c, stop) \subseteq Words(str)
    BY DEF WordsFrom
  <2>2. str \in Seq(Chars) /\ InOrder(p, n, WordsFrom(str, c, stop))
    BY <1>2, <1>3
  <2>3. Texts(str, p, n) \in Seq(Seq(Chars)) /\ Len(Texts(str, p, n)) = n /\ n \in Nat
    BY <2>1, <2>2, TextsAre, Zenon
  <2> QED  BY <2>3
<1> HIDE DEF scan, argc, m, t
<1>5. scan.args = t /\ scan.stop = stop
  BY <1>3 DEF t
<1>6. n # 0 /\ Len(scan.args) = n /\ ~(n > n)
  BY <1>1, <1>3, <1>4, <1>5
<1>7. args = Append(t, NULL)
  <2>1. args = [k \in 1 .. n + 1 |-> IF k > n THEN NULL ELSE IF k \in DOMAIN t THEN t[k] ELSE Uninitialised]
    BY <1>3, <1>5
  <2>2. [k \in 1 .. n + 1 |-> IF k > n THEN NULL ELSE IF k \in DOMAIN t THEN t[k] ELSE Uninitialised]
          = Append(t, NULL)
    BY <1>4, ArgumentsAre, Zenon
  <2> QED  BY <2>1, <2>2, Zenon
<1> HIDE DEF args
<1>8. args \in Seq(Seq(Chars)) /\ Len(args) = n + 1
  <2>1. NULL \in Seq(Chars)
    BY DEF NULL
  <2> QED  BY <1>4, <1>7, <2>1, AppendProperties
<1>9. /\ commands' \in Seq(Seq(Seq(Chars))) /\ Len(commands') = m + 1
      /\ \A k \in 1 .. m : commands'[k] = commands[k]
      /\ commands'[m + 1] = args
      /\ DOMAIN commands' = 1 .. m + 1
  <2>1. /\ Append(commands, args) \in Seq(Seq(Seq(Chars))) /\ Len(Append(commands, args)) = m + 1
        /\ \A k \in 1 .. m : Append(commands, args)[k] = commands[k]
        /\ Append(commands, args)[m + 1] = args
    BY <1>2, <1>8, AppendProperties DEF m
  <2> QED  BY <1>1, <2>1, LenProperties
<1>10. \A k \in 1 .. m + 1 : k \in 1 .. m \/ k = m + 1
  BY <1>2
<1>11. pc' = "next" /\ c' = stop
  BY <1>1, <1>3, <1>5, <1>6
<1>12. TypeOK'
  <2>1. stop \in 0 .. Len(str)
    BY <1>2, <1>3
  <2>2. \A k \in 1 .. m + 1 : Len(commands'[k]) > 1
    <3>1. \A k \in 1 .. m : Len(commands[k]) > 1
      BY <1>2 DEF LinesInv, TypeOK
    <3>2. Len(args) > 1
      BY <1>4, <1>6, <1>8
    <3> QED  BY <1>9, <1>10, <3>1, <3>2
  <2> QED  BY <1>1, <1>3, <1>9, <1>11, <2>1, <2>2 DEF LinesInv, TypeOK
<1>13. HeapIs'
  <2>1. heap = {<<"input">>} \cup CallBlocks
    BY <1>1 DEF LinesInv, HeapIs
  <2> DEFINE X == UNION {CommandBlocks(k, commands[k]) : k \in 1 .. m}
             Y == UNION {CommandBlocks(k, commands'[k]) : k \in 1 .. m + 1}
  <2>2. Y = X \cup CommandBlocks(m + 1, args)
    <3>1. 1 .. m \subseteq 1 .. m + 1 /\ m + 1 \in 1 .. m + 1
      BY <1>2
    <3> QED  BY <1>9, <1>10, <3>1
  <2>3. CallBlocks = {<<"call">>} \cup X /\ CallBlocks' = {<<"call">>} \cup Y
    BY <1>2, <1>9, Zenon DEF CallBlocks
  <2> HIDE DEF X, Y
  <2>4. heap' = {<<"input">>} \cup CallBlocks'
    BY <1>1, <1>9, <2>1, <2>2, <2>3
  <2> QED  BY <1>11, <2>4 DEF HeapIs
<1>14. ParsedUpTo'
  <2>1. ASSUME NEW j \in 1 .. stop PROVE str[j] \in {"w", " ", "|"}
    <3>1. \A i \in 1 .. c : str[i] \in {"w", " ", "|"}
      BY <1>1 DEF LinesInv, ParseIs, ParsedUpTo
    <3>2. j \in 1 .. c \/ j \in c + 1 .. stop
      BY <1>2, <1>3
    <3> QED  BY <1>3, <3>1, <3>2 DEF isValidCmdChar, isspace
  <2>2. ASSUME NEW k \in 1 .. m + 1 PROVE Lists(commands'[k], str, WordsUpTo(str, k, stop))
    <3>1. CASE k \in 1 .. m
      <4>1. Lists(commands[k], str, WordsUpTo(str, k, c))
        BY <1>1, <1>2, <3>1 DEF LinesInv, ParseIs, ParsedUpTo
      <4> QED  BY <1>3, <1>9, <3>1, <4>1
    <3>2. CASE k = m + 1
      <4>1. Lists(args, str, WordsFrom(str, c, stop))
        BY <1>3, <1>6, <1>7 DEF Lists, t
      <4> QED  BY <1>3, <1>9, <3>2, <4>1
    <3> QED  BY <1>10, <3>1, <3>2
  <2> QED  BY <1>1, <1>9, <1>11, <2>1, <2>2 DEF ParsedUpTo
<1>15. ParseIs'
  <2>1. str' = trimString(input') /\ isBackground' = FALSE
    BY <1>1 DEF LinesInv, ParseIs
  <2>2. Len(commands') = Before(str', c') + 1
    BY <1>1, <1>3, <1>9, <1>11
  <2> QED  BY <1>11, <1>14, <2>1, <2>2 DEF ParseIs
<1>16. (complete' => input' = typed') /\ UndefinedOnlyIfEmpty'
  BY <1>1, <1>11 DEF LinesInv, UndefinedOnlyIfEmpty
<1> QED  BY <1>9, <1>12, <1>13, <1>15, <1>16 DEF LinesInv

\* A word begins with a word character.
LEMMA WordBegins ==
  ASSUME NEW s \in Seq(Chars)
  PROVE  \A w \in Words(s) : w[1] \in 1 .. Len(s) /\ isValidCmdChar(s[w[1]])
<1> SUFFICES ASSUME NEW w \in Words(s) PROVE w[1] \in 1 .. Len(s) /\ isValidCmdChar(s[w[1]])
  OBVIOUS
<1>1. /\ w[1] \in 1 .. Len(s) /\ w[2] \in 1 .. Len(s) /\ w[1] <= w[2]
      /\ \A i \in w[1] .. w[2] : isValidCmdChar(s[i])
  BY WordIs
<1> QED  BY <1>1

\* A command of no words has only spaces up to where the scanners stop, and
\* nothing but spaces has been read.
LEMMA EmptyFound ==
  ASSUME LinesInv, pc = "command", getValidSeqCount(str, c) = 0
  PROVE  \E stop \in c .. Len(str) :
           /\ \A j \in c + 1 .. stop : isspace(str[j])
           /\ \A w \in Words(str) : Before(str, w[1] - 1) = Before(str, c) \/ c < w[1] => stop < w[1]
           /\ ~isValidCmdChar(At(str, stop)) /\ ~isspace(At(str, stop))
           /\ Before(str, stop) = Before(str, c)
<1>1. /\ str \in Seq(Chars) /\ Len(str) \in Nat /\ c \in Nat /\ c <= Len(str)
      /\ c = 0 \/ str[c] = "|"
      /\ Len(commands) = Before(str, c)
  BY LinesAre DEF LinesInv, ParseIs
<1>2. PICK n, p, stop :
        /\ InOrder(p, n, WordsFrom(str, c, stop))
        /\ getValidSeqCount(str, c) = n
        /\ stop \in c .. Len(str)
        /\ \A j \in c + 1 .. stop : isValidCmdChar(str[j]) \/ isspace(str[j])
        /\ ~isValidCmdChar(At(str, stop)) /\ ~isspace(At(str, stop))
        /\ WordsUpTo(str, Len(commands) + 1, stop) = WordsFrom(str, c, stop)
        /\ Before(str, stop) = Len(commands)
  BY CommandFound, Zenon
<1>3. WordsFrom(str, c, stop) = {}
  <2>1. \A w \in WordsFrom(str, c, stop) : \E j \in 1 .. 0 : p[j] = w
    BY <1>2 DEF InOrder
  <2> QED  BY <2>1
<1>4. c = 0 \/ ~isValidCmdChar(str[c])
  BY <1>1 DEF isValidCmdChar
<1>5. stop \in Int /\ stop <= Len(str) /\ c <= stop
  BY <1>1, <1>2
<1>6. ASSUME NEW j \in c + 1 .. stop PROVE isspace(str[j])
  <2> SUFFICES ASSUME isValidCmdChar(str[j]) PROVE FALSE
    BY <1>2
  <2>1. j \in 1 .. Len(str) /\ c < j /\ j <= stop
    BY <1>1, <1>5
  <2>2. PICK w \in Words(str) : c < w[1] /\ w[1] <= j
    BY <1>1, <1>4, <2>1, WordCovers
  <2>3. w[1] \in Int
    BY <1>1, WordPairs
  <2>4. w[1] <= stop
    BY <1>5, <2>1, <2>2, <2>3
  <2>5. w \in WordsFrom(str, c, stop)
    BY <2>2, <2>4 DEF WordsFrom
  <2> QED  BY <1>3, <2>5
<1>7. ASSUME NEW w \in Words(str), Before(str, w[1] - 1) = Before(str, c) \/ c < w[1]
      PROVE  stop < w[1]
  <2>1. w[1] \in Int
    BY <1>1, WordPairs
  <2> SUFFICES ASSUME w[1] <= stop PROVE FALSE
    BY <1>5, <2>1
  <2>2. CASE c < w[1]
    <3>1. w \in WordsFrom(str, c, stop)
      BY <2>2 DEF WordsFrom
    <3> QED  BY <1>3, <3>1
  <2>3. CASE Before(str, w[1] - 1) = Before(str, c)
    <3>1. Before(str, c) \in Nat
      BY <1>1, BeforeIs
    <3>2. Before(str, w[1] - 1) = (Len(commands) + 1) - 1
      BY <1>1, <2>3, <3>1
    <3>3. w \in WordsOfStage(str, Len(commands) + 1)
      BY <1>1, <3>2, StageIs
    <3>4. w \in WordsUpTo(str, Len(commands) + 1, stop)
      BY <3>3 DEF WordsUpTo
    <3> QED  BY <1>2, <1>3, <3>4
  <2> QED  BY <1>7, <2>2, <2>3
<1> QED  BY <1>1, <1>2, <1>6, <1>7

\* A line with a command of no words is no call.
LEMMA EmptyIsNoCall ==
  ASSUME LinesInv, pc = "command", getValidSeqCount(str, c) = 0
  PROVE  ~IsCall(str)
<1> SUFFICES ASSUME IsCall(str) PROVE FALSE
  OBVIOUS
<1>1. str \in Seq(Chars) /\ Len(str) \in Nat /\ c \in Nat /\ c <= Len(str) /\ DOMAIN str = 1 .. Len(str)
  BY LinesAre, LenProperties DEF LinesInv
<1> DEFINE L == Len(str)
           m == Before(str, c)
<1>2. PICK stop \in c .. L :
        /\ \A w \in Words(str) : Before(str, w[1] - 1) = m \/ c < w[1] => stop < w[1]
        /\ ~isValidCmdChar(At(str, stop)) /\ ~isspace(At(str, stop))
        /\ Before(str, stop) = m
  BY EmptyFound
<1>3. m \in Nat /\ m + 1 \in Stages(str)
  <2>1. c \in Int /\ L \in Int /\ c <= L
    BY <1>1
  <2>2. m <= Before(str, L) /\ m \in Nat /\ Before(str, L) \in Nat /\ Cardinality(Bars(str)) = Before(str, L)
    BY <1>1, <2>1, BeforeIs
  <2> HIDE DEF m
  <2> QED  BY <2>2 DEF Stages
<1>4. PICK w : w \in WordsOfStage(str, m + 1)
  BY <1>3 DEF IsCall
<1>5. w \in Words(str) /\ Before(str, w[1] - 1) = (m + 1) - 1
  BY <1>1, <1>4, StageIs
<1>6. w[1] \in 1 .. L /\ isValidCmdChar(str[w[1]])
  BY <1>1, <1>5, WordBegins
<1>7. Before(str, w[1] - 1) = m /\ stop < w[1]
  <2>1. Before(str, w[1] - 1) = m
    <3> HIDE DEF m
    <3> QED  BY <1>3, <1>5
  <2> QED  BY <1>2, <1>5, <2>1
<1> HIDE DEF m
<1>8. stop \in 0 .. L /\ stop \in Int /\ w[1] \in Int /\ stop # L /\ stop + 1 <= w[1]
  <2> HIDE DEF L
  <2>1. L \in Nat
    BY <1>1 DEF L
  <2> QED  BY <1>1, <1>2, <1>6, <1>7, <2>1
<1>9. stop + 1 \in 1 .. L /\ At(str, stop) = str[stop + 1]
  BY <1>1, <1>8, AtNext
<1>10. stop + 1 # w[1]
  BY <1>2, <1>6, <1>9
<1>11. stop + 1 < w[1]
  BY <1>8, <1>10
<1>12. str[stop + 1] \in Chars
  BY <1>1, <1>9, ElementOfSeq
<1>13. CASE str[stop + 1] = "|"
  <2>1. stop + 1 \in Int /\ w[1] - 1 \in Int /\ stop + 1 <= w[1] - 1 /\ (stop + 1) - 1 = stop
    BY <1>8, <1>11
  <2>2. Before(str, stop + 1) = m + 1
    BY <1>1, <1>2, <1>9, <1>13, <2>1, BeforeIs
  <2>3. Before(str, stop + 1) <= Before(str, w[1] - 1)
    BY <1>1, <2>1, BeforeIs
  <2> QED  BY <1>3, <1>7, <2>2, <2>3
<1>14. CASE str[stop + 1] = "&"
  <2>1. isspace(str[w[1]])
    BY <1>1, <1>6, <1>9, <1>11, <1>14 DEF IsCall
  <2> QED  BY <1>6, <2>1 DEF isspace, isValidCmdChar
<1>15. CASE str[stop + 1] = "?"
  BY <1>1, <1>9, <1>15 DEF IsCall, ToSet
<1> QED  BY <1>2, <1>9, <1>12, <1>13, <1>14, <1>15 DEF Chars, isValidCmdChar, isspace

\* ... and the stage without words is one of the line that was read.
LEMMA EmptyIsUndefined ==
  ASSUME LinesInv, pc = "command", getValidSeqCount(str, c) = 0
  PROVE  \E k \in {0} \cup Bars(input) : \A w \in Words(input) :
           w[1] > k => \E i \in k + 1 .. w[1] : ~isspace(input[i]) /\ ~isValidCmdChar(input[i])
<1>1. /\ str \in Seq(Chars) /\ Len(str) \in Nat /\ c \in Nat /\ c <= Len(str)
      /\ c = 0 \/ str[c] = "|"
      /\ input \in Seq(Chars) /\ str = trimString(input)
  BY LinesAre DEF LinesInv, ParseIs
<1> DEFINE n == Len(str)
           L == Len(input)
<1>2. PICK stop \in c .. n :
        /\ \A w \in Words(str) : Before(str, w[1] - 1) = Before(str, c) \/ c < w[1] => stop < w[1]
        /\ ~isValidCmdChar(At(str, stop)) /\ ~isspace(At(str, stop))
  BY EmptyFound
<1>3. PICK o : Trimmed(input, str, o)
  BY <1>1, TrimIs
<1>4. /\ o \in Nat /\ n \in Nat /\ L \in Nat /\ o + n <= L /\ stop \in 0 .. n /\ c <= stop
      /\ \A i \in 1 .. n : str[i] = input[o + i]
      /\ DOMAIN input = 1 .. L
  BY <1>1, <1>2, <1>3, LenProperties DEF Trimmed
<1> DEFINE k == IF c = 0 THEN 0 ELSE o + c
<1>5. k \in {0} \cup Bars(input)
  <2>1. CASE c # 0
    <3> HIDE DEF n, L
    <3>1. c \in 1 .. n /\ o + c \in 1 .. L
      BY <1>1, <1>4, <2>1 DEF n
    <3>2. input[o + c] = "|"
      BY <1>1, <1>4, <2>1, <3>1
    <3> QED  BY <1>4, <2>1, <3>1, <3>2 DEF Bars
  <2> QED  BY <2>1
<1>6. ASSUME NEW w \in Words(input), w[1] > k
      PROVE  \E i \in k + 1 .. w[1] : ~isspace(input[i]) /\ ~isValidCmdChar(input[i])
  <2> DEFINE x == <<w[1] - o, w[2] - o>>
             i == o + (stop + 1)
  <2>1. x \in Words(str) /\ x[1] = w[1] - o /\ w[1] \in Int
    BY <1>1, <1>3, TrimWords, WordPairs
  <2> HIDE DEF x
  <2>2. x[1] \in 1 .. n
    BY <1>1, <2>1, WordBegins
  <2> HIDE DEF n, L
  <2>3. c < x[1]
    <3>1. CASE c = 0
      BY <2>2, <3>1
    <3>2. CASE c # 0
      <4>1. o + c < w[1]
        BY <1>1, <1>4, <1>6, <2>1, <3>2
      <4> QED  BY <1>1, <1>4, <2>1, <4>1
    <3> QED  BY <3>1, <3>2
  <2>4. stop < x[1]
    BY <1>2, <2>1, <2>3
  <2>5. stop # n /\ stop + 1 \in 1 .. n
    BY <1>4, <2>2, <2>4
  <2>6. At(str, stop) = str[stop + 1] /\ str[stop + 1] = input[i]
    BY <1>1, <1>4, <2>5, AtNext DEF n
  <2>7. i \in k + 1 .. w[1]
    BY <1>1, <1>4, <2>1, <2>2, <2>4
  <2> QED  BY <1>2, <2>6, <2>7
<1> HIDE DEF k
<1> QED  BY <1>5, <1>6

\* The last part of command_new: a command of no words.
LEMMA EmptyCommandKeeps ==
  ASSUME LinesInv, EmptyCommand
  PROVE  LinesInv'
<1>1. /\ pc = "command" /\ getValidSeqCount(str, c) = 0 /\ pc' \in {"reject", "undefined"}
      /\ typed' = typed /\ complete' = complete /\ input' = input
      /\ str' = str /\ c' = c /\ commands' = commands /\ isBackground' = isBackground
      /\ heap' = heap
  BY DEF EmptyCommand, reading, call
<1>2. TypeOK' /\ commands' \in Seq(Seq(Seq(Chars))) /\ (complete' => input' = typed')
  BY <1>1 DEF LinesInv, TypeOK
<1>3. HeapIs'
  BY <1>1 DEF LinesInv, HeapIs, CallBlocks
<1>4. ParseIs'
  <2>1. ~IsCall(str)
    BY <1>1, EmptyIsNoCall
  <2> QED  BY <1>1, <2>1 DEF LinesInv, ParseIs
<1>5. UndefinedOnlyIfEmpty'
  <2>1. \E k \in {0} \cup Bars(input) : \A w \in Words(input) :
          w[1] > k => \E i \in k + 1 .. w[1] : ~isspace(input[i]) /\ ~isValidCmdChar(input[i])
    BY <1>1, EmptyIsUndefined
  <2> QED  BY <1>1, <2>1, Zenon DEF UndefinedOnlyIfEmpty
<1> QED  BY <1>2, <1>3, <1>4, <1>5 DEF LinesInv

\* A bar ends a stage.
LEMMA PipeKeeps ==
  ASSUME LinesInv, Pipe
  PROVE  LinesInv'
<1>1. /\ pc = "next" /\ At(str, c) = "|" /\ c' = c + 1 /\ pc' = "command"
      /\ typed' = typed /\ complete' = complete /\ input' = input
      /\ str' = str /\ commands' = commands /\ isBackground' = isBackground
      /\ heap' = heap
  BY DEF Pipe, reading
<1>2. str \in Seq(Chars) /\ Len(str) \in Nat /\ c \in Nat /\ c <= Len(str)
  BY LinesAre DEF LinesInv
<1>3. c + 1 \in 1 .. Len(str) /\ c + 1 \in 0 .. Len(str) /\ str[c + 1] = "|"
  <2>1. c # Len(str)
    <3>1. CASE c = Len(str)
      <4>1. At(str, c) = NUL
        BY <1>2, <3>1, AtIs
      <4> QED  BY <1>1, <4>1 DEF NUL
    <3> QED  BY <3>1
  <2>2. c \in 0 .. Len(str)
    BY <1>2
  <2>3. c + 1 \in 1 .. Len(str) /\ c + 1 \in 0 .. Len(str) /\ At(str, c) = str[c + 1]
    BY <1>2, <2>1, <2>2, AtNext
  <2> QED  BY <1>1, <2>3
<1>4. TypeOK' /\ commands' \in Seq(Seq(Seq(Chars))) /\ (complete' => input' = typed')
  BY <1>1, <1>3 DEF LinesInv, TypeOK
<1>5. HeapIs'
  BY <1>1 DEF LinesInv, HeapIs, CallBlocks
<1>6. ParsedUpTo'
  <2>1. /\ \A j \in 1 .. c : str[j] \in {"w", " ", "|"}
        /\ \A k \in DOMAIN commands : Lists(commands[k], str, WordsUpTo(str, k, c))
    BY <1>1 DEF LinesInv, ParseIs, ParsedUpTo
  <2>2. \A k : WordsUpTo(str, k, c + 1) = WordsUpTo(str, k, c)
    <3>1. ~isValidCmdChar(str[c + 1])
      BY <1>3 DEF isValidCmdChar
    <3> QED  BY <1>2, <1>3, <3>1, UpToNext
  <2>3. \A j \in 1 .. c + 1 : j \in 1 .. c \/ j = c + 1
    BY <1>2
  <2>4. \A j \in 1 .. c + 1 : str[j] \in {"w", " ", "|"}
    BY <1>3, <2>1, <2>3
  <2> QED  BY <1>1, <2>1, <2>2, <2>4 DEF ParsedUpTo
<1>7. ParseIs'
  <2>1. str' = trimString(input') /\ isBackground' = FALSE /\ Len(commands) = Before(str, c) + 1
    BY <1>1 DEF LinesInv, ParseIs
  <2>2. Before(str, c + 1) = Before(str, c) + 1
    BY <1>2, <1>3, BeforeBar
  <2>3. Len(commands') = Before(str', c')
    BY <1>1, <2>1, <2>2
  <2>4. c' = 0 \/ str'[c'] = "|"
    BY <1>1, <1>3
  <2> QED  BY <1>1, <1>6, <2>1, <2>3, <2>4 DEF ParseIs
<1>8. UndefinedOnlyIfEmpty'
  BY <1>1 DEF UndefinedOnlyIfEmpty
<1> QED  BY <1>4, <1>5, <1>7, <1>8 DEF LinesInv

\* Behind the last stage there is the end of the line ...
LEMMA EndOfLineKeeps ==
  ASSUME LinesInv, EndOfLine
  PROVE  LinesInv'
<1>1. /\ pc = "next" /\ At(str, c) = NUL /\ pc' = "run"
      /\ typed' = typed /\ complete' = complete /\ input' = input
      /\ str' = str /\ c' = c /\ commands' = commands /\ isBackground' = isBackground
      /\ heap' = heap
  BY DEF EndOfLine, reading, call
<1>2. str \in Seq(Chars) /\ c \in 0 .. Len(str)
  BY LinesAre DEF LinesInv, TypeOK
<1>3. c = Len(str)
  <2> SUFFICES ASSUME c # Len(str) PROVE FALSE
    OBVIOUS
  <2>1. c + 1 \in 1 .. Len(str) /\ At(str, c) = str[c + 1]
    BY <1>2, AtNext
  <2>2. At(str, c) \in Chars
    BY <1>2, <2>1, ElementOfSeq
  <2> QED  BY <1>1, <2>2 DEF Chars, NUL
<1>4. TypeOK' /\ commands' \in Seq(Seq(Seq(Chars))) /\ (complete' => input' = typed')
  BY <1>1 DEF LinesInv, TypeOK
<1>5. HeapIs'
  BY <1>1 DEF LinesInv, HeapIs, CallBlocks
<1>6. ParsedUpTo'
  BY <1>1 DEF LinesInv, ParseIs, ParsedUpTo
<1>7. ParseIs'
  <2>1. str' = trimString(input') /\ isBackground' = FALSE /\ Len(commands') = Before(str', c') + 1
    BY <1>1 DEF LinesInv, ParseIs
  <2> QED  BY <1>1, <1>3, <1>6, <2>1 DEF ParseIs
<1>8. UndefinedOnlyIfEmpty'
  BY <1>1 DEF UndefinedOnlyIfEmpty
<1> QED  BY <1>4, <1>5, <1>7, <1>8 DEF LinesInv

\* ... or an ampersand that is the last character.
LEMMA BackgroundKeeps ==
  ASSUME LinesInv, Background
  PROVE  LinesInv'
<1>1. /\ pc = "next" /\ At(str, c) = "&" /\ At(str, c + 1) = NUL /\ pc' = "run"
      /\ typed' = typed /\ complete' = complete /\ input' = input
      /\ str' = str /\ c' = c /\ commands' = commands /\ isBackground' = TRUE
      /\ heap' = heap
  BY DEF Background, reading
<1>2. str \in Seq(Chars) /\ c \in 0 .. Len(str)
  BY LinesAre DEF LinesInv, TypeOK
<1>3. c # Len(str)
  <2>1. CASE c = Len(str)
    <3>1. At(str, c) = NUL
      <4>1. c \in Int /\ c >= Len(str)
        BY <1>2, <2>1, AtNext
      <4> QED  BY <1>2, <4>1, AtIs
    <3> QED  BY <1>1, <3>1 DEF NUL
  <2> QED  BY <2>1
<1>4. c + 1 \in 1 .. Len(str) /\ c + 1 \in 0 .. Len(str) /\ At(str, c) = str[c + 1]
  BY <1>2, <1>3, AtNext
<1>5. c + 1 = Len(str)
  <2> SUFFICES ASSUME c + 1 # Len(str) PROVE FALSE
    OBVIOUS
  <2>1. (c + 1) + 1 \in 1 .. Len(str) /\ At(str, c + 1) = str[(c + 1) + 1]
    BY <1>2, <1>4, AtNext
  <2>2. At(str, c + 1) \in Chars
    BY <1>2, <2>1, ElementOfSeq
  <2> QED  BY <1>1, <2>2 DEF Chars, NUL
<1>6. TypeOK' /\ commands' \in Seq(Seq(Seq(Chars))) /\ (complete' => input' = typed')
  BY <1>1 DEF LinesInv, TypeOK
<1>7. HeapIs'
  BY <1>1 DEF LinesInv, HeapIs, CallBlocks
<1>8. ParsedUpTo'
  BY <1>1 DEF LinesInv, ParseIs, ParsedUpTo
<1>9. ParseIs'
  <2>1. str' = trimString(input') /\ Len(commands') = Before(str', c') + 1
    BY <1>1 DEF LinesInv, ParseIs
  <2> QED  BY <1>1, <1>4, <1>5, <1>8, <2>1 DEF ParseIs
<1>10. UndefinedOnlyIfEmpty'
  BY <1>1 DEF UndefinedOnlyIfEmpty
<1> QED  BY <1>6, <1>7, <1>9, <1>10 DEF LinesInv

\* Anything else is no call: a character without meaning, or an ampersand with
\* something behind it.
LEMMA InvalidKeeps ==
  ASSUME LinesInv, Invalid
  PROVE  LinesInv'
<1>1. /\ pc = "next" /\ At(str, c) \notin {"|", NUL} /\ ~(At(str, c) = "&" /\ At(str, c + 1) = NUL)
      /\ pc' = "reject"
      /\ typed' = typed /\ complete' = complete /\ input' = input
      /\ str' = str /\ c' = c /\ commands' = commands /\ isBackground' = isBackground
      /\ heap' = heap
  BY DEF Invalid, reading, call
<1>2. str \in Seq(Chars) /\ c \in 0 .. Len(str) /\ input \in Seq(Chars) /\ str = trimString(input)
  BY <1>1, LinesAre DEF LinesInv, TypeOK, ParseIs
<1>3. c # Len(str)
  <2>1. CASE c = Len(str)
    <3>1. c \in Int /\ c >= Len(str)
      BY <1>2, <2>1, AtNext
    <3>2. At(str, c) = NUL
      BY <1>2, <3>1, AtIs
    <3> QED  BY <1>1, <3>2
  <2> QED  BY <2>1
<1>4. c + 1 \in 1 .. Len(str) /\ c + 1 \in 0 .. Len(str) /\ At(str, c) = str[c + 1]
      /\ Len(str) \in Nat
  BY <1>2, <1>3, AtNext
<1>5. str[c + 1] \in {"&", "?"}
  <2>1. str[c + 1] \in Chars
    BY <1>2, <1>4, ElementOfSeq
  <2>2. ~isspace(At(str, c)) /\ ~isValidCmdChar(At(str, c))
    BY <1>1 DEF LinesInv, TypeOK
  <2> QED  BY <1>1, <1>4, <2>1, <2>2 DEF Chars, isspace, isValidCmdChar
<1>6. ~IsCall(str)
  <2> SUFFICES ASSUME IsCall(str) PROVE FALSE
    OBVIOUS
  <2>1. DOMAIN str = 1 .. Len(str)
    BY <1>2, LenProperties
  <2>2. CASE str[c + 1] = "?"
    BY <1>4, <2>1, <2>2 DEF IsCall, ToSet
  <2>3. CASE str[c + 1] = "&"
    <3>1. c + 1 # Len(str)
      <4>1. CASE c + 1 = Len(str)
        <5>1. At(str, c + 1) = NUL
          <6>1. c + 1 \in Int /\ c + 1 >= Len(str)
            BY <1>4, <4>1
          <6> QED  BY <1>2, <6>1, AtIs
        <5> QED  BY <1>1, <1>4, <2>3, <5>1
      <4> QED  BY <4>1
    <3> DEFINE n == Len(str)
    <3>2. n # 0
      BY <1>4
    <3>3. ~isspace(str[n])
      BY <1>2, <3>2, TrimIs DEF Trimmed
    <3> HIDE DEF n
    <3>4. n \in 1 .. n /\ c + 1 < n /\ c + 1 \in 1 .. n
      BY <1>4, <3>1, <3>2 DEF n
    <3>5. isspace(str[n])
      BY <2>1, <2>3, <3>4 DEF IsCall, n
    <3> QED  BY <3>3, <3>5
  <2> QED  BY <1>5, <2>2, <2>3
<1>7. TypeOK' /\ commands' \in Seq(Seq(Seq(Chars))) /\ (complete' => input' = typed')
  BY <1>1 DEF LinesInv, TypeOK
<1>8. HeapIs'
  BY <1>1 DEF LinesInv, HeapIs, CallBlocks
<1>9. ParseIs'
  BY <1>1, <1>2, <1>6 DEF ParseIs
<1>10. UndefinedOnlyIfEmpty'
  BY <1>1 DEF UndefinedOnlyIfEmpty
<1> QED  BY <1>7, <1>8, <1>9, <1>10 DEF LinesInv

\* What call_free frees is not the line that was read.
LEMMA InputIsNoBlock == <<"input">> \notin CallBlocks
<1>1. ASSUME NEW k, NEW args PROVE <<"input">> \notin CommandBlocks(k, args)
  <2> DEFINE x == <<"input">>
  <2>1. x[1] = "input"
    OBVIOUS
  <2>2. <<"command", k>>[1] = "command" /\ <<"args", k>>[1] = "args"
    OBVIOUS
  <2>3. \A i : <<"arg", k, i>>[1] = "arg"
    OBVIOUS
  <2> HIDE DEF x
  <2>4. \A y \in CommandBlocks(k, args) : y[1] \in {"command", "args", "arg"}
    BY <2>2, <2>3 DEF CommandBlocks
  <2>5. x \notin CommandBlocks(k, args)
    BY <2>1, <2>4
  <2> QED  BY <2>5 DEF x
<1>2. <<"input">> # <<"call">>
  OBVIOUS
<1> QED  BY <1>1, <1>2 DEF CallBlocks

\* call_free frees what is allocated, once, and leaves the line.
LEMMA FreeKeeps ==
  ASSUME LinesInv, pc \in {"run", "reject"}, FreeThen(CallBlocks, "release"),
         UNCHANGED <<reading, call>>
  PROVE  LinesInv'
<1>1. heap = {<<"input">>} \cup CallBlocks
  BY DEF LinesInv, HeapIs
<1>2. pc' = "release" /\ heap' = {<<"input">>}
  BY <1>1, InputIsNoBlock DEF FreeThen
<1>3. /\ typed' = typed /\ complete' = complete /\ input' = input
      /\ str' = str /\ c' = c /\ commands' = commands /\ isBackground' = isBackground
  BY DEF reading, call
<1>4. TypeOK' /\ commands' \in Seq(Seq(Seq(Chars))) /\ (complete' => input' = typed')
  BY <1>2, <1>3 DEF LinesInv, TypeOK
<1>5. HeapIs' /\ ParseIs'
  BY <1>2 DEF HeapIs, ParseIs
<1>6. UndefinedOnlyIfEmpty'
  BY <1>2 DEF UndefinedOnlyIfEmpty
<1> QED  BY <1>4, <1>5, <1>6 DEF LinesInv

\* The end of the shell.
LEMMA ExitShellKeeps ==
  ASSUME LinesInv, ExitShell
  PROVE  LinesInv'
<1>1. /\ pc' = "ended"
      /\ typed' = typed /\ complete' = complete /\ input' = input
      /\ str' = str /\ c' = c /\ commands' = commands /\ isBackground' = isBackground
  BY DEF ExitShell, reading, call
<1>2. TypeOK' /\ commands' \in Seq(Seq(Seq(Chars))) /\ (complete' => input' = typed')
  BY <1>1 DEF LinesInv, TypeOK
<1>3. HeapIs' /\ ParseIs' /\ UndefinedOnlyIfEmpty'
  BY <1>1 DEF HeapIs, ParseIs, UndefinedOnlyIfEmpty
<1> QED  BY <1>2, <1>3 DEF LinesInv

\* The line is freed, once, and nothing is left.
LEMMA ReleaseKeeps ==
  ASSUME LinesInv, Release
  PROVE  LinesInv'
<1>1. heap = {<<"input">>}
  BY DEF LinesInv, HeapIs, Release
<1>2. /\ pc' = "prompt" /\ heap' = {}
      /\ typed' = <<>> /\ complete' = TRUE /\ input' = <<>>
      /\ str' = <<>> /\ c' = 0 /\ commands' = <<>> /\ isBackground' = FALSE
  BY <1>1 DEF Release, FreeThen
<1>3. <<>> \in Lines /\ <<>> \in Seq(Seq(Seq(Chars))) /\ Len(<<>>) = 0
  <2>1. <<>> \in Seq(Chars) /\ <<>> \in Seq(Seq(Seq(Chars))) /\ Len(<<>>) = 0 /\ 0 <= MaxLength
    BY MaxLengthAssumption
  <2> QED  BY <2>1, LineIs
<1>4. TypeOK'
  <2>1. pc' # "next" /\ DOMAIN commands' = {} /\ c' \in 0 .. Len(str')
    BY <1>2
  <2> QED  BY <1>2, <1>3, <2>1 DEF TypeOK
<1>5. HeapIs' /\ ParseIs' /\ UndefinedOnlyIfEmpty'
  BY <1>2 DEF HeapIs, ParseIs, UndefinedOnlyIfEmpty
<1> QED  BY <1>2, <1>3, <1>4, <1>5 DEF LinesInv

\* readInput.
LEMMA ReadInputKeeps ==
  ASSUME LinesInv, ReadInput
  PROVE  LinesInv'
<1>1. /\ pc = "prompt" /\ pc' \in {"release", "call"} /\ heap' = heap \cup {<<"input">>}
      /\ str' = str /\ c' = c /\ commands' = commands /\ isBackground' = isBackground
  BY DEF ReadInput, call
<1>2. typed' \in Lines /\ complete' \in BOOLEAN /\ input' \in Lines /\ (complete' => input' = typed')
  <2>1. CASE complete' = TRUE /\ typed' \in Lines /\ input' = typed'
    BY <2>1
  <2>2. CASE complete' = FALSE /\ typed' \in Lines \ {<<>>} /\ input' = Front(typed')
    <3> DEFINE s == typed'
    <3>1. s \in Seq(Chars) /\ s # <<>> /\ Len(s) <= MaxLength
      BY <2>2, LineIs
    <3> HIDE DEF s
    <3>2. Front(s) \in Seq(Chars) /\ Len(Front(s)) = Len(s) - 1 /\ Len(s) \in Nat
      <4> DEFINE n == Len(s)
      <4>1. n \in Nat \ {0}
        BY <3>1, EmptySeq
      <4>2. \A i \in 1 .. n : s[i] \in Chars
        BY <3>1, ElementOfSeq
      <4> HIDE DEF n
      <4>3. \A i \in 1 .. n - 1 : i \in 1 .. n
        BY <4>1
      <4>4. 1 \in Int /\ n - 1 \in Int /\ (1 <= n - 1 => (n - 1) - 1 + 1 = n - 1) /\ (~(1 <= n - 1) => n - 1 = 0)
        BY <4>1
      <4>5. \A i \in 1 .. n - 1 : s[i] \in Chars
        BY <4>2, <4>3
      <4>6. /\ SubSeq(s, 1, n - 1) \in Seq(Chars)
            /\ Len(SubSeq(s, 1, n - 1)) = IF 1 <= n - 1 THEN (n - 1) - 1 + 1 ELSE 0
        BY <4>4, <4>5, SubSeqProperties
      <4>7. Len(SubSeq(s, 1, n - 1)) = n - 1
        BY <4>4, <4>6
      <4> QED  BY <4>1, <4>6, <4>7 DEF Front, n
    <3>3. Len(Front(s)) <= MaxLength
      BY <3>1, <3>2, MaxLengthAssumption
    <3>4. Front(s) \in Lines
      BY <3>2, <3>3, LineIs
    <3> QED  BY <2>2, <3>4 DEF s
  <2>3. CASE complete' = FALSE /\ typed' = <<>> /\ input' \in Lines
    <3>1. <<>> \in Seq(Chars) /\ Len(<<>>) <= MaxLength
      BY MaxLengthAssumption
    <3> QED  BY <2>3, <3>1, LineIs
  <2> QED  BY <2>1, <2>2, <2>3 DEF ReadInput
<1>3. heap' = {<<"input">>} /\ c = 0 /\ commands = <<>> /\ isBackground = FALSE
  BY <1>1 DEF LinesInv, HeapIs, ParseIs
<1>4. TypeOK' /\ commands' \in Seq(Seq(Seq(Chars)))
  BY <1>1, <1>2 DEF LinesInv, TypeOK
<1>5. HeapIs' /\ ParseIs' /\ UndefinedOnlyIfEmpty'
  BY <1>1, <1>3 DEF HeapIs, ParseIs, UndefinedOnlyIfEmpty
<1> QED  BY <1>2, <1>4, <1>5 DEF LinesInv

\* The beginning of call_new.
LEMMA CallNewKeeps ==
  ASSUME LinesInv, CallNew
  PROVE  LinesInv'
<1>1. /\ pc = "call" /\ str' = trimString(input) /\ heap' = heap \cup {<<"call">>} /\ pc' = "command"
      /\ typed' = typed /\ complete' = complete /\ input' = input
      /\ c' = c /\ commands' = commands /\ isBackground' = isBackground
  BY DEF CallNew, reading
<1>2. heap = {<<"input">>} /\ c = 0 /\ commands = <<>> /\ isBackground = FALSE
  BY <1>1 DEF LinesInv, HeapIs, ParseIs
<1>3. str' \in Lines /\ str' \in Seq(Chars) /\ Len(str') \in Nat
  <2>1. str' \in Lines
    BY <1>1, LinesAre DEF LinesInv
  <2>2. str' \in Seq(Chars)
    BY <2>1, LineIs
  <2> QED  BY <2>1, <2>2, LenProperties
<1>4. TypeOK' /\ commands' \in Seq(Seq(Seq(Chars))) /\ (complete' => input' = typed')
  <2>1. c' \in 0 .. Len(str') /\ DOMAIN commands' = {}
    BY <1>1, <1>2, <1>3
  <2> QED  BY <1>1, <1>3, <2>1 DEF LinesInv, TypeOK
<1>5. HeapIs'
  <2>1. CallBlocks' = {<<"call">>}
    BY <1>1, <1>2 DEF CallBlocks
  <2> QED  BY <1>1, <1>2, <2>1 DEF HeapIs
<1>6. ParseIs'
  <2>1. 1 .. c' = {} /\ DOMAIN commands' = {} /\ Len(commands') = 0
    BY <1>1, <1>2
  <2>2. ParsedUpTo'
    BY <2>1 DEF ParsedUpTo
  <2>3. Before(str', c') = 0
    BY <1>1, <1>2, <1>3, BeforeIs
  <2> QED  BY <1>1, <1>2, <2>1, <2>2, <2>3 DEF ParseIs
<1>7. UndefinedOnlyIfEmpty'
  BY <1>1 DEF UndefinedOnlyIfEmpty
<1> QED  BY <1>4, <1>5, <1>6, <1>7 DEF LinesInv

\* The invariant holds initially and is preserved by every step.
LEMMA InvInit == Init => LinesInv
<1> SUFFICES ASSUME Init PROVE LinesInv
  OBVIOUS
<1>1. /\ pc = "prompt" /\ heap = {}
      /\ typed = <<>> /\ complete = TRUE /\ input = <<>>
      /\ str = <<>> /\ c = 0 /\ commands = <<>> /\ isBackground = FALSE
  BY DEF Init
<1>2. <<>> \in Lines /\ <<>> \in Seq(Seq(Seq(Chars))) /\ Len(<<>>) = 0
  <2>1. <<>> \in Seq(Chars) /\ <<>> \in Seq(Seq(Seq(Chars))) /\ Len(<<>>) = 0 /\ 0 <= MaxLength
    BY MaxLengthAssumption
  <2> QED  BY <2>1, LineIs
<1>3. TypeOK
  <2>1. pc # "next" /\ DOMAIN commands = {} /\ c \in 0 .. Len(str)
    BY <1>1
  <2> QED  BY <1>1, <1>2, <2>1 DEF TypeOK
<1>4. HeapIs /\ ParseIs /\ UndefinedOnlyIfEmpty
  BY <1>1 DEF HeapIs, ParseIs, UndefinedOnlyIfEmpty
<1> QED  BY <1>1, <1>2, <1>3, <1>4 DEF LinesInv

\* ... one lemma for each action.
LEMMA InvNext == LinesInv /\ [Next]_vars => LinesInv'
<1> SUFFICES ASSUME LinesInv, [Next]_vars PROVE LinesInv'
  OBVIOUS
<1>1. ASSUME UNCHANGED vars PROVE LinesInv'
  <2>1. /\ pc' = pc /\ heap' = heap
        /\ typed' = typed /\ complete' = complete /\ input' = input
        /\ str' = str /\ c' = c /\ commands' = commands /\ isBackground' = isBackground
    BY <1>1 DEF vars, reading, call
  <2>2. TypeOK' /\ commands' \in Seq(Seq(Seq(Chars))) /\ (complete' => input' = typed')
    BY <2>1 DEF LinesInv, TypeOK
  <2>3. HeapIs'
    BY <2>1 DEF LinesInv, HeapIs, CallBlocks
  <2>4. ParseIs'
    BY <2>1 DEF LinesInv, ParseIs, ParsedUpTo
  <2>5. UndefinedOnlyIfEmpty'
    BY <2>1 DEF LinesInv, UndefinedOnlyIfEmpty
  <2> QED  BY <2>2, <2>3, <2>4, <2>5 DEF LinesInv
<1>2. CASE ReadInput  BY <1>2, ReadInputKeeps
<1>3. CASE CallNew  BY <1>3, CallNewKeeps
<1>4. CASE CommandNew  BY <1>4, CommandNewKeeps
<1>5. CASE EmptyCommand  BY <1>5, EmptyCommandKeeps
<1>6. CASE Pipe  BY <1>6, PipeKeeps
<1>7. CASE Background  BY <1>7, BackgroundKeeps
<1>8. CASE Invalid  BY <1>8, InvalidKeeps
<1>9. CASE EndOfLine  BY <1>9, EndOfLineKeeps
<1>10. CASE Reject  BY <1>10, FreeKeeps DEF Reject
<1>11. CASE RunCall  BY <1>11, FreeKeeps DEF RunCall
<1>12. CASE ExitShell  BY <1>12, ExitShellKeeps
<1>13. CASE Release  BY <1>13, ReleaseKeeps
<1>14. CASE Over  BY <1>1, <1>14 DEF Over
<1> QED
  BY <1>1, <1>2, <1>3, <1>4, <1>5, <1>6, <1>7, <1>8, <1>9, <1>10, <1>11, <1>12, <1>13, <1>14 DEF Next

\* When the whole line has been interpreted the arrays list all of its words.
LEMMA RunIsCall ==
  ASSUME LinesInv, pc = "run", complete
  PROVE  /\ IsCall(typed)
         /\ commands = [k \in Stages(typed) |-> ArgumentArray(typed, k)]
         /\ isBackground <=> "&" \in ToSet(typed)
<1> DEFINE L == Len(str)
           m == Len(commands)
<1>1. /\ str \in Seq(Chars) /\ typed \in Seq(Chars) /\ L \in Nat /\ c \in Nat /\ c <= L
      /\ DOMAIN str = 1 .. L /\ commands \in Seq(Seq(Seq(Chars))) /\ DOMAIN commands = 1 .. m /\ m \in Nat
  BY LinesAre, LenProperties DEF LinesInv
<1>2. /\ str = trimString(typed)
      /\ \A j \in 1 .. c : str[j] \in {"w", " ", "|"}
      /\ \A k \in DOMAIN commands : Lists(commands[k], str, WordsUpTo(str, k, c))
      /\ m = Before(str, c) + 1
      /\ \/ c = L /\ isBackground = FALSE
         \/ c + 1 = L /\ str[c + 1] = "&" /\ isBackground = TRUE
  BY DEF LinesInv, ParseIs, ParsedUpTo
<1>3. PICK o : Trimmed(typed, str, o)
  BY <1>1, <1>2, TrimIs
<1>4. /\ c = L => c + 1 # L
      /\ c + 1 = L => str[c + 1] = "&"
      /\ \A j \in 1 .. L : j \in 1 .. c \/ (c + 1 = L /\ j = L /\ j = c + 1)
  <2>1. c \in Nat /\ L \in Nat /\ (c = L \/ c + 1 = L)
    BY <1>1, <1>2
  <2> HIDE DEF L
  <2>2. /\ c = L => c + 1 # L
        /\ \A j \in 1 .. L : j \in 1 .. c \/ (c + 1 = L /\ j = L /\ j = c + 1)
    BY <2>1
  <2>3. c + 1 = L => str[c + 1] = "&"
    BY <1>2, <2>2
  <2> QED  BY <2>2, <2>3
<1>5. \A k : WordsUpTo(str, k, c) = WordsOfStage(str, k)
  <2>1. CASE c = L
    BY <1>1, <2>1, UpToEnd
  <2>2. CASE c + 1 = L /\ str[c + 1] = "&"
    <3>1. c + 1 \in 1 .. L /\ ~isValidCmdChar(str[c + 1])
      BY <1>1, <2>2 DEF isValidCmdChar
    <3>2. \A k : WordsUpTo(str, k, c + 1) = WordsUpTo(str, k, c)
      BY <1>1, <3>1, UpToNext
    <3>3. \A k : WordsUpTo(str, k, L) = WordsOfStage(str, k)
      BY <1>1, UpToEnd
    <3> QED  BY <2>2, <3>2, <3>3
  <2> QED  BY <1>2, <2>1, <2>2
<1>6. Stages(str) = 1 .. m
  <2>1. Before(str, c) = Before(str, L)
    <3>1. \A j \in 1 .. L : c < j /\ j <= L => str[j] # "|"
      <4>1. \A j \in 1 .. L : c < j => c + 1 = L /\ j = c + 1
        <5>1. \A j \in 1 .. c : ~(c < j)
          BY <1>1
        <5> QED  BY <1>4, <5>1
      <4> QED  BY <1>4, <4>1
    <3>2. c \in Int /\ L \in Int /\ c <= L
      BY <1>1
    <3> QED  BY <1>1, <3>1, <3>2, BeforeIs
  <2>2. Cardinality(Bars(str)) = Before(str, L)
    BY <1>1, BeforeIs
  <2> QED  BY <1>2, <2>1, <2>2 DEF Stages
<1>7. Stages(typed) = 1 .. m
  BY <1>1, <1>3, <1>6, TrimStages
<1>8. \A k \in 1 .. m : Lists(commands[k], str, WordsOfStage(str, k))
  BY <1>1, <1>2, <1>5
<1> HIDE DEF m
<1>9. \A k \in 1 .. m : commands[k] = ArgumentArray(typed, k)
  <2> SUFFICES ASSUME NEW k \in 1 .. m PROVE commands[k] = ArgumentArray(typed, k)
    OBVIOUS
  <2>1. Lists(commands[k], typed, WordsOfStage(typed, k))
    BY <1>1, <1>3, <1>8, TrimLists
  <2> QED  BY <1>1, <2>1, ListIsArray
<1>10. commands = [k \in Stages(typed) |-> ArgumentArray(typed, k)]
  <2>1. commands = [k \in 1 .. m |-> commands[k]]
    BY <1>1
  <2> QED  BY <1>7, <1>9, <2>1
<1>11. "&" \in ToSet(str) => c + 1 = L
  <2>1. \A j \in 1 .. L : str[j] = "&" => c + 1 = L
    BY <1>2, <1>4
  <2> QED  BY <1>1, <2>1 DEF ToSet
<1>12. isBackground <=> "&" \in ToSet(str)
  <2>1. CASE c = L /\ isBackground = FALSE
    BY <1>4, <1>11, <2>1
  <2>2. CASE c + 1 = L /\ str[c + 1] = "&" /\ isBackground = TRUE
    <3>1. c + 1 \in DOMAIN str
      BY <1>1, <2>2
    <3>2. "&" \in ToSet(str)
      BY <2>2, <3>1 DEF ToSet
    <3> QED  BY <2>2, <3>2
  <2> QED  BY <1>2, <2>1, <2>2
<1>13. IsCall(str)
  <2>1. "?" \notin ToSet(str)
    <3>1. \A j \in 1 .. L : str[j] # "?"
      BY <1>2, <1>4
    <3> QED  BY <1>1, <3>1 DEF ToSet
  <2>2. \A k \in Stages(str) : WordsOfStage(str, k) # {}
    BY <1>1, <1>6, <1>8, ListIsArray
  <2>3. ASSUME NEW i \in DOMAIN str, NEW j \in DOMAIN str, str[i] = "&", i < j PROVE isspace(str[j])
    <3>1. i = L
      BY <1>1, <1>2, <1>4, <2>3
    <3>2. j <= L /\ i < j /\ j \in Int
      <4>1. j \in 1 .. L
        BY <1>1
      <4> HIDE DEF L
      <4> QED  BY <1>1, <2>3, <4>1
    <3> HIDE DEF L
    <3> QED  BY <1>1, <3>1, <3>2
  <2> QED  BY <2>1, <2>2, <2>3 DEF IsCall
<1>14. IsCall(typed) /\ ("&" \in ToSet(typed) <=> "&" \in ToSet(str))
  <2>1. "&" \in Chars \ {" "}
    BY DEF Chars
  <2> QED  BY <1>1, <1>3, <1>13, <2>1, TrimCall
<1> QED  BY <1>10, <1>12, <1>14

--------------------------------------------------------------------------------
(***************************************************************************)
(* The theorems.                                                           *)
(***************************************************************************)

\* Every reachable state satisfies the invariant.
THEOREM LinesInvariance == Spec => []LinesInv
BY InvInit, InvNext, PTL DEF Spec

\* The variables keep their types, and command_new stops at no space.
THEOREM LinesTypeCorrect == Spec => []TypeOK
<1>1. LinesInv => TypeOK
  BY DEF LinesInv
<1> QED  BY <1>1, LinesInvariance, PTL

\* At the next prompt everything that was allocated for a line has been freed.
THEOREM MemoryIsBalanced == Spec => []MemoryBalanced
<1>1. LinesInv => MemoryBalanced
  BY DEF LinesInv, HeapIs, MemoryBalanced
<1> QED  BY <1>1, LinesInvariance, PTL

\* The parser frees twice, or writes beyond the array of arguments, only on a line
\* with a command of no words.  The byte that readInput writes before the line at
\* the end of the input is not among what this speaks of.
THEOREM OnlyEmptyIsUndefined == Spec => []UndefinedOnlyIfEmpty
<1>1. LinesInv => UndefinedOnlyIfEmpty
  BY DEF LinesInv
<1> QED  BY <1>1, LinesInvariance, PTL

\* A line of any length is run exactly when it is a call, with the words that
\* were typed.
THEOREM WhatIsTypedIsRun == Spec => []RunsWhatWasTyped
<1>1. ASSUME LinesInv PROVE RunsWhatWasTyped
  <2>1. ASSUME complete, pc = "reject" PROVE ~IsCall(typed)
    <3>1. typed \in Seq(Chars) /\ input \in Seq(Chars)
      BY <1>1, LinesAre DEF LinesInv
    <3>2. input = typed /\ str = trimString(typed) /\ ~IsCall(str)
      BY <1>1, <2>1 DEF LinesInv, ParseIs
    <3>3. PICK o : Trimmed(typed, str, o)
      BY <3>1, <3>2, TrimIs
    <3> QED  BY <3>1, <3>2, <3>3, TrimCall
  <2> QED  BY <1>1, <2>1, RunIsCall DEF RunsWhatWasTyped
<1> QED  BY <1>1, LinesInvariance, PTL

--------------------------------------------------------------------------------
(***************************************************************************)
(* The loops of call_new and command_new end.                              *)
(***************************************************************************)

\* A bound on the steps from one place of main's loop to the next prompt.
StepsLeft ==
  CASE pc = "call"                -> MaxLength + 4
    [] pc \in {"command", "next"} -> Len(str) - c + 3
    [] pc \in {"run", "reject"}   -> 2
    [] pc = "release"             -> 1
    [] OTHER                      -> 0

\* From the line read to the line freed, each step brings the next prompt nearer,
\* or the end of the shell.
PromptComesNearer == StepsLeft \in Nat /\ (pc # "prompt" => StepsLeft' < StepsLeft)

\* A command that is constructed has a word, and c passes over it.
LEMMA CommandAdvances ==
  ASSUME LinesInv, CommandNew
  PROVE  c' > c /\ c' <= Len(str) /\ c' \in Nat
<1>1. pc = "command" /\ getValidSeqCount(str, c) > 0 /\ c' = ScanArguments(str, c).stop
  BY DEF CommandNew
<1>2. PICK n, p, stop :
        /\ InOrder(p, n, WordsFrom(str, c, stop))
        /\ getValidSeqCount(str, c) = n
        /\ ScanArguments(str, c) = [args |-> Texts(str, p, n), stop |-> stop]
        /\ stop \in c .. Len(str)
  BY <1>1, CommandFound, Zenon
<1>3. c' = stop
  BY <1>1, <1>2
<1>4. str \in Seq(Chars) /\ Len(str) \in Nat /\ c \in Nat
  BY LinesAre DEF LinesInv
<1>5. p[1] \in Words(str) /\ c < p[1][1] /\ p[1][1] <= stop
  <2>1. n \in Nat /\ n > 0 /\ p \in [1 .. n -> WordsFrom(str, c, stop)]
    BY <1>1, <1>2 DEF InOrder
  <2>2. p[1] \in WordsFrom(str, c, stop)
    BY <2>1
  <2> QED  BY <2>2 DEF WordsFrom
<1>6. p[1][1] \in Int
  BY <1>4, <1>5, WordPairs
<1> DEFINE x == p[1][1]
           L == Len(str)
<1>7. x \in Int /\ c < x /\ x <= stop /\ stop \in c .. L /\ c \in Nat /\ L \in Nat
  BY <1>2, <1>4, <1>5, <1>6
<1> HIDE DEF x, L
<1>8. stop > c /\ stop <= L /\ stop \in Nat
  BY <1>7
<1> QED  BY <1>3, <1>8 DEF L

\* main handles each line in a bounded number of steps, at most four more than a
\* line can have characters: the parser does not stay in front of a character.
THEOREM EveryLineIsHandled == Spec => [][PromptComesNearer]_vars
<1>1. ASSUME LinesInv, Next PROVE [PromptComesNearer]_vars
  <2> DEFINE L == Len(str)
  <2>1. /\ L \in Nat /\ c \in Nat /\ c <= L /\ L <= MaxLength /\ MaxLength \in Nat
        /\ pc \in {"prompt", "call", "command", "next", "run", "reject", "release", "ended", "undefined"}
    <3>1. L \in Nat /\ c \in Nat /\ c <= L
      BY <1>1, LinesAre DEF LinesInv
    <3>2. L <= MaxLength
      BY <1>1, LineIs DEF LinesInv, TypeOK
    <3> QED  BY <1>1, <3>1, <3>2, MaxLengthAssumption DEF LinesInv, TypeOK
  <2>2. StepsLeft \in Nat
    <3> HIDE DEF L
    <3>1. L - c + 3 \in Nat /\ MaxLength + 4 \in Nat
      BY <2>1
    <3> HIDE DEF L
    <3> QED  BY <3>1 DEF StepsLeft, L
  <2>3. pc \in {"command", "next"} => StepsLeft >= 3
    <3> HIDE DEF L
    <3>1. L - c + 3 >= 3
      BY <2>1
    <3> QED  BY <3>1 DEF StepsLeft, L
  <2>4. CASE ReadInput
    BY <2>2, <2>4 DEF ReadInput, PromptComesNearer
  <2>5. CASE CallNew
    <3>1. pc = "call" /\ pc' = "command" /\ str' = trimString(input) /\ c' = c /\ c = 0
      BY <1>1, <2>5 DEF CallNew, LinesInv, ParseIs
    <3>2. str' \in Lines
      BY <1>1, <3>1, LinesAre DEF LinesInv
    <3>3. Len(str') \in Nat /\ Len(str') <= MaxLength
      BY <3>2, LineIs, LenProperties
    <3> DEFINE M == Len(str')
    <3>4. StepsLeft = MaxLength + 4 /\ StepsLeft' = M - 0 + 3
      BY <3>1 DEF StepsLeft
    <3> HIDE DEF M
    <3>5. M \in Nat /\ M <= MaxLength
      BY <3>3 DEF M
    <3> QED  BY <2>1, <2>2, <3>4, <3>5 DEF PromptComesNearer
  <2>6. CASE CommandNew
    <3>1. pc = "command" /\ str' = str /\ pc' \in {"undefined", "next"}
      BY <2>6 DEF CommandNew
    <3>2. c' > c /\ c' \in Nat
      BY <1>1, <2>6, CommandAdvances
    <3>3. StepsLeft = L - c + 3 /\ (pc' = "next" => StepsLeft' = L - c' + 3) /\ (pc' = "undefined" => StepsLeft' = 0)
      BY <3>1 DEF StepsLeft
    <3> HIDE DEF L
    <3> QED  BY <2>1, <2>2, <2>3, <3>1, <3>2, <3>3 DEF PromptComesNearer
  <2>7. CASE Pipe
    <3>1. pc = "next" /\ pc' = "command" /\ str' = str /\ c' = c + 1
      BY <2>7 DEF Pipe
    <3>2. StepsLeft = L - c + 3 /\ StepsLeft' = L - c' + 3
      BY <3>1 DEF StepsLeft
    <3> HIDE DEF L
    <3> QED  BY <2>1, <2>2, <3>1, <3>2 DEF PromptComesNearer
  <2>8. CASE EmptyCommand \/ Background \/ Invalid \/ EndOfLine
    <3>1. pc \in {"command", "next"} /\ pc' \in {"run", "reject", "undefined"}
      BY <2>8 DEF EmptyCommand, Background, Invalid, EndOfLine
    <3>2. StepsLeft' \in {0, 2}
      BY <3>1 DEF StepsLeft
    <3> QED  BY <2>2, <2>3, <3>1, <3>2 DEF PromptComesNearer
  <2>9. CASE Reject \/ RunCall \/ ExitShell
    <3>1. pc \in {"run", "reject"} /\ pc' \in {"release", "ended", "undefined"}
      BY <2>9 DEF Reject, RunCall, ExitShell, FreeThen
    <3>2. StepsLeft = 2 /\ StepsLeft' \in {0, 1}
      BY <3>1 DEF StepsLeft
    <3> QED  BY <3>2 DEF PromptComesNearer
  <2>10. CASE Release
    <3>1. pc = "release" /\ pc' \in {"prompt", "undefined"}
      BY <2>10 DEF Release, FreeThen
    <3>2. StepsLeft = 1 /\ StepsLeft' = 0
      BY <3>1 DEF StepsLeft
    <3> QED  BY <3>2 DEF PromptComesNearer
  <2>11. CASE Over
    BY <2>11 DEF Over
  <2> QED  BY <1>1, <2>4, <2>5, <2>6, <2>7, <2>8, <2>9, <2>10, <2>11 DEF Next
<1>2. LinesInv /\ [Next]_vars => [PromptComesNearer]_vars
  BY <1>1
<1> QED  BY <1>2, LinesInvariance, PTL DEF Spec
================================================================================
