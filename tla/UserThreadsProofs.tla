--------------------------- MODULE UserThreadsProofs ---------------------------
(***************************************************************************)
(* The safety properties of UserThreads for every number of threads, every *)
(* number of stacks and every set of files.                                *)
(***************************************************************************)
EXTENDS UserThreads, SequenceTheorems, TLAPS

\* What is true at each place of control.  The scheduler creates the new threads
\* before it selects one: whoever is resumed within a library call finds none
\* that is still to be created, and somebody is always there to be selected.
Position ==
  /\ control \in {"select", "find", "poll", "read"} => newThreads = <<>>
  /\ control \in Places => curr \in Threads /\ Found(curr)

\* A thread that is still to be created has no jump point.
Uncreated == \A t \in ToSet(newThreads) : jumpPoint[t] = "none"

\* The inductive invariant.
ThreadInv == TypeOK /\ EachListedOnce /\ JumpPointsValid /\ Position /\ Uncreated

--------------------------------------------------------------------------------
(***************************************************************************)
(* The operators on lists.                                                 *)
(***************************************************************************)

\* A reversed list has the same length and elements.
LEMMA ReverseProperties ==
  ASSUME NEW S, NEW s \in Seq(S)
  PROVE  /\ Reverse(s) \in Seq(S)
         /\ Len(Reverse(s)) = Len(s)
         /\ \A k \in 1 .. Len(s) : Reverse(s)[k] = s[Len(s) - k + 1]
         /\ ToSet(Reverse(s)) = ToSet(s)
<1>1. /\ Len(s) \in Nat /\ DOMAIN s = 1 .. Len(s)
      /\ \A k \in 1 .. Len(s) : s[k] \in S
  BY LenProperties, ElementOfSeq
<1>2. Reverse(s) \in [1 .. Len(s) -> S]
  BY <1>1 DEF Reverse
<1>3. Reverse(s) \in Seq(S)
  BY <1>1, <1>2, SeqDef
<1>4. Len(Reverse(s)) = Len(s) /\ DOMAIN Reverse(s) = 1 .. Len(s)
  BY <1>1, <1>2, <1>3, LenProperties
<1>5. \A k \in 1 .. Len(s) : Reverse(s)[k] = s[Len(s) - k + 1]
  BY <1>1 DEF Reverse
<1>6. \A k \in 1 .. Len(s) : s[k] = Reverse(s)[Len(s) - k + 1]
  BY <1>1, <1>5
<1>7. ToSet(Reverse(s)) = ToSet(s)
  BY <1>1, <1>4, <1>5, <1>6 DEF ToSet
<1> QED  BY <1>3, <1>4, <1>5, <1>7

\* Joining two lists adds their lengths and joins their elements.
LEMMA JoinProperties ==
  ASSUME NEW S, NEW s \in Seq(S), NEW t \in Seq(S)
  PROVE  /\ s \o t \in Seq(S)
         /\ Len(s \o t) = Len(s) + Len(t)
         /\ ToSet(s \o t) = ToSet(s) \cup ToSet(t)
<1>1. /\ Len(s) \in Nat /\ DOMAIN s = 1 .. Len(s)
      /\ Len(t) \in Nat /\ DOMAIN t = 1 .. Len(t)
  BY LenProperties
<1>2. /\ s \o t \in Seq(S) /\ Len(s \o t) = Len(s) + Len(t)
      /\ DOMAIN (s \o t) = 1 .. Len(s) + Len(t)
      /\ \A k \in 1 .. Len(s) + Len(t) :
           (s \o t)[k] = IF k <= Len(s) THEN s[k] ELSE t[k - Len(s)]
  BY ConcatProperties, LenProperties
<1>3. ToSet(s \o t) \subseteq ToSet(s) \cup ToSet(t)
  BY <1>1, <1>2 DEF ToSet
<1>4. ToSet(s) \subseteq ToSet(s \o t)
  BY <1>1, <1>2 DEF ToSet
<1>5. ToSet(t) \subseteq ToSet(s \o t)
  <2>1. \A k \in 1 .. Len(t) : t[k] = (s \o t)[Len(s) + k] /\ Len(s) + k \in DOMAIN (s \o t)
    BY <1>1, <1>2
  <2> QED  BY <2>1, <1>1 DEF ToSet
<1> QED  BY <1>2, <1>3, <1>4, <1>5

\* A new element in front of a list.
LEMMA PushProperties ==
  ASSUME NEW S, NEW e \in S, NEW s \in Seq(S)
  PROVE  /\ <<e>> \o s \in Seq(S)
         /\ <<e>> \o s # <<>>
         /\ Len(<<e>> \o s) = Len(s) + 1
         /\ ToSet(<<e>> \o s) = ToSet(s) \cup {e}
         /\ Head(<<e>> \o s) = e
<1>1. /\ <<e>> \in Seq(S) /\ Len(<<e>>) = 1
      /\ ToSet(<<e>>) = {e}
  BY DEF ToSet
<1>2. \A u, v \in Seq(S) : /\ u \o v \in Seq(S)
                            /\ Len(u \o v) = Len(u) + Len(v)
                            /\ ToSet(u \o v) = ToSet(u) \cup ToSet(v)
  BY JoinProperties
<1>3. /\ <<e>> \o s \in Seq(S)
      /\ Len(<<e>> \o s) = Len(<<e>>) + Len(s)
      /\ ToSet(<<e>> \o s) = ToSet(<<e>>) \cup ToSet(s)
  BY <1>1, <1>2, Zenon
<1>4. Len(s) \in Nat
  BY LenProperties
<1>5. Len(<<e>> \o s) = Len(s) + 1
  BY <1>1, <1>3, <1>4
<1>6. ToSet(<<e>> \o s) = ToSet(s) \cup {e}
  BY <1>1, <1>3, Zenon
<1>7. <<e>> \o s # <<>> /\ Head(<<e>> \o s) = e
  BY <1>3, <1>4
<1> QED  BY <1>3, <1>5, <1>6, <1>7

\* The last element of a list, and what is before it.
LEMMA FrontProperties ==
  ASSUME NEW S, NEW s \in Seq(S), s # <<>>
  PROVE  /\ Len(s) \in Nat \ {0}
         /\ Front(s) \in Seq(S) /\ Len(Front(s)) = Len(s) - 1
         /\ \A k \in 1 .. Len(s) - 1 : Front(s)[k] = s[k]
         /\ Last(s) = s[Len(s)] /\ Last(s) \in S /\ Last(s) \in ToSet(s)
         /\ ToSet(Front(s)) \cup {Last(s)} = ToSet(s)
<1>1. /\ Len(s) \in Nat \ {0} /\ DOMAIN s = 1 .. Len(s)
      /\ \A k \in 1 .. Len(s) : s[k] \in S
  BY LenProperties, ElementOfSeq, EmptySeq
<1>2. /\ Front(s) \in Seq(S) /\ Len(Front(s)) = Len(s) - 1
      /\ \A k \in 1 .. Len(s) - 1 : Front(s)[k] = s[k]
  <2>1. \A k \in 1 .. Len(s) - 1 : s[k] \in S
    BY <1>1
  <2> QED  BY <2>1, <1>1, SubSeqProperties DEF Front
<1>3. DOMAIN Front(s) = 1 .. Len(s) - 1
  BY <1>2, LenProperties
<1>4. Last(s) = s[Len(s)] /\ Last(s) \in S /\ Last(s) \in ToSet(s)
  BY <1>1 DEF Last, ToSet
<1>5. ToSet(Front(s)) \cup {Last(s)} = ToSet(s)
  BY <1>1, <1>2, <1>3, <1>4 DEF ToSet
<1> QED  BY <1>1, <1>2, <1>4, <1>5

\* Rotating a list keeps its length and its elements; its last one comes first.
LEMMA RotatedProperties ==
  ASSUME NEW S, NEW s \in Seq(S), s # <<>>
  PROVE  /\ Rotated(s) \in Seq(S)
         /\ Rotated(s) # <<>>
         /\ Len(Rotated(s)) = Len(s)
         /\ ToSet(Rotated(s)) = ToSet(s)
         /\ Head(Rotated(s)) = Last(s)
<1>1. /\ Front(s) \in Seq(S) /\ Last(s) \in S
      /\ Len(Front(s)) + 1 = Len(s)
  BY FrontProperties
<1>2. ToSet(Front(s)) \cup {Last(s)} = ToSet(s)
  BY FrontProperties
<1>3. /\ Rotated(s) \in Seq(S) /\ Rotated(s) # <<>>
      /\ Len(Rotated(s)) = Len(Front(s)) + 1
      /\ ToSet(Rotated(s)) = ToSet(Front(s)) \cup {Last(s)}
      /\ Head(Rotated(s)) = Last(s)
  BY <1>1, PushProperties DEF Rotated
<1> QED  BY <1>1, <1>2, <1>3, Zenon

\* ult_init satisfies the invariant: thread 0 is to be created, nothing else exists.
LEMMA ThreadInit == Init => ThreadInv
<1> SUFFICES ASSUME Init PROVE ThreadInv
  OBVIOUS
<1> USE MaxThreadsAssumption DEF Init, Threads, None
<1>1. /\ newThreads \in Seq(Threads) /\ threadList \in Seq(Threads)
      /\ newThreads \o threadList = <<0>>
      /\ ToSet(newThreads) = {0} /\ ToSet(threadList) = {}
  BY DEF ToSet
<1>2. TypeOK
  BY <1>1 DEF TypeOK, Places
<1>3. EachListedOnce
  BY <1>1 DEF EachListedOnce
<1>4. JumpPointsValid
  BY <1>1 DEF JumpPointsValid, Found, Places
<1>5. Position /\ Uncreated
  BY <1>1 DEF Position, Uncreated, Places
<1> QED  BY <1>2, <1>3, <1>4, <1>5 DEF ThreadInv

\* The invariant says which ids are listed where.
LEMMA ListFacts ==
  ASSUME TypeOK, EachListedOnce
  PROVE  /\ Len(newThreads) \in Nat /\ Len(threadList) \in Nat
         /\ Len(newThreads) + Len(threadList) = threadCounter
         /\ ToSet(newThreads) \cup ToSet(threadList) = 0 .. threadCounter - 1
         /\ newThreads = <<>> => threadList # <<>> /\ ToSet(threadList) = 0 .. threadCounter - 1
<1>1. newThreads \in Seq(Threads) /\ threadList \in Seq(Threads)
  BY DEF TypeOK
<1>2. /\ Len(newThreads) \in Nat /\ Len(threadList) \in Nat
      /\ Len(newThreads) + Len(threadList) = threadCounter
      /\ ToSet(newThreads) \cup ToSet(threadList) = 0 .. threadCounter - 1
  BY <1>1, JoinProperties, LenProperties DEF EachListedOnce
<1>3. newThreads = <<>> => Len(newThreads) = 0 /\ ToSet(newThreads) = {}
  BY DEF ToSet
<1>4. threadList = <<>> => Len(threadList) = 0
  OBVIOUS
<1>5. threadCounter \in Nat \ {0}
  BY MaxThreadsAssumption DEF TypeOK
<1>6. newThreads = <<>> => threadList # <<>>
  BY <1>2, <1>3, <1>4, <1>5
<1>7. newThreads = <<>> => ToSet(threadList) = 0 .. threadCounter - 1
  <2>1. ToSet(newThreads) = {} => ToSet(threadList) = ToSet(newThreads) \cup ToSet(threadList)
    OBVIOUS
  <2> QED  BY <2>1, <1>2, <1>3, Zenon
<1> QED  BY <1>2, <1>6, <1>7, Zenon

\* Every step keeps the inductive invariant: the scheduler, the library calls
\* and the user code, and what arrives from outside.
LEMMA ThreadStep == ThreadInv /\ [Next]_vars => ThreadInv'
<1> SUFFICES ASSUME TypeOK, EachListedOnce, JumpPointsValid, Position, Uncreated, [Next]_vars
             PROVE  ThreadInv'
  BY DEF ThreadInv
<1> USE MaxThreadsAssumption
<1>l. /\ newThreads = <<>> => threadList # <<>> /\ ToSet(threadList) = 0 .. threadCounter - 1
  BY ListFacts
<1>1. CASE HandleNewThreads
  <2> USE <1>1 DEF HandleNewThreads
  <2>1. /\ Reverse(newThreads) \in Seq(Threads) /\ Len(Reverse(newThreads)) = Len(newThreads)
        /\ ToSet(Reverse(newThreads)) = ToSet(newThreads)
    BY ReverseProperties DEF TypeOK
  <2>2. /\ threadList' \in Seq(Threads)
        /\ Len(threadList') = Len(newThreads) + Len(threadList)
        /\ ToSet(threadList') = ToSet(newThreads) \cup ToSet(threadList)
    <3>1. \A u, v \in Seq(Threads) : /\ u \o v \in Seq(Threads)
                                      /\ Len(u \o v) = Len(u) + Len(v)
                                      /\ ToSet(u \o v) = ToSet(u) \cup ToSet(v)
      BY JoinProperties
    <3>2. threadList \in Seq(Threads) /\ threadList' = Reverse(newThreads) \o threadList
      BY DEF TypeOK
    <3> QED  BY <3>1, <3>2, <2>1, Zenon
  <2>3. newThreads' = <<>> /\ ToSet(newThreads') = {} /\ newThreads' \o threadList' = threadList'
    BY <2>2 DEF ToSet
  <2>4. TypeOK'
    BY <2>2, <2>3 DEF TypeOK, Places
  <2>5. EachListedOnce'
    <3>1. Len(threadList') = threadCounter /\ ToSet(threadList') = 0 .. threadCounter - 1
      BY <2>2, ListFacts
    <3> QED  BY <3>1, <2>3 DEF EachListedOnce
  <2>6. JumpPointsValid'
    BY <2>2 DEF JumpPointsValid, Found, TypeOK, Uncreated, Places
  <2>7. Position' /\ Uncreated'
    BY <2>3 DEF Position, Uncreated, Places
  <2> QED  BY <2>4, <2>5, <2>6, <2>7 DEF ThreadInv
<1>2. CASE OutOfStacks
  <2> USE <1>2 DEF OutOfStacks, lists
  <2>1. TypeOK'
    BY DEF TypeOK, Places
  <2>2. EachListedOnce'
    BY DEF EachListedOnce
  <2>3. JumpPointsValid' /\ Position' /\ Uncreated'
    BY DEF JumpPointsValid, Position, Uncreated, Found, Places
  <2> QED  BY <2>1, <2>2, <2>3 DEF ThreadInv
<1>3. CASE SelectNextThread
  <2> DEFINE selected == Last(threadList)
  <2> USE <1>3 DEF SelectNextThread
  <2>1. /\ newThreads = <<>> /\ threadList # <<>>
        /\ newThreads' = <<>> /\ threadCounter' = threadCounter
    BY <1>l DEF Position
  <2>2. /\ threadList' \in Seq(Threads) /\ threadList' # <<>>
        /\ Len(threadList') = Len(threadList) /\ ToSet(threadList') = ToSet(threadList)
        /\ Head(threadList') = selected /\ selected \in ToSet(threadList)
    BY <2>1, RotatedProperties, FrontProperties DEF TypeOK
  <2>3. selected \in Threads
    BY <2>1, FrontProperties DEF TypeOK
  <2>4. selected \notin zombies => jumpPoint[selected] \in Places
    BY <2>2, <2>3 DEF TypeOK, JumpPointsValid, Found
  <2>5. TypeOK'
    BY <2>1, <2>2, <2>3, <2>4 DEF TypeOK
  <2>6. EachListedOnce'
    <3>1. newThreads' \o threadList' = threadList'
      BY <2>1, <2>2
    <3>2. Len(threadList') = threadCounter /\ ToSet(threadList') = 0 .. threadCounter - 1
      <4>1. newThreads = <<>> => Len(newThreads) = 0
        OBVIOUS
      <4>2. Len(threadList) = threadCounter
        BY <4>1, <2>1, ListFacts
      <4> QED  BY <4>2, <2>1, <2>2, <1>l
    <3> QED  BY <3>1, <3>2, <2>1 DEF EachListedOnce
  <2>7. JumpPointsValid'
    <3>1. selected \in zombies => control' = "select"
      BY <2>2
    <3>2. selected \notin zombies => curr' = selected
      BY <2>2
    <3>3. \A t \in Threads : Found(t)' <=> Found(t)
      BY <2>2 DEF Found
    <3> QED  BY <3>1, <3>2, <3>3, <2>2 DEF JumpPointsValid, Places
  <2>8. Position'
    BY <2>1, <2>2, <2>3 DEF Position, Found, Places
  <2>9. Uncreated'
    BY <2>1 DEF Uncreated, ToSet
  <2> QED  BY <2>5, <2>6, <2>7, <2>8, <2>9 DEF ThreadInv
<1>4. CASE Spawn
  <2> USE <1>4 DEF Spawn
  <2>1. threadCounter \in Threads
    BY DEF TypeOK, Threads
  <2>2. /\ newThreads' \in Seq(Threads) /\ Len(newThreads') = Len(newThreads) + 1
        /\ ToSet(newThreads') = ToSet(newThreads) \cup {threadCounter}
    <3>1. newThreads \in Seq(Threads) /\ newThreads' = <<threadCounter>> \o newThreads
      BY DEF TypeOK
    <3> QED  BY <3>1, <2>1, PushProperties
  <2>3. TypeOK'
    BY <2>1, <2>2 DEF TypeOK, Threads
  <2>4. EachListedOnce'
    <3>1. /\ Len(newThreads') + Len(threadList') = threadCounter'
          /\ ToSet(newThreads') \cup ToSet(threadList') = 0 .. threadCounter' - 1
      <4>1. /\ Len(newThreads) + 1 + Len(threadList) = threadCounter + 1
            /\ (0 .. threadCounter - 1) \cup {threadCounter} = 0 .. threadCounter
        BY ListFacts DEF TypeOK
      <4>2. threadCounter' - 1 = threadCounter
        BY DEF TypeOK
      <4>3. ToSet(newThreads') \cup ToSet(threadList') = (0 .. threadCounter - 1) \cup {threadCounter}
        BY <2>2, ListFacts, Zenon
      <4> QED  BY <4>1, <4>2, <4>3, <2>2
    <3>2. /\ newThreads' \in Seq(Threads) /\ threadList' \in Seq(Threads)
      BY <2>3 DEF TypeOK
    <3>3. /\ Len(newThreads' \o threadList') = Len(newThreads') + Len(threadList')
          /\ ToSet(newThreads' \o threadList') = ToSet(newThreads') \cup ToSet(threadList')
      <4>1. \A a, b \in Seq(Threads) : Len(a \o b) = Len(a) + Len(b) /\ ToSet(a \o b) = ToSet(a) \cup ToSet(b)
        BY JoinProperties
      <4> QED  BY <3>2, <4>1, Zenon
    <3> HIDE DEF Threads
    <3>4. Len(newThreads' \o threadList') = threadCounter'
      BY <3>1, <3>3, Zenon
    <3>5. ToSet(newThreads' \o threadList') = 0 .. threadCounter' - 1
      BY <3>1, <3>3, Zenon
    <3> QED  BY <3>4, <3>5, Zenon DEF EachListedOnce
  <2>5. ~Found(threadCounter)
    <3>1. threadCounter \notin ToSet(threadList)
      BY ListFacts DEF TypeOK
    <3> QED  BY <3>1 DEF Found
  <2>6. JumpPointsValid' /\ Position'
    BY DEF JumpPointsValid, Position, Found
  <2>7. Uncreated'
    BY <2>1, <2>2, <2>5 DEF Uncreated, JumpPointsValid
  <2> QED  BY <2>3, <2>4, <2>6, <2>7 DEF ThreadInv
<1>5. CASE Yield
  <2> USE <1>5 DEF Yield, YieldAt, lists
  <2>1. TypeOK'
    BY DEF TypeOK, Position, Places
  <2>2. EachListedOnce'
    BY DEF EachListedOnce
  <2>3. JumpPointsValid' /\ Position' /\ Uncreated'
    BY DEF TypeOK, JumpPointsValid, Position, Uncreated, Found, Places
  <2> QED  BY <2>1, <2>2, <2>3 DEF ThreadInv
<1>6. CASE Exit
  <2> USE <1>6 DEF Exit, lists
  <2>1. TypeOK'
    BY DEF TypeOK, Position, Places
  <2>2. EachListedOnce'
    BY DEF EachListedOnce
  <2>3. JumpPointsValid' /\ Position' /\ Uncreated'
    BY DEF TypeOK, JumpPointsValid, Position, Uncreated, Found, Places
  <2> QED  BY <2>1, <2>2, <2>3 DEF ThreadInv
<1>7. CASE ExitProcess
  <2> USE <1>7 DEF ExitProcess, lists
  <2>1. TypeOK'
    BY DEF TypeOK, Position, Places
  <2>2. EachListedOnce'
    BY DEF EachListedOnce
  <2>3. JumpPointsValid' /\ Position' /\ Uncreated'
    BY DEF TypeOK, JumpPointsValid, Position, Uncreated, Found, Places
  <2> QED  BY <2>1, <2>2, <2>3 DEF ThreadInv
<1>8. ASSUME NEW tid \in 0 .. MaxThreads, WaitpidCall(tid) PROVE ThreadInv'
  <2> USE <1>8 DEF WaitpidCall, YieldAt, lists
  <2>1. TypeOK'
    BY DEF TypeOK, Position, Places
  <2>2. EachListedOnce'
    BY DEF EachListedOnce
  <2>3. JumpPointsValid' /\ Position' /\ Uncreated'
    BY DEF TypeOK, JumpPointsValid, Position, Uncreated, Found, Places
  <2> QED  BY <2>1, <2>2, <2>3 DEF ThreadInv
<1>9. ASSUME NEW fd \in Files, ReadBlocks(fd) PROVE ThreadInv'
  <2> USE <1>9 DEF ReadBlocks, YieldAt, lists
  <2>1. TypeOK'
    BY DEF TypeOK, Position, Places
  <2>2. EachListedOnce'
    BY DEF EachListedOnce
  <2>3. JumpPointsValid' /\ Position' /\ Uncreated'
    BY DEF TypeOK, JumpPointsValid, Position, Uncreated, Found, Places
  <2> QED  BY <2>1, <2>2, <2>3 DEF ThreadInv
<1>10. ASSUME NEW fd \in Files, ReadAtOnce(fd) PROVE ThreadInv'
  <2> USE <1>10 DEF ReadAtOnce, Consume, lists
  <2>1. TypeOK'
    BY DEF TypeOK, Position, Places
  <2>2. EachListedOnce'
    BY DEF EachListedOnce
  <2>3. JumpPointsValid' /\ Position' /\ Uncreated'
    BY DEF TypeOK, JumpPointsValid, Position, Uncreated, Found, Places
  <2> QED  BY <2>1, <2>2, <2>3 DEF ThreadInv
<1>11. CASE WaitpidUnknown
  <2> USE <1>11 DEF WaitpidUnknown, Return, lists
  <2>1. TypeOK'
    BY DEF TypeOK, Position, Places
  <2>2. EachListedOnce'
    BY DEF EachListedOnce
  <2>3. JumpPointsValid' /\ Position' /\ Uncreated'
    BY DEF TypeOK, JumpPointsValid, Position, Uncreated, Found, Places
  <2> QED  BY <2>1, <2>2, <2>3 DEF ThreadInv
<1>12. CASE WaitpidDone
  <2> USE <1>12 DEF WaitpidDone, Return, lists
  <2>1. TypeOK'
    BY DEF TypeOK, Position, Places
  <2>2. EachListedOnce'
    BY DEF EachListedOnce
  <2>3. JumpPointsValid' /\ Position' /\ Uncreated'
    BY DEF TypeOK, JumpPointsValid, Position, Uncreated, Found, Places
  <2> QED  BY <2>1, <2>2, <2>3 DEF ThreadInv
<1>13. CASE WaitpidAgain
  <2> USE <1>13 DEF WaitpidAgain, YieldAt, lists
  <2>1. TypeOK'
    BY DEF TypeOK, Position, Places
  <2>2. EachListedOnce'
    BY DEF EachListedOnce
  <2>3. JumpPointsValid' /\ Position' /\ Uncreated'
    BY DEF TypeOK, JumpPointsValid, Position, Uncreated, Found, Places
  <2> QED  BY <2>1, <2>2, <2>3 DEF ThreadInv
<1>14. CASE ReadDone
  <2> USE <1>14 DEF ReadDone, Return, Consume, lists
  <2>1. TypeOK'
    BY DEF TypeOK, Position, Places
  <2>2. EachListedOnce'
    BY DEF EachListedOnce
  <2>3. JumpPointsValid' /\ Position' /\ Uncreated'
    BY DEF TypeOK, JumpPointsValid, Position, Uncreated, Found, Places
  <2> QED  BY <2>1, <2>2, <2>3 DEF ThreadInv
<1>15. CASE ReadAgain
  <2> USE <1>15 DEF ReadAgain, YieldAt, lists
  <2>1. TypeOK'
    BY DEF TypeOK, Position, Places
  <2>2. EachListedOnce'
    BY DEF EachListedOnce
  <2>3. JumpPointsValid' /\ Position' /\ Uncreated'
    BY DEF TypeOK, JumpPointsValid, Position, Uncreated, Found, Places
  <2> QED  BY <2>1, <2>2, <2>3 DEF ThreadInv
<1>16. ASSUME NEW fd \in Files, Arrive(fd) PROVE ThreadInv'
  <2> USE <1>16 DEF Arrive, lists
  <2>1. TypeOK'
    BY DEF TypeOK, Position, Places
  <2>2. EachListedOnce'
    BY DEF EachListedOnce
  <2>3. JumpPointsValid' /\ Position' /\ Uncreated'
    BY DEF TypeOK, JumpPointsValid, Position, Uncreated, Found, Places
  <2> QED  BY <2>1, <2>2, <2>3 DEF ThreadInv
<1>17. CASE UNCHANGED vars
  BY <1>17 DEF vars, lists, ThreadInv, TypeOK, EachListedOnce, JumpPointsValid, Position, Uncreated, Found
<1> QED  BY <1>1, <1>2, <1>3, <1>4, <1>5, <1>6, <1>7, <1>8, <1>9, <1>10, <1>11, <1>12, <1>13, <1>14, <1>15, <1>16, <1>17
  DEF Next, Scheduler, Library, User, LetGo, Ended
--------------------------------------------------------------------------------

\* The inductive invariant holds in every state.
THEOREM ThreadInvariance == Spec => []ThreadInv
BY ThreadInit, ThreadStep, PTL DEF Spec

\* The types of the library's lists, jump points and arguments, whatever the
\* threads call.
THEOREM ThreadTypes == Spec => []TypeOK
<1>1. ThreadInv => TypeOK
  BY DEF ThreadInv
<1> QED  BY <1>1, ThreadInvariance, PTL

\* The two lists hold every thread ever spawned exactly once: handleNewThreads
\* and the rotation in selectNextThread lose and double none.
THEOREM ListsComplete == Spec => []EachListedOnce
<1>1. ThreadInv => EachListedOnce
  BY DEF ThreadInv
<1> QED  BY <1>1, ThreadInvariance, PTL

\* longjmp goes to a place saved by the thread that is resumed, and never to a
\* jump point that has been zeroed or not been set.
THEOREM JumpsValid == Spec => []JumpPointsValid
<1>1. ThreadInv => JumpPointsValid
  BY DEF ThreadInv
<1> QED  BY <1>1, ThreadInvariance, PTL

\* ult_waitpid finds every thread that has been spawned, for it yields before it
\* looks, and the scheduler creates the new threads before it resumes the caller.
THEOREM WaitpidFinds == Spec => []WaitpidFindsSpawned
<1>1. ThreadInv => WaitpidFindsSpawned
  <2> SUFFICES ASSUME ThreadInv, control = "find", arg[curr] \in 0 .. threadCounter - 1
               PROVE  Found(arg[curr])
    BY DEF WaitpidFindsSpawned
  <2>1. newThreads = <<>>
    BY DEF ThreadInv, Position
  <2>2. ToSet(threadList) = 0 .. threadCounter - 1
    BY <2>1, ListFacts DEF ThreadInv
  <2> QED  BY <2>2 DEF Found
<1> QED  BY <1>1, ThreadInvariance, PTL
================================================================================
